---------------------------- MODULE MemTreeList ----------------------------
(***************************************************************************)
(* The tree of module MemTree as the ordered list of keys it is.           *)
(***************************************************************************)
EXTENDS MemTreeSafety, SequencesExt

(* The live keys, in the order of a walk through the tree below node a.    *)
RECURSIVE Walk(_)
Walk(a) ==
  LET x   == heap[a]
      own == [j \in 1 .. x.n |-> x.keys[j - 1]]
  IN  IF x.leaf THEN own
      ELSE Walk(x.children[0]) \o
           FlattenSeq([j \in 1 .. x.n |-> <<own[j]>> \o Walk(x.children[j])])

(* While a key that took the place of another is still to be deleted       *)
(* below, the list is the one with the key that it replaced.               *)
Ordered(keys, k) ==
  InsertAt(keys, Len(SelectSeq(keys, LAMBDA other : other <= k)) + 1, k)

List ==
  IF call.name = "del" /\ key # call.number
  THEN Ordered(RemoveFirst(Walk(root), key), call.number)
  ELSE Walk(root)

KeyList == INSTANCE SortedKeys WITH sorted <- List

(* Every call is a step of the list when it returns, and every step before *)
(* that leaves the list alone.  Of a key that is not there the list        *)
(* promises less than btree2.c says: deleting it may take away the key     *)
(* before it (and only that one), searching for it may find it.            *)
ImplementsKeyList == KeyList!Spec

(* What btree2.c says: a key that is not in the tree is "Node not found."  *)
(* to delete (404), which changes nothing, and to search.                  *)
IsKeyList == KeyList!Exact
=============================================================================
