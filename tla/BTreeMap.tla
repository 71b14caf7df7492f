------------------------------ MODULE BTreeMap ------------------------------
(***************************************************************************)
(* The B-tree as the map it implements: the value under a key is the one   *)
(* clrs_btree_search would return if it were called now.                   *)
(***************************************************************************)
EXTENDS BTreeSafety

(* The slot of x the scan for k stops at.                                  *)
ScanSlot(x, k) == CHOOSE s \in ChildSlots : SearchScanStops(x, k, s)

(* What a search for k finds in the tree rooted at block p, descending at  *)
(* most fuel levels.                                                       *)
ValueFrom(k) ==
  LET Find[fuel \in 0 .. NumNodes] == [p \in Positions |->
        LET x == nodes[p]
            i == ScanSlot(x, k)
        IN  IF i < x.n /\ x.records[i].key = k
            THEN x.records[i].value_offset
            ELSE IF x.isLeaf \/ fuel = 0 \/ x.children[i] = NoChild
            THEN NoRecord
            ELSE Find[fuel - 1][x.children[i]]]
  IN  Find[NumNodes][h.root]

Map == [k \in Keys |-> IF Created THEN ValueFrom(k) ELSE NoRecord]

KV == INSTANCE KVMap WITH map <- Map, call <- arg

(* Every step of the B-tree is a step of the map or leaves it alone: a     *)
(* split, the growth of the root and a shadowed duplicate change no        *)
(* search's result, and a search returns the first value stored.           *)
ImplementsMap == KV!Spec
=============================================================================
