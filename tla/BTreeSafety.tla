---------------------------- MODULE BTreeSafety ----------------------------
(***************************************************************************)
(* What must hold of the B-tree of module BTree.                           *)
(***************************************************************************)
EXTENDS BTree

Created == pc # "absent"

(* The blocks handed out so far, and the live slots of a node.             *)
InUse == 0 .. h.last
Live(x) == {j \in Slots : j < x.n}

(* Slot j of inner node q names block p.                                   *)
IsChild(p, q, j) ==
  /\ ~nodes[q].isLeaf
  /\ j <= nodes[q].n
  /\ nodes[q].children[j] = p

-----------------------------------------------------------------------------
(* Invariants. *)

(* No call reads the header block as a node or stores past the end of a    *)
(* records array (clrs_insert_non_full, clrs_btree_search).                *)
Defined == pc # "undefined"

(* Each block handed out by a split or by the growth of the root is named  *)
(* by exactly one child slot, the root block by none: btree_split_child    *)
(* loses no subtree and links none twice.                                  *)
EveryBlockHasOneParent ==
  Created =>
    \A p \in InUse :
      IF p = h.root
      THEN ~ \E q \in InUse, j \in ChildSlots : IsChild(p, q, j)
      ELSE \E q \in InUse, j \in ChildSlots :
             /\ IsChild(p, q, j)
             /\ \A q2 \in InUse, j2 \in ChildSlots :
                  IsChild(p, q2, j2) => q2 = q /\ j2 = j

(* The keys of a node increase strictly.                                   *)
KeysIncrease ==
  \A p \in InUse : \A i, j \in Live(nodes[p]) :
    i < j => nodes[p].records[i].key < nodes[p].records[j].key

(* A child's keys lie between the records left and right of it in its      *)
(* parent.  Both ends are included: a key that already is in an inner node *)
(* is inserted again in a leaf below it.                                   *)
ChildrenBetweenRecords ==
  \A p, q \in InUse : \A i \in ChildSlots : IsChild(p, q, i) =>
    \A j \in Live(nodes[p]) :
      /\ i > 0 => nodes[q].records[i - 1].key <= nodes[p].records[j].key
      /\ i < nodes[q].n => nodes[p].records[j].key <= nodes[q].records[i].key

(* Together: the order clrs_btree_search and the next insertion rely on.   *)
SearchOrder == KeysIncrease /\ ChildrenBetweenRecords

(* Every block in use but the root holds at least T-1 records.             *)
HalfFull ==
  Created => \A p \in InUse \ {h.root} : nodes[p].n >= T - 1

(* The copy of a node a call works on is what the file holds at the copy's *)
(* position: no split or growth leaves the call with a stale node to write *)
(* back.                                                                   *)
CopyIsCurrent == pc \in {"insert", "search"} => cur = nodes[cur.pos]

(* An insertion works on a full node only when no block is left: wherever  *)
(* the split of a full node is possible it has happened before the descent *)
(* enters the node, so that the parent of a split always has room for the  *)
(* record that moves up.                                                   *)
FullOnlyWhenExhausted == pc = "insert" /\ IsFull(cur) => NoBlockLeft(h)

(* No node, no child offset and no copy a call works on names a block that *)
(* has not been handed out: what is read is never a block still reserved.  *)
PointsWithin(x, last) ==
  /\ x.pos <= last
  /\ \A j \in ChildSlots : x.children[j] <= last

PointersInUse ==
  /\ h.root <= h.last
  /\ \A p \in Positions : PointsWithin(nodes[p], h.last)
  /\ PointsWithin(cur, h.last)

(* The header on file is the handle's: a close, or the end of the program  *)
(* after the call, reopens the same tree.                                  *)
HeaderIsCurrent == hdr = h

-----------------------------------------------------------------------------
(* Action properties. *)

Stored == UNION {{nodes[p].records[j] : j \in Live(nodes[p])} : p \in InUse}

(* A step loses no record from the file and adds none but the one being    *)
(* inserted: the shifts and the split move records, they do not drop them. *)
RecordsKept ==
  [][Created => /\ Stored \subseteq Stored'
                /\ Stored' \subseteq Stored \cup {arg}]_vars

(* A block is written first when it is handed out: no step touches a block *)
(* beyond pos_last_node except the one that advances pos_last_node to it.  *)
BlocksHandedOutInOrder ==
  [][Created => /\ h.last <= h'.last
                /\ \A p \in Positions : p > h'.last => nodes'[p] = nodes[p]]_vars

-----------------------------------------------------------------------------
(* What the repository says of the tree and the code does not do. *)

(* A key is stored once: a second insertion of it is a duplicate (the      *)
(* comment "duplicate key" at the refusal in clrs_insert_non_full).        *)
KeysUnique ==
  \A p, q \in InUse : \A i \in Live(nodes[p]), j \in Live(nodes[q]) :
    nodes[p].records[i].key = nodes[q].records[j].key => p = q /\ i = j

-----------------------------------------------------------------------------
(* Liveness. *)

(* Every insertion and every search that begins comes to an end.           *)
CallsEnd == (pc \in {"insert", "search"}) ~> (pc = "idle")
=============================================================================
