----------------------------- MODULE BTreeNode -----------------------------
(***************************************************************************)
(* The node of the on-disk B-tree (struct Node of btree.h) as a value, and *)
(* what btree.c computes from nodes without touching the file: a fresh     *)
(* node, the three nodes btree_split_child produces, the position the      *)
(* scans of insert and search stop at, the leaf after an insertion.        *)
(*                                                                         *)
(* Slots at or beyond n hold whatever malloc or an earlier record left in  *)
(* them.  The model writes NoRecord there, and wherever the code reads     *)
(* such a slot the module that uses this one makes the outcome a choice.   *)
(***************************************************************************)
EXTENDS Integers

CONSTANTS
  T,          \* s->t: a node holds at most 2*T-1 records and 2*T children
  NumNodes,   \* get_num_nodes(s): node blocks reserved for the tree
  Keys,       \* record keys (int64_t)
  Values,     \* value_offset of a record (int64_t, opaque to the tree)
  NoRecord    \* content of a slot that holds no live record

ASSUME TAssumption        == T \in Nat /\ T >= 2
ASSUME NumNodesAssumption == NumNodes \in Nat \ {0}
ASSUME KeysAssumption     == Keys \subseteq Int

(* No value is mistaken for none, and no call in progress for none.        *)
ASSUME NoRecordAssumption ==
  /\ NoRecord \notin Values
  /\ NoRecord \notin [key : Keys, value_offset : Values \cup {NoRecord}]

MaxRecords == 2 * T - 1
Slots      == 0 .. MaxRecords - 1       \* indices of records[]
ChildSlots == 0 .. MaxRecords           \* indices of children_offsets[]
Positions  == 0 .. NumNodes - 1         \* node blocks after the header block
NoChild    == -1                        \* what init_node leaves in children_offsets[]

Record == [key : Keys, value_offset : Values]

Node == [isLeaf   : BOOLEAN,
         pos      : Positions,
         n        : 0 .. MaxRecords,
         records  : [Slots -> Record \cup {NoRecord}],
         children : [ChildSlots -> Positions \cup {NoChild}]]

(* init_node: an empty leaf at position 0 with no children. *)
InitNode == [isLeaf   |-> TRUE,
             pos      |-> 0,
             n        |-> 0,
             records  |-> [j \in Slots |-> NoRecord],
             children |-> [j \in ChildSlots |-> NoChild]]

(* read_node of a reserved block nothing was written to.  The reservation  *)
(* seeks past the end of the file, so the block reads as zeros: a node     *)
(* that is no leaf, has no records and whose every child is block 0.       *)
ZeroNode == [isLeaf   |-> FALSE,
             pos      |-> 0,
             n        |-> 0,
             records  |-> [j \in Slots |-> NoRecord],
             children |-> [j \in ChildSlots |-> 0]]

IsFull(x) == x.n = MaxRecords

-----------------------------------------------------------------------------
(* Where the two scans stop. *)

(* Mutants (here and below: a plausible slip in the definition that        *)
(* follows, which some property of a run must detect): the scan stops one  *)
(* record early on an equal key.                                           *)
InsertScanStopsBeforeEqual(x, key, i) ==
  /\ i \in -1 .. x.n - 1
  /\ \A j \in Slots : i < j /\ j < x.n => x.records[j].key >= key
  /\ i >= 0 => x.records[i].key < key

(* The loop of clrs_insert_non_full runs down from n-1 while the record's  *)
(* key is greater: it stops at i, the last record whose key is not, or -1. *)
InsertScanStops(x, key, i) ==
  /\ i \in -1 .. x.n - 1
  /\ \A j \in Slots : i < j /\ j < x.n => x.records[j].key > key
  /\ i >= 0 => x.records[i].key <= key

(* The loop of clrs_btree_search runs up from 0 while key is greater.      *)
SearchScanStops(x, key, i) ==
  /\ i \in 0 .. x.n
  /\ \A j \in Slots : j < i => x.records[j].key < key
  /\ i < x.n => key <= x.records[i].key

-----------------------------------------------------------------------------
(* What an insertion builds. *)

(* The leaf with data after slot i, the records above i moved up by one.   *)
WithRecordAfter(x, i, data) ==
  [x EXCEPT !.n = @ + 1,
            !.records = [j \in Slots |-> CASE j <= i    -> @[j]
                                           [] j = i + 1 -> data
                                           [] j > i + 1 -> @[j - 1]]]

(* Mutants: the lower half keeps one record fewer; the copy of the upper   *)
(* half starts at the median.                                              *)
LowerHalfShort(y) ==
  [y EXCEPT !.n = T - 2,
            !.records = [j \in Slots |-> IF j < T - 2 THEN @[j] ELSE NoRecord]]

UpperHalfFromMedian(y, i, pos) ==
  [isLeaf   |-> y.isLeaf,
   pos      |-> pos,
   n        |-> T - 1,
   records  |-> [j \in Slots |-> IF j < T - 1 THEN y.records[j + T - 1] ELSE NoRecord],
   children |-> InitNode.children]

(* btree_split_child: y keeps its lower T-1 records; its children are not  *)
(* touched.                                                                *)
LowerHalf(y) ==
  [y EXCEPT !.n = T - 1,
            !.records = [j \in Slots |-> IF j < T - 1 THEN @[j] ELSE NoRecord]]

(* The new right sibling z of y = child i of x.  The loop that copies the  *)
(* upper children stores every one of them in slot i, so that only the     *)
(* last, children_offsets[2*T-1], is kept and the rest stay at NoChild.    *)
UpperHalf(y, i, pos) ==
  [isLeaf   |-> y.isLeaf,
   pos      |-> pos,
   n        |-> T - 1,
   records  |-> [j \in Slots |-> IF j < T - 1 THEN y.records[j + T] ELSE NoRecord],
   children |-> IF y.isLeaf
                THEN InitNode.children
                ELSE [InitNode.children EXCEPT ![i] = y.children[MaxRecords]]]

(* Mutants: the loop that moves the children up starts one child too low,  *)
(* or is missing.                                                          *)
WithChildAfterLastLost(x, i, median, pos) ==
  [x EXCEPT !.n = @ + 1,
            !.records  = [j \in Slots |-> CASE j < i -> @[j]
                                            [] j = i -> median
                                            [] j > i -> @[j - 1]],
            !.children = [j \in ChildSlots |-> CASE j <= i    -> @[j]
                                                 [] j = i + 1 -> pos
                                                 [] j > i + 1 /\ j <= x.n -> @[j - 1]
                                                 [] j > i + 1 /\ j > x.n  -> @[j]]]

WithChildAfterUnmoved(x, i, median, pos) ==
  [x EXCEPT !.n = @ + 1,
            !.records  = [j \in Slots |-> CASE j < i -> @[j]
                                            [] j = i -> median
                                            [] j > i -> @[j - 1]],
            !.children[i + 1] = pos]

(* The parent x after the split: y's median record in slot i, the block of *)
(* z as child i+1, everything above moved up by one.                       *)
WithChildAfter(x, i, median, pos) ==
  [x EXCEPT !.n = @ + 1,
            !.records  = [j \in Slots |-> CASE j < i -> @[j]
                                            [] j = i -> median
                                            [] j > i -> @[j - 1]],
            !.children = [j \in ChildSlots |-> CASE j <= i    -> @[j]
                                                 [] j = i + 1 -> pos
                                                 [] j > i + 1 /\ j <= x.n + 1 -> @[j - 1]
                                                 [] j > x.n + 1 -> @[j]]]

(* Mutant: the new root names itself as its first child.                   *)
NewRootOfItself(child, pos) ==
  [isLeaf   |-> FALSE,
   pos      |-> pos,
   n        |-> 0,
   records  |-> InitNode.records,
   children |-> [InitNode.children EXCEPT ![0] = pos]]

(* The root that grows the tree by a level: no records, one child.         *)
NewRoot(child, pos) ==
  [isLeaf   |-> FALSE,
   pos      |-> pos,
   n        |-> 0,
   records  |-> InitNode.records,
   children |-> [InitNode.children EXCEPT ![0] = child]]
=============================================================================
