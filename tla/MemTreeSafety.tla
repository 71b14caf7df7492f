--------------------------- MODULE MemTreeSafety ---------------------------
(***************************************************************************)
(* What holds of the tree of module MemTree.                               *)
(***************************************************************************)
EXTENDS MemTree, FiniteSets

Node == [leaf     : BOOLEAN,
         n        : 0 .. MaxKeys,
         keys     : [Slots -> Keys \cup {0}],
         children : [ChildSlots -> Addresses \cup {NULL}]]

Functions == {"main", "insert", "insert_nonfull", "delete", "BTreeDeleteNoNone",
              "BTreeGetLeftMax", "BTreeGetRightMin", "search"}

(* No array is written behind its end, and no step leaves a variable       *)
(* without a value of its type.                                            *)
TypeOK ==
  /\ heap \in [Addresses -> Node]
  /\ used \subseteq Addresses
  /\ root \in Addresses
  /\ lock \in BOOLEAN
  /\ typed \in 0 .. MaxCalls
  /\ call.number \in Keys \cup {0}
  /\ pc \in Functions \cup {"exited", "undefined"}
  /\ cur \in Addresses \cup {NULL}
  /\ key \in Keys \cup {0}
  /\ walk \in Addresses \cup {NULL}
  /\ found \in BOOLEAN

-----------------------------------------------------------------------------
(* Invariants. *)

(* Child slot i of node b is live and holds a.                             *)
IsChild(a, b, i) == ~heap[b].leaf /\ i <= heap[b].n /\ heap[b].children[i] = a

(* A child slot that is live holds a node that is allocated, and every     *)
(* allocated node but the root is in one of them, and in no other: split,  *)
(* merge and borrow leak no node, link none twice and leave no link to a   *)
(* node that merge_children has freed.                                     *)
EveryNodeHasOneParent ==
  /\ root \in used
  /\ \A b \in used, i \in ChildSlots :
       ~heap[b].leaf /\ i <= heap[b].n => heap[b].children[i] \in used
  /\ \A a \in used :
       IF a = root
       THEN ~ \E b \in used, i \in ChildSlots : IsChild(a, b, i)
       ELSE \E b \in used, i \in ChildSlots :
              /\ IsChild(a, b, i)
              /\ \A b2 \in used, i2 \in ChildSlots :
                   IsChild(a, b2, i2) => b2 = b /\ i2 = i

(* The nodes at each level below the root.                                 *)
ChildrenOf(b) == {heap[b].children[i] : i \in {j \in ChildSlots : ~heap[b].leaf /\ j <= heap[b].n}}

Level[d \in Nat] ==
  IF d = 0 THEN {root} ELSE UNION {ChildrenOf(b) : b \in Level[d - 1]}

(* All leaves are at the same level (definition 5): a subtree never moves  *)
(* to another depth.                                                       *)
LeavesAtOneLevel ==
  \A d \in 0 .. Cardinality(used) :
    (\E a \in Level[d] : heap[a].leaf) => \A a \in Level[d] : heap[a].leaf

(* Every node but the root has Order - 1 keys (definition 2): what a merge *)
(* of two minimal nodes relies on to fill exactly one.                     *)
HalfFull == \A a \in used : a # root => heap[a].n >= Order - 1

(* The key that delete was given is at Slot of an inner node while         *)
(* BTreeGetLeftMax or BTreeGetRightMin looks for the one to replace it     *)
(* with, below child j, which can give one up.                             *)
Slot == ScanUp(heap[cur], key)

Seeking(j) ==
  /\ ~heap[cur].leaf /\ Slot < heap[cur].n /\ HasSpare(heap[heap[cur].children[j]])
  /\ walk \in used /\ walk # root

CanGive ==
  /\ cur \in used
  /\ cur = root => key \in Keys /\ (heap[cur].leaf => heap[cur].n # 1)
  /\ cur # root => heap[cur].n >= Order

(* What the one pass down relies on: insert_nonfull is given a node with   *)
(* room for a key, BTreeDeleteNoNone one that can give a key up, or the    *)
(* root, which is no leaf with one key; and the walk to the replacement of *)
(* a key never leaves the tree.                                            *)
CallsPrepared ==
  /\ pc = "search" => cur \in used
  /\ pc = "insert_nonfull" => cur \in used /\ ~IsFull(heap[cur])
  /\ pc = "delete" => key \in Keys
  /\ pc \in {"BTreeDeleteNoNone", "BTreeGetLeftMax", "BTreeGetRightMin"} => CanGive
  /\ pc = "BTreeGetLeftMax" => Seeking(Slot)
  /\ pc = "BTreeGetRightMin" => Seeking(Slot + 1)

-----------------------------------------------------------------------------
(* Action properties. *)

(* Only the root of a tree may be too small for a deletion: NULL is        *)
(* dereferenced at a leaf with one key, or at a root without keys.         *)
UndefinedAtSmallRootOnly ==
  [][pc' = "undefined" => heap[root].n = IF heap[root].leaf THEN 1 ELSE 0]_vars
=============================================================================
