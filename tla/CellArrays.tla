----------------------------- MODULE CellArrays -----------------------------
(***************************************************************************)
(* What module BTree takes for granted of the file: every tree has its own *)
(* array of cells, the header in cell -1 and the node at position p in     *)
(* cell p, and a write changes one cell of one array.  A block of data is  *)
(* an array of the one cell -1.  A file too long for an int to count is    *)
(* given up: it is taken to have no arrays.                                *)
(***************************************************************************)
EXTENDS Integers, Sequences

CONSTANTS
  NodeCounts,  \* the number of nodes a tree may have
  Data,        \* what can be written to a cell
  New,         \* the header and the root of a new tree
  Zero         \* a cell that was reserved and not written

VARIABLE arrays

NewTree(n) == [p \in -1 .. n - 1 |-> IF p <= 0 THEN New ELSE Zero]
NewBlock(d) == [p \in {-1} |-> d]

Init == arrays = <<>>

AddTree(n)  == arrays' = Append(arrays, NewTree(n))
AddBlock(d) == arrays' = Append(arrays, NewBlock(d))
Set(k, p, d) == arrays' = [arrays EXCEPT ![k][p] = d]
GiveUp       == arrays' = <<>>

Next == \/ \E n \in NodeCounts : AddTree(n)
        \/ \E d \in Data : AddBlock(d)
        \/ \E k \in DOMAIN arrays : \E p \in DOMAIN arrays[k], d \in Data : Set(k, p, d)
        \/ GiveUp

Spec == Init /\ [][Next]_arrays
=============================================================================
