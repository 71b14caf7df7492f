------------------------------- MODULE MCDeep -------------------------------
(***************************************************************************)
(* Trees deeper than one level, which need more insertions than all orders *)
(* of them can be enumerated for: the keys are inserted in the order of a  *)
(* workload, with searches in between.  Keys are distinct and positive,    *)
(* and the word before a records array is taken to equal none of them.     *)
(***************************************************************************)
EXTENDS BTreeSafety, Sequences, FiniteSets

CONSTANTS Loads, Probes

Ascending(n)  == [i \in 1 .. n |-> i]
Descending(n) == [i \in 1 .. n |-> n + 1 - i]

(* An order in which, with 85 blocks, the root is full when exactly one    *)
(* block is left, so that the new root takes the last one.                 *)
LastBlockToRoot ==
  <<108, 114, 118, 46, 77, 68, 121, 120, 85, 113, 122, 91, 109, 101, 61,
     51, 119, 76, 62, 117, 81, 83, 116, 82, 47, 79, 53, 48, 115, 8, 12, 50,
     103, 84, 59, 15, 110, 49, 80, 92, 89, 112, 45, 98, 42, 17, 56, 67, 69,
     38, 73, 111, 19, 23, 75, 78, 13, 55, 63, 97, 32, 96, 30, 24, 54, 66,
     64, 18, 70, 87, 31, 28, 65, 27, 21, 52, 26, 6, 72, 71, 57, 20, 58, 14,
     95, 107, 86, 36, 7, 74, 10, 29, 60, 5, 22, 11, 104, 4, 106, 100, 44,
     25, 94, 41, 33, 40, 16, 9, 88, 43, 105, 102, 2, 99, 93, 35, 1, 3, 37,
     34, 90, 39>>

(* The workloads' keys, and the workloads.                                 *)
LoadKeys == 1 .. 125

ShortLoads == {Ascending(12), Descending(30)}
LongLoads  == {Ascending(12), Descending(125), LastBlockToRoot}

(* Action constraints.  An insertion that begins takes the next key of a   *)
(* workload whose first keys are those in the tree.                        *)
StoredKeys == {r.key : r \in Stored}

InLoadOrder ==
  (pc = "idle" /\ pc' = "insert") =>
     LET K == StoredKeys
         n == Cardinality(K)
     IN  \E load \in Loads :
           /\ n < Len(load)
           /\ load[n + 1] = arg'.key
           /\ K = {load[i] : i \in 1 .. n}

(* The keys of a workload are distinct, so that none is a duplicate.       *)
NoDuplicates == pc = "insert" => ret' # "dup"

ProbesOnly == (pc = "idle" /\ pc' = "search") => arg'.key \in Probes

(* The handle stays open.                                                  *)
StaysOpen == pc' # "closed"
=============================================================================
