------------------------------ MODULE MCCrash ------------------------------
(***************************************************************************)
(* Definitions for model checking BTreeCrash.  Insertions follow one of a  *)
(* few workloads, whatever kills came in between; searches and duplicates, *)
(* which write nothing, are left to the runs of BTree.                     *)
(***************************************************************************)
EXTENDS BTreeCrashSafety

CONSTANTS Loads, Probes

(* The orders i, 2i, 3i, ... modulo 13: ascending, descending, and four    *)
(* that go to and fro.                                                     *)
Order13(f) == [i \in 1 .. 12 |-> (f * i) % 13]
MCLoads == {Order13(f) : f \in {1, 2, 5, 7, 10, 12}}
MCKeys == 1 .. 12

InLoadOrder ==
  asked' # asked => LET n == Cardinality(asked)
                    IN  \E load \in Loads : /\ n < Len(load)
                                            /\ asked' = {load[i] : i \in 1 .. n + 1}
NoRepeat == (pc = "idle" /\ pc' = "insert") => asked' # asked
ProbesOnly == (pc = "idle" /\ pc' = "search") => arg'.key \in Probes

(* A refusal for what lies before the records array (InsertDuplicate(-1)) *)
(* is possible in every insertion; here in the fourth, which grows the     *)
(* root, and the sixth, which splits a leaf.                               *)
FewRefused == ret' = "dup" /\ pc' # pc => Cardinality(asked) \in {4, 6}

(* The program is killed a second time among the first six insertions.     *)
SecondKillEarly == crashes' > crashes /\ crashes > 0 => Cardinality(asked) <= 6
=============================================================================
