----------------------------- MODULE MCMemTree -----------------------------
(***************************************************************************)
(* What main does before the console: the arrays of main itself, nothing,  *)
(* or other arrays, from which trees of three levels grow and shrink.      *)
(***************************************************************************)
EXTENDS MemTreeList

CallsOf(name, keys) == [i \in DOMAIN keys |-> [name |-> name, number |-> keys[i]]]

Test  == <<1, -11, 12, 13, 15, 16, 17, 18, 19, 20, 25, 28, 29, 31,
           35, 36, 39, 41, 42, 45, 55, 58, 59, 61, 67, 71, 73, 74,
           76, 80, 81, 82, 83, 88, 89, 99, 83, 91, 93, 94, 95, 98>>
Test2 == <<-23, -234, -24, -3, -38, -82, -49, -72, -84, -27, -22,
           -35, -9, -29, -374, -84, -24 , -92, -83, -372, -756>>

Main == CallsOf("add", Test) \o CallsOf("add", Test2) \o CallsOf("del", <<15, 19>>)

(* The keys 1 to 28 in an order fixed by a factor: 1 is ascending, 28      *)
(* descending.                                                             *)
Order29(factor) == [i \in 1 .. 28 |-> (factor * i) % 29]

Other(p, q, m) == CallsOf("add", Order29(p)) \o CallsOf("del", SubSeq(Order29(q), 1, m))

(* Room for the 63 keys of main at two per node.                           *)
MCAddresses == 1 .. 34

MCKeys    == Range(Test) \cup Range(Test2) \cup 1 .. 28
MCScripts == {<<>>, Main}
             \cup {CallsOf("add", SubSeq(Order29(1), 1, m)) : m \in {2, 5, 17}}
             \cup {Other(p, q, m) : p \in {1, 12, 28}, q \in {1, 11, 19, 28}, m \in {8, 28}}

(* Two deletions from a leaf with the keys 1, 1, 2.                        *)
AbsentScripts == {CallsOf("add", <<1, 1, 2>>) \o CallsOf("del", <<j, k>>) : j, k \in 1 .. 2}
=============================================================================
