---------------------------- MODULE MCBlockFile -----------------------------
EXTENDS BlockFile, FiniteSets

(* get_num_nodes for a max_depth.                                          *)
NumNodes(max_depth) ==
  LET N[r \in 0 .. max_depth] == IF r = 0 THEN 1 ELSE N[r - 1] + (2 * T)^r
  IN  N[max_depth]

Counts == {NumNodes(max_depth) : max_depth \in 0 .. 2}

(* Bound: as many cells as a write can be told from its neighbours by.     *)
MaxWritten == 2
FewWritten == Cardinality({a \in Starts : file[a] \in Data}) <= MaxWritten
=============================================================================
