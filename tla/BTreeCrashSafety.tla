-------------------------- MODULE BTreeCrashSafety --------------------------
(***************************************************************************)
(* What a killed program leaves behind, and what it cannot take with it.   *)
(***************************************************************************)
EXTENDS BTreeCrash, FiniteSets

(* Every block in use has been written, in its own place.                  *)
Whole == PointersInUse /\ \A p \in InUse : nodes[p].pos = p

(* A tree whose searches find what its blocks hold.                        *)
Sound == Whole /\ SearchOrder /\ EveryBlockHasOneParent

(* The keys found before the step but not after it.                        *)
Lost == {k \in Keys : Map[k] # NoRecord /\ Map'[k] # Map[k]}

(* The keys in the subtree of block p.                                     *)
KeysBelow(p) ==
  LET Collect[fuel \in 0 .. NumNodes, q \in Positions] ==
        {nodes[q].records[j].key : j \in Live(nodes[q])} \cup
        IF fuel = 0 \/ nodes[q].isLeaf THEN {}
        ELSE UNION {Collect[fuel - 1, nodes[q].children[j]] :
                      j \in {i \in ChildSlots : i <= nodes[q].n /\ nodes[q].children[i] # NoChild}}
  IN  Collect[NumNodes, p]

(* The header names a root that has been written and holds a record.        *)
RootHasRecords == Created /\ nodes[hdr.root].n > 0

-----------------------------------------------------------------------------
(* However often the program is killed, and however it goes on, at most    *)
(* one block is named that the header does not count: the block of the     *)
(* split, or of the growth of the root, that was cut short                 *)
(* (btree_split_child, btree_insert).                                      *)
OneBlockUncounted ==
  \A p \in Positions : PointsWithin(nodes[p], hdr.last + 1)

(* The first kill, if it comes between two calls, loses at most one key,   *)
(* and leaves a sound tree: all but the last write of the finished calls   *)
(* has been handed to the system (write_node, update_btree_header).  Only  *)
(* when the last call was refused as a duplicate right behind a split,     *)
(* having gone on in the lower half, which is not read back, is it the     *)
(* header that is lost, and the new block is named but not counted.        *)
KillBetweenCalls ==
  [][Crash /\ crashes = 0 /\ pc = "idle" /\ Sound /\ RootHasRecords' =>
       Cardinality(Lost) <= 1 /\ (ret # "dup" => Sound')]_crashVars

(* The first kill during an insertion takes only what lies below the block *)
(* handed out last, unless the header already names a root that has not    *)
(* been written: btree_split_child writes the parent, which still names    *)
(* the old child, before the old child gives up its upper half.  (A tree   *)
(* with a block already astray can lose more to a second kill.)            *)
KillInInsertion ==
  [][Crash /\ crashes = 0 /\ pc = "insert" /\ Sound /\ RootHasRecords' =>
       Lost \subseteq KeysBelow(h.last)]_crashVars

(* A program that reopens a tree left sound loses nothing from it,         *)
(* whatever was killed before: no block already in the tree is handed out  *)
(* again.  The split of an inner node, which drops subtrees, is left out.  *)
SoundTreeKeepsRecords ==
  [][Created /\ ~Crash /\ Sound /\ nodes'[h'.last].isLeaf => Lost = {}]_crashVars
=============================================================================
