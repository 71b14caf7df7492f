----------------------------- MODULE BTreeCrash -----------------------------
(***************************************************************************)
(* The B-tree of module BTree in a program that may be killed.             *)
(*                                                                         *)
(* Every write_node and update_btree_header begins with fseek, and so does *)
(* every read_node.  fseek hands what the FILE has buffered to the         *)
(* operating system, which keeps it when the program dies: of the writes   *)
(* of a call, each reaches the file before the next is made, and the last  *)
(* one stays buffered until the next fseek or fclose.  A write of one node *)
(* or header is taken to reach the file as a whole.                        *)
(***************************************************************************)
EXTENDS BTreeMap, Sequences

CONSTANT MaxCrashes   \* bound: times the program is killed

VARIABLES
  images,   \* the files a kill may leave, in the order in which they arise
            \* since the last fseek of the step before: the last one is what
            \* the FILE reads, the one before lacks what is buffered
  crashes,  \* times the program has been killed
  asked     \* history: the keys of all insertions begun

crashVars == <<vars, images, crashes, asked>>

HeaderCell == -1

(* A file: whether it has a header, and the blocks.                        *)
Image(m, b, s) == [made |-> m, nodes |-> b, hdr |-> s]
Now == Image(Created, nodes, hdr)

Write(at, data) == [at |-> at, data |-> data]

(* What the cell holds, old before, when the first j writes have been made.*)
Latest(cell, old, writes, j) ==
  LET made == {i \in 1 .. j : writes[i].at = cell}
  IN  IF made = {} THEN old
      ELSE writes[CHOOSE i \in made : \A k \in made : k <= i].data

(* The files from before the first of these writes to behind the last.     *)
FilesOf(writes) ==
  [j \in 1 .. Len(writes) + 1 |->
     Image(Created,
           [p \in Positions |-> Latest(p, nodes[p], writes, j - 1)],
           Latest(HeaderCell, hdr, writes, j - 1))]

(* A step that makes these writes, after an fseek; and one that then has   *)
(* an fseek again, so that the last two files are the same: nothing is     *)
(* buffered.                                                               *)
Makes(writes) == images' = FilesOf(writes)

MakesAndSeeks(writes) ==
  images' = Append(FilesOf(writes), FilesOf(writes)[Len(writes) + 1])

(* Mutant: what is buffered outlives the next fseek. *)
SeeksUnflushed == images' = images

Seeks == Makes(<<>>)

(* A step without input or output: what was buffered still is.             *)
Computes == images' = SubSeq(images, IF Len(images) = 1 THEN 1 ELSE Len(images) - 1, Len(images))

(* Mutants: the header is written before the nodes; the lower half before  *)
(* the parent.                                                             *)
SplitWritesHeaderFirst(s, x, i, y) ==
  LET z == UpperHalf(y, i, s.last + 1)
  IN  <<Write(HeaderCell, [s EXCEPT !.last = z.pos]),
        Write(x.pos, WithChildAfter(x, i, y.records[T - 1], z.pos)),
        Write(y.pos, LowerHalf(y)),
        Write(z.pos, z)>>

SplitWritesLowerFirst(s, x, i, y) ==
  LET z == UpperHalf(y, i, s.last + 1)
  IN  <<Write(y.pos, LowerHalf(y)),
        Write(x.pos, WithChildAfter(x, i, y.records[T - 1], z.pos)),
        Write(z.pos, z),
        Write(HeaderCell, [s EXCEPT !.last = z.pos])>>

(* btree_split_child: parent, lower half, upper half, header.              *)
SplitWrites(s, x, i, y) ==
  LET z == UpperHalf(y, i, s.last + 1)
  IN  <<Write(x.pos, WithChildAfter(x, i, y.records[T - 1], z.pos)),
        Write(y.pos, LowerHalf(y)),
        Write(z.pos, z),
        Write(HeaderCell, [s EXCEPT !.last = z.pos])>>

-----------------------------------------------------------------------------
CrashInit ==
  /\ Init
  /\ images = <<Now>>
  /\ crashes = 0
  /\ asked = {}

(* btree_open with do_create: header, reservation, root.  Before the       *)
(* reservation the file ends behind the header: a node read there leaves   *)
(* the copy as init_node made it.                                          *)
Create ==
  /\ OpenCreate
  /\ LET unsized == [p \in Positions |-> InitNode]
         zeros   == [p \in Positions |-> ZeroNode]
     IN  images' = <<Now, Image(TRUE, unsized, hdr'), Image(TRUE, zeros, hdr'),
                     Image(TRUE, nodes', hdr')>>
  /\ UNCHANGED <<crashes, asked>>

Reads ==
  /\ \/ OpenExisting \/ Close \/ InsertRefused
     \/ \E k \in Keys : SearchBegin(k)
     \/ \E i \in ChildSlots :
          InsertDescend(i) \/ InsertNoSplit(i) \/ SearchDescend(i)
  /\ Seeks
  /\ UNCHANGED <<crashes, asked>>

ReadsRoot == \E k \in Keys, v \in Values :
  /\ InsertBegin(k, v)
  /\ Seeks
  /\ asked' = asked \cup {k}
  /\ UNCHANGED crashes

Grows == \E k \in Keys, v \in Values :
  /\ LET old == nodes[h.root]
         new == NewRoot(old.pos, h.last + 1)
         up  == [root |-> new.pos, last |-> new.pos]
     IN  \/ InsertGrow(k, v) /\ Makes(<<Write(HeaderCell, up)>> \o SplitWrites(up, new, 0, old))
         \/ InsertGrowLast(k, v) /\ Makes(<<Write(HeaderCell, up)>>)
  /\ asked' = asked \cup {k}
  /\ UNCHANGED crashes

(* The upper half is read back from file if the key belongs there.         *)
Splits == \E i \in ChildSlots :
  /\ InsertSplit(i)
  /\ LET writes == SplitWrites(h, cur, i, Child(i))
     IN  IF arg.key > Child(i).records[T - 1].key THEN MakesAndSeeks(writes)
         ELSE Makes(writes)
  /\ UNCHANGED <<crashes, asked>>

Stores == \E i \in -1 .. MaxRecords - 1 :
  /\ InsertStore(i)
  /\ Makes(<<Write(cur.pos, WithRecordAfter(cur, i, arg))>>)
  /\ UNCHANGED <<crashes, asked>>

Ends ==
  /\ \/ \E i \in -1 .. MaxRecords - 1 : InsertDuplicate(i) \/ InsertOverflows(i)
     \/ \E i \in ChildSlots : \/ SearchFound(i) \/ SearchMissing(i)
                              \/ SearchReadsHeader(i) \/ InsertReadsHeader(i) \/ InsertStrays(i)
  /\ Computes
  /\ UNCHANGED <<crashes, asked>>

(* The program is killed; what it had in memory is gone.                   *)
Crash ==
  /\ pc \in {"idle", "insert", "search"}
  /\ crashes < MaxCrashes
  /\ \E j \in DOMAIN images :
       /\ nodes' = images[j].nodes
       /\ hdr' = images[j].hdr
       /\ pc' = IF images[j].made THEN "closed" ELSE "absent"
       /\ images' = <<images[j]>>
  /\ h' = hdr'
  /\ cur' = InitNode
  /\ arg' = NoRecord
  /\ ret' = "none"
  /\ crashes' = crashes + 1
  /\ UNCHANGED asked

CrashNext == Create \/ Reads \/ ReadsRoot \/ Grows \/ Splits \/ Stores \/ Ends \/ Crash

CrashSpec == CrashInit /\ [][CrashNext]_crashVars
=============================================================================
