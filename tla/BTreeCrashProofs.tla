-------------------------- MODULE BTreeCrashProofs --------------------------
(***************************************************************************)
(* The B-tree in a program that is killed again and again, for every node  *)
(* size, depth and number of kills: at most one block is ever named that   *)
(* the header does not count.                                              *)
(***************************************************************************)
EXTENDS BTreeCrashSafety, BTreeProofs, SequenceTheorems

(* The files a program can be left with. *)
Files ==
  {f \in [made : BOOLEAN, nodes : [Positions -> Node], hdr : Header] :
     /\ f.hdr.root <= f.hdr.last
     /\ ~f.made => f.hdr.last = 0
     /\ \A p \in Positions : /\ WellFormed(f.nodes[p])
                             /\ PointsWithin(f.nodes[p], f.hdr.last + 1)}

CrashInv ==
  /\ Now \in Files
  /\ images \in Seq(Files) /\ Len(images) >= 1
  /\ h = hdr
  /\ cur \in Node /\ WellFormed(cur) /\ PointsWithin(cur, h.last + 1)
  /\ pc = "insert" => arg \in Record
  /\ FullOnlyWhenExhausted

-----------------------------------------------------------------------------
(* Facts. *)

LEMMA CrashFacts ==
  ASSUME CrashInv
  PROVE  /\ nodes \in [Positions -> Node] /\ h \in Header /\ hdr = h
         /\ h.root \in Positions /\ h.last \in Positions /\ h.last \in Int /\ 0 <= h.last
         /\ h.root <= h.last /\ (~Created => h.last = 0)
         /\ \A p \in Positions : WellFormed(nodes[p]) /\ PointsWithin(nodes[p], h.last + 1)
<1>1. /\ Now.made = Created /\ Now.nodes = nodes /\ Now.hdr = hdr
  BY DEF Now, Image
<1>2. /\ nodes \in [Positions -> Node] /\ h \in Header /\ h.root <= h.last
      /\ (~Created => h.last = 0)
      /\ \A p \in Positions : WellFormed(nodes[p]) /\ PointsWithin(nodes[p], h.last + 1)
  BY <1>1 DEF CrashInv, Files
<1>3. h.root \in Positions /\ h.last \in Positions
  BY <1>2, SMT DEF Header
<1> QED BY <1>2, <1>3, SMT DEF CrashInv, Positions

(* A file put together from parts that are in order.                       *)
LEMMA FileIs ==
  ASSUME NEW m \in BOOLEAN, NEW b \in [Positions -> Node], NEW s \in Header,
         s.root <= s.last, ~m => s.last = 0,
         \A p \in Positions : WellFormed(b[p]) /\ PointsWithin(b[p], s.last + 1)
  PROVE  Image(m, b, s) \in Files
<1>1. Image(m, b, s) \in [made : BOOLEAN, nodes : [Positions -> Node], hdr : Header]
  BY DEF Image
<1>2. /\ Image(m, b, s).made = m /\ Image(m, b, s).nodes = b /\ Image(m, b, s).hdr = s
  BY DEF Image
<1> QED BY <1>1, <1>2 DEF Files

(* A list of N files.                                                      *)
LEMMA FileList ==
  ASSUME NEW N \in Nat, NEW s, s = [j \in 1 .. N |-> s[j]], \A j \in 1 .. N : s[j] \in Files
  PROVE  s \in Seq(Files) /\ Len(s) = N /\ \A j \in 1 .. N : s[j] \in Files
<1>1. s \in [1 .. N -> Files]
  OBVIOUS
<1> QED BY <1>1, SMT

(* The three nodes of a split name nothing the split nodes did not, but    *)
(* for the new block.                                                      *)
LEMMA SplitNodes ==
  ASSUME NEW x, WellFormed(x), ~IsFull(x), NEW i \in ChildSlots, i <= x.n,
         NEW y, WellFormed(y), IsFull(y), NEW pos \in Positions, NEW b \in Int, pos <= b,
         PointsWithin(x, b), PointsWithin(y, b)
  PROVE  LET par == WithChildAfter(x, i, y.records[T - 1], pos)
             low == LowerHalf(y)
             upp == UpperHalf(y, i, pos)
         IN  /\ WellFormed(par) /\ PointsWithin(par, b) /\ par.pos = x.pos
             /\ WellFormed(low) /\ PointsWithin(low, b) /\ low.pos = y.pos /\ ~IsFull(low)
             /\ WellFormed(upp) /\ PointsWithin(upp, b) /\ upp.pos = pos /\ ~IsFull(upp)
             /\ par \in Node /\ low \in Node /\ upp \in Node
<1> DEFINE par == WithChildAfter(x, i, y.records[T - 1], pos)
           low == LowerHalf(y)
           upp == UpperHalf(y, i, pos)
<1>1. y.records[T - 1] \in Record
  BY Sizes, SMT DEF WellFormed, IsFull
<1>2. /\ WellFormed(par) /\ par.n = x.n + 1 /\ par.pos = x.pos
      /\ \A j \in ChildSlots :
           /\ j <= i    => par.children[j] = x.children[j]
           /\ j = i + 1 => par.children[j] = pos
           /\ j > i + 1 /\ j <= x.n + 1 => par.children[j] = x.children[j - 1]
           /\ j > i + 1 /\ j > x.n + 1 => par.children[j] = x.children[j]
  BY <1>1, WithChildAfterIs
<1>3. /\ WellFormed(low) /\ low.pos = y.pos /\ low.children = y.children /\ ~IsFull(low)
  BY LowerHalfIs
<1>4. /\ WellFormed(upp) /\ upp.pos = pos /\ ~IsFull(upp)
      /\ \A j \in ChildSlots : upp.children[j] \in {NoChild, y.children[MaxRecords]}
  BY UpperHalfIs
<1> HIDE DEF par, low, upp
<1>5. PointsWithin(low, b)
  BY <1>3 DEF PointsWithin
<1>6. PointsWithin(upp, b)
  <2>1. y.children[MaxRecords] <= b
    BY Sizes DEF PointsWithin
  <2>2. 0 <= pos
    BY SMT DEF Positions
  <2>3. NoChild <= b
    BY <2>2, NumNodesAssumption, SMT DEF NoChild, Positions
  <2> QED BY <1>4, <2>1, <2>3 DEF PointsWithin
<1>7. PointsWithin(par, b)
  <2>1. x.n \in 0 .. MaxRecords /\ i \in Int
    BY SMT DEF WellFormed, Node, ChildSlots
  <2> SUFFICES ASSUME NEW j \in ChildSlots PROVE par.children[j] <= b
    BY <1>2 DEF PointsWithin
  <2>2. CASE j <= i
    BY <1>2, <2>2 DEF PointsWithin
  <2>3. CASE j = i + 1
    BY <1>2, <2>3
  <2>4. CASE j > i + 1 /\ j <= x.n + 1
    <3>1. j - 1 \in ChildSlots
      BY <2>1, <2>4, Sizes, SMT DEF ChildSlots
    <3> QED BY <1>2, <2>4, <3>1 DEF PointsWithin
  <2>5. CASE j > i + 1 /\ j > x.n + 1
    BY <1>2, <2>5 DEF PointsWithin
  <2> QED BY <2>1, <2>2, <2>3, <2>4, <2>5, SMT DEF ChildSlots
<1> QED BY <1>2, <1>3, <1>4, <1>5, <1>6, <1>7 DEF par, low, upp, WellFormed

(* A cell holds what was there before, or one of the writes.               *)
LEMMA LatestIs ==
  ASSUME NEW writes, NEW j \in 0 .. 5, NEW cell, NEW old
  PROVE  \/ /\ Latest(cell, old, writes, j) = old
            /\ \A i \in 1 .. j : writes[i].at # cell
         \/ \E i \in 1 .. j : writes[i].at = cell /\ Latest(cell, old, writes, j) = writes[i].data
<1> DEFINE made == {i \in 1 .. j : writes[i].at = cell}
           last == CHOOSE i \in made : \A k \in made : k <= i
<1>1. Latest(cell, old, writes, j) = IF made = {} THEN old ELSE writes[last].data
  BY DEF Latest
<1>2. CASE made = {}
  BY <1>1, <1>2
<1>3. CASE made # {}
  <2>1. \A i \in made : i \in Int /\ 1 <= i /\ i <= 5 /\ i \in 1 .. j /\ writes[i].at = cell
    BY SMT
  <2> HIDE DEF made
  <2>2. \E i \in made : \A k \in made : k <= i
    <3>1. 1 \in made \/ 2 \in made \/ 3 \in made \/ 4 \in made \/ 5 \in made
      BY <1>3, <2>1, SMT
    <3> QED BY <2>1, <3>1, SMT
  <2>3. last \in made
    BY <2>2
  <2> QED BY <1>1, <1>3, <2>1, <2>3
<1> QED BY <1>2, <1>3

(* A step whose writes name no block above L + 1 and write no header that  *)
(* counts fewer than L leaves only such files, if the first of them is the *)
(* header, or L is what the header counted before.                         *)
LEMMA FilesKeep ==
  ASSUME CrashInv, Created, NEW writes, Len(writes) \in 0 .. 5,
         NEW L \in Int, h.last <= L,
         \A i \in 1 .. Len(writes) :
           \/ /\ writes[i].at \in Positions
              /\ WellFormed(writes[i].data) /\ PointsWithin(writes[i].data, L + 1)
           \/ /\ writes[i].at = HeaderCell /\ writes[i].data \in Header
              /\ writes[i].data.root <= writes[i].data.last /\ L <= writes[i].data.last,
         L = h.last \/ (Len(writes) >= 1 /\ writes[1].at = HeaderCell)
  PROVE  LET made == FilesOf(writes)
         IN  /\ made \in Seq(Files) /\ Len(made) = Len(writes) + 1
             /\ made[Len(writes) + 1] \in Files
<1> DEFINE N == Len(writes) + 1
           made == FilesOf(writes)
           blocks(j) == [p \in Positions |-> Latest(p, nodes[p], writes, j - 1)]
           head(j) == Latest(HeaderCell, hdr, writes, j - 1)
<1>1. made = [j \in 1 .. N |-> Image(Created, blocks(j), head(j))]
  BY DEF FilesOf
<1>2. HeaderCell \notin Positions
  BY SMT DEF HeaderCell, Positions
<1>3. ASSUME NEW j \in 1 .. N PROVE Image(Created, blocks(j), head(j)) \in Files
  <2>1. j - 1 \in 0 .. 5 /\ \A i \in 1 .. j - 1 : i \in 1 .. Len(writes)
    BY <1>3, SMT
  <2> DEFINE k == j - 1
  <2>2. \A cell, old :
          \/ /\ Latest(cell, old, writes, k) = old
             /\ \A i \in 1 .. k : writes[i].at # cell
          \/ \E i \in 1 .. k : writes[i].at = cell /\ Latest(cell, old, writes, k) = writes[i].data
    <3>1. k \in 0 .. 5
      BY <2>1
    <3> HIDE DEF k
    <3> QED BY <3>1, LatestIs, Zenon
  <2>3. /\ head(j) \in Header /\ head(j).root <= head(j).last /\ h.last <= head(j).last
        /\ head(j).last \in Int /\ (j > 1 => L <= head(j).last)
    <3>1. CASE head(j) = hdr /\ \A i \in 1 .. j - 1 : writes[i].at # HeaderCell
      <4>1. hdr = h /\ h \in Header /\ h.root <= h.last /\ h.last \in Int
        BY CrashFacts
      <4>2. j > 1 => 1 \in 1 .. j - 1
        BY <1>3, SMT
      <4>3. j > 1 => L = h.last
        BY <3>1, <4>2
      <4> HIDE DEF head
      <4> QED BY <3>1, <4>1, <4>3, SMT
    <3>2. CASE \E i \in 1 .. j - 1 : writes[i].at = HeaderCell /\ head(j) = writes[i].data
      <4>1. PICK i \in 1 .. j - 1 : writes[i].at = HeaderCell /\ head(j) = writes[i].data
        BY <3>2
      <4>2. /\ writes[i].data \in Header /\ writes[i].data.root <= writes[i].data.last
            /\ L <= writes[i].data.last
        BY <1>2, <2>1, <4>1
      <4>3. head(j).last \in Int /\ h.last \in Int
        <5>1. head(j).last \in Positions
          BY <4>1, <4>2, SMT DEF Header
        <5> QED BY <5>1, CrashFacts, SMT DEF Positions
      <4> HIDE DEF head
      <4> QED BY <4>1, <4>2, <4>3, SMT
    <3>3. \/ Latest(HeaderCell, hdr, writes, j - 1) = hdr
             /\ \A i \in 1 .. j - 1 : writes[i].at # HeaderCell
          \/ \E i \in 1 .. j - 1 : /\ writes[i].at = HeaderCell
                                   /\ Latest(HeaderCell, hdr, writes, j - 1) = writes[i].data
      BY <2>2
    <3> QED BY <3>1, <3>2, <3>3
  <2>4. ASSUME NEW p \in Positions
        PROVE  WellFormed(blocks(j)[p]) /\ PointsWithin(blocks(j)[p], head(j).last + 1)
    <3>1. blocks(j)[p] = Latest(p, nodes[p], writes, j - 1)
      OBVIOUS
    <3>2. CASE blocks(j)[p] = nodes[p]
      <4>1. WellFormed(nodes[p]) /\ nodes[p] \in Node /\ PointsWithin(nodes[p], h.last + 1)
        BY CrashFacts DEF WellFormed
      <4> HIDE DEF head, blocks
      <4>2. h.last + 1 \in Int /\ head(j).last + 1 \in Int /\ h.last + 1 <= head(j).last + 1
        BY <2>3, CrashFacts, SMT
      <4> QED BY <3>2, <4>1, <4>2, PointsWithinMore
    <3>3. CASE \E i \in 1 .. j - 1 : writes[i].at = p /\ blocks(j)[p] = writes[i].data
      <4>1. PICK i \in 1 .. j - 1 : writes[i].at = p /\ blocks(j)[p] = writes[i].data
        BY <3>3
      <4>2. WellFormed(writes[i].data) /\ PointsWithin(writes[i].data, L + 1)
        BY <1>2, <2>1, <4>1
      <4> HIDE DEF head, blocks
      <4>3. L + 1 \in Int /\ head(j).last + 1 \in Int /\ L + 1 <= head(j).last + 1
        BY <1>3, <2>3, SMT
      <4> QED BY <4>1, <4>2, <4>3, PointsWithinMore DEF WellFormed
    <3>4. \/ Latest(p, nodes[p], writes, j - 1) = nodes[p]
          \/ \E i \in 1 .. j - 1 : /\ writes[i].at = p
                                   /\ Latest(p, nodes[p], writes, j - 1) = writes[i].data
      BY <2>2
    <3> QED BY <3>1, <3>2, <3>3, <3>4
  <2>5. blocks(j) \in [Positions -> Node]
    BY <2>4 DEF WellFormed
  <2> HIDE DEF head, blocks
  <2> QED BY <2>3, <2>4, <2>5, FileIs
<1>4. N \in Nat /\ N >= 1
  BY SMT
<1> HIDE DEF N, blocks, head, made
<1>5. made = [j \in 1 .. N |-> made[j]] /\ \A j \in 1 .. N : made[j] \in Files
  BY <1>1, <1>3
<1>6. made \in Seq(Files) /\ Len(made) = N
  BY <1>4, <1>5, FileList
<1>7. N \in 1 .. N
  BY <1>4, SMT
<1> QED BY <1>5, <1>6, <1>7 DEF N, made

LEMMA MakesKeeps ==
  ASSUME CrashInv, Created, NEW writes, Len(writes) \in 0 .. 5,
         Makes(writes) \/ MakesAndSeeks(writes),
         NEW L \in Int, h.last <= L,
         \A i \in 1 .. Len(writes) :
           \/ /\ writes[i].at \in Positions
              /\ WellFormed(writes[i].data) /\ PointsWithin(writes[i].data, L + 1)
           \/ /\ writes[i].at = HeaderCell /\ writes[i].data \in Header
              /\ writes[i].data.root <= writes[i].data.last /\ L <= writes[i].data.last,
         L = h.last \/ (Len(writes) >= 1 /\ writes[1].at = HeaderCell)
  PROVE  images' \in Seq(Files) /\ Len(images') >= 1
<1> DEFINE made == FilesOf(writes)
           last == made[Len(writes) + 1]
<1>1. made \in Seq(Files) /\ Len(made) = Len(writes) + 1 /\ last \in Files
  BY FilesKeep, Zenon
<1>2. Len(made) >= 1 /\ Len(made) \in Nat
  BY <1>1, SMT
<1>3. images' = made \/ images' = Append(made, last)
  BY DEF Makes, MakesAndSeeks
<1> HIDE DEF made, last
<1>4. Append(made, last) \in Seq(Files) /\ Len(Append(made, last)) = Len(made) + 1
  BY <1>1, AppendProperties
<1>5. Len(made) + 1 >= 1
  BY <1>2, SMT
<1> QED BY <1>1, <1>2, <1>3, <1>4, <1>5

-----------------------------------------------------------------------------
(* The invariant from its parts, after a step. *)
LEMMA CrashInvNext ==
  ASSUME nodes' \in [Positions -> Node], h' \in Header, hdr' = h', h'.root <= h'.last,
         ~Created' => h'.last = 0,
         \A p \in Positions : WellFormed(nodes'[p]) /\ PointsWithin(nodes'[p], h'.last + 1),
         images' \in Seq(Files), Len(images') >= 1,
         WellFormed(cur'), PointsWithin(cur', h'.last + 1),
         pc' = "insert" => arg' \in Record /\ (IsFull(cur') => NoBlockLeft(h'))
  PROVE  CrashInv'
<1>1. Created' \in BOOLEAN
  BY DEF Created
<1>2. Image(Created', nodes', hdr') \in Files
  BY <1>1, FileIs
<1> QED BY <1>2 DEF CrashInv, Now, FullOnlyWhenExhausted, WellFormed

(* A step that reads, or only computes. *)
LEMMA ReadingKeeps ==
  ASSUME CrashInv, UNCHANGED <<nodes, hdr, h>>, Created, Created',
         images' \in Seq(Files), Len(images') >= 1,
         WellFormed(cur'), PointsWithin(cur', h.last + 1),
         pc' = "insert" => arg' \in Record /\ (IsFull(cur') => NoBlockLeft(h))
  PROVE  CrashInv'
BY CrashFacts, CrashInvNext

LEMMA SeeksKeeps ==
  ASSUME CrashInv, Created, Seeks
  PROVE  images' \in Seq(Files) /\ Len(images') >= 1
<1>1. Len(<<>>) = 0 /\ 0 \in 0 .. 5 /\ 1 .. 0 = {}
  BY SMT
<1>2. h.last \in Int /\ h.last <= h.last
  BY CrashFacts, SMT
<1> QED BY <1>1, <1>2, MakesKeeps DEF Seeks

LEMMA ComputesKeeps ==
  ASSUME CrashInv, Computes
  PROVE  images' \in Seq(Files) /\ Len(images') >= 1
<1> DEFINE n == Len(images)
           m == IF n = 1 THEN 1 ELSE n - 1
<1>1. n \in Nat /\ n >= 1 /\ \A j \in 1 .. n : images[j] \in Files
  BY LenProperties DEF CrashInv
<1>2. m \in Int /\ m >= 1 /\ m <= n /\ n - m + 1 >= 1 /\ \A j \in m .. n : j \in 1 .. n
  BY <1>1, SMT
<1>3. images' = SubSeq(images, m, n)
  BY DEF Computes
<1> HIDE DEF n, m
<1> QED BY <1>1, <1>2, <1>3, SubSeqProperties

(* What a copy may be. *)
LEMMA CopyIs ==
  ASSUME CrashInv
  PROVE  /\ WellFormed(InitNode) /\ PointsWithin(InitNode, h.last + 1)
         /\ WellFormed(nodes[h.root]) /\ PointsWithin(nodes[h.root], h.last + 1)
         /\ \A i \in ChildSlots : cur.children[i] # NoChild =>
              /\ cur.children[i] \in Positions
              /\ WellFormed(Child(i)) /\ PointsWithin(Child(i), h.last + 1)
<1>1. WellFormed(InitNode) /\ PointsWithin(InitNode, h.last + 1)
  BY InitNodeWellFormed, CrashFacts, Sizes, SMT DEF PointsWithin, InitNode, NoChild
<1>2. \A i \in ChildSlots : cur.children[i] # NoChild => cur.children[i] \in Positions
  BY SMT DEF CrashInv, Node
<1> QED BY <1>1, <1>2, CrashFacts DEF Child

(* The slot below which an insertion goes on.                              *)
LEMMA CrashBelow ==
  ASSUME CrashInv, NEW i \in ChildSlots, InsertsBelow(i)
  PROVE  pc = "insert" /\ arg \in Record /\ ~cur.isLeaf /\ i <= cur.n
<1>1. cur.n \in Int
  BY NodeInts DEF CrashInv
<1>2. i - 1 \in -1 .. cur.n - 1 /\ i \in Int
  BY SMT DEF InsertsBelow, InsertScanStops, ChildSlots
<1> QED BY <1>1, <1>2, SMT DEF InsertsBelow, CrashInv

LEMMA ReadsKeep == ASSUME CrashInv, Reads PROVE CrashInv'
<1>1. Created
  BY DEF Reads, OpenExisting, Close, InsertRefused, SearchBegin, InsertDescend, InsertNoSplit,
         InsertsBelow, SearchDescend, SearchesAt, Created
<1>2. images' \in Seq(Files) /\ Len(images') >= 1
  BY <1>1, SeeksKeeps DEF Reads
<1>3. WellFormed(cur) /\ PointsWithin(cur, h.last + 1)
  BY DEF CrashInv
<1>4. CASE OpenExisting \/ Close
  <2>1. UNCHANGED <<nodes, hdr, h, cur>> /\ pc' \in {"idle", "closed"}
    BY <1>4 DEF OpenExisting, Close, CrashInv
  <2> QED BY <1>1, <1>2, <1>3, <2>1, ReadingKeeps DEF Created
<1>5. CASE InsertRefused
  BY <1>1, <1>2, <1>5, CopyIs, ReadingKeeps DEF InsertRefused, Return, Created
<1>6. ASSUME NEW k \in Keys, SearchBegin(k) PROVE CrashInv'
  BY <1>1, <1>2, <1>6, CopyIs, ReadingKeeps DEF SearchBegin, Created
<1>7. ASSUME NEW i \in ChildSlots, InsertDescend(i) PROVE CrashInv'
  <2>1. pc = "insert" /\ arg \in Record
    BY <1>7, CrashBelow DEF InsertDescend
  <2> QED BY <1>1, <1>2, <1>7, <2>1, CopyIs, ReadingKeeps DEF InsertDescend, Created
<1>8. ASSUME NEW i \in ChildSlots, InsertNoSplit(i) PROVE CrashInv'
  <2>1. pc = "insert" /\ arg \in Record
    BY <1>8, CrashBelow DEF InsertNoSplit
  <2> QED BY <1>1, <1>2, <1>8, <2>1, CopyIs, ReadingKeeps DEF InsertNoSplit, Created
<1>9. ASSUME NEW i \in ChildSlots, SearchDescend(i) PROVE CrashInv'
  BY <1>1, <1>2, <1>9, CopyIs, ReadingKeeps DEF SearchDescend, SearchesAt, Created
<1> QED BY <1>4, <1>5, <1>6, <1>7, <1>8, <1>9 DEF Reads

LEMMA ReadsRootKeeps == ASSUME CrashInv, ReadsRoot PROVE CrashInv'
<1> PICK k \in Keys, v \in Values : InsertBegin(k, v) /\ Seeks
  BY DEF ReadsRoot
<1>1. Created /\ UNCHANGED <<nodes, hdr, h>> /\ pc' = "insert" /\ ~IsFull(cur')
      /\ cur' = nodes[h.root] /\ arg' = Argument(k, v)
  BY DEF InsertBegin, Created
<1>2. images' \in Seq(Files) /\ Len(images') >= 1
  BY <1>1, SeeksKeeps
<1> QED BY <1>1, <1>2, CopyIs, ArgumentIs, ReadingKeeps DEF Created

LEMMA EndsKeep == ASSUME CrashInv, Ends PROVE CrashInv'
<1>1. images' \in Seq(Files) /\ Len(images') >= 1
  BY ComputesKeeps DEF Ends
<1>2. /\ Created /\ Created' /\ UNCHANGED <<nodes, hdr, h>>
      /\ cur' \in {cur, InitNode} /\ pc' \in {"idle", "undefined"}
  BY DEF Ends, InsertDuplicate, InsertOverflows, InsertsAfter, SearchFound, SearchMissing,
         SearchReadsHeader, SearchesAt, InsertReadsHeader, InsertStrays, InsertsBelow,
         GoesUndefined, Return, Created
<1>3. WellFormed(cur') /\ PointsWithin(cur', h.last + 1)
  BY <1>2, CopyIs DEF CrashInv
<1> QED BY <1>1, <1>2, <1>3, ReadingKeeps

LEMMA CrashKeeps == ASSUME CrashInv, Crash PROVE CrashInv'
<1>1. PICK j \in DOMAIN images :
        /\ nodes' = images[j].nodes /\ hdr' = images[j].hdr
        /\ pc' = IF images[j].made THEN "closed" ELSE "absent"
        /\ images' = <<images[j]>>
  BY DEF Crash
<1>2. h' = hdr' /\ cur' = InitNode
  BY DEF Crash
<1>3. images[j] \in Files
  BY LenProperties DEF CrashInv
<1>4. /\ nodes' \in [Positions -> Node] /\ h' \in Header /\ h'.root <= h'.last
      /\ ~images[j].made => h'.last = 0
      /\ \A p \in Positions : WellFormed(nodes'[p]) /\ PointsWithin(nodes'[p], h'.last + 1)
  BY <1>1, <1>2, <1>3 DEF Files
<1>5. images' \in Seq(Files) /\ Len(images') >= 1
  BY <1>1, <1>3, SMT
<1>6. PointsWithin(InitNode, h'.last + 1) /\ WellFormed(InitNode)
  <2>1. h'.last \in Positions
    BY <1>4, SMT DEF Header
  <2> QED BY <2>1, InitNodeWellFormed, Sizes, NumNodesAssumption, SMT
          DEF PointsWithin, InitNode, NoChild, Positions
<1>7. ~Created' => h'.last = 0
  BY <1>1, <1>4 DEF Created
<1>8. pc' # "insert"
  BY <1>1
<1> QED BY <1>2, <1>4, <1>5, <1>6, <1>7, <1>8, CrashInvNext

-----------------------------------------------------------------------------
(* The steps that write. *)

(* A write that MakesKeeps admits. *)
Admitted(w, L) ==
  \/ w.at \in Positions /\ WellFormed(w.data) /\ PointsWithin(w.data, L + 1)
  \/ w.at = HeaderCell /\ w.data \in Header /\ w.data.root <= w.data.last /\ L <= w.data.last

LEMMA SplitKeeps ==
  ASSUME CrashInv, NEW s \in Header, s.last + 1 \in Positions, s.root <= s.last, h.last <= s.last,
         NEW x, WellFormed(x), ~IsFull(x), PointsWithin(x, s.last + 1),
         NEW i \in ChildSlots, i <= x.n,
         NEW y, WellFormed(y), IsFull(y), PointsWithin(y, s.last + 1),
         SplitChild(s, x, i, y)
  PROVE  /\ nodes' \in [Positions -> Node] /\ h' \in Header /\ hdr' = h'
         /\ h'.last = s.last + 1 /\ h'.root = s.root /\ h'.root <= h'.last
         /\ \A p \in Positions : WellFormed(nodes'[p]) /\ PointsWithin(nodes'[p], h'.last + 1)
         /\ Len(SplitWrites(s, x, i, y)) = 4
         /\ \A j \in 1 .. 4 : Admitted(SplitWrites(s, x, i, y)[j], s.last)
<1> DEFINE z == s.last + 1
           par == WithChildAfter(x, i, y.records[T - 1], z)
           low == LowerHalf(y)
           upp == UpperHalf(y, i, z)
           top == [s EXCEPT !.last = z]
<1>1. /\ s.last \in Int /\ s.root \in Int /\ z \in Int /\ h.last + 1 \in Int /\ z + 1 \in Int
      /\ s.root \in Positions
  BY CrashFacts, SMT DEF Header, Positions
<1>2. /\ WellFormed(par) /\ PointsWithin(par, z) /\ par.pos = x.pos
      /\ WellFormed(low) /\ PointsWithin(low, z) /\ low.pos = y.pos
      /\ WellFormed(upp) /\ PointsWithin(upp, z) /\ upp.pos = z
      /\ par \in Node /\ low \in Node /\ upp \in Node
  BY <1>1, SplitNodes
<1>3. /\ nodes' = [nodes EXCEPT ![x.pos] = par, ![y.pos] = low, ![z] = upp]
      /\ h' = top /\ hdr' = h'
      /\ SplitWrites(s, x, i, y) = <<Write(x.pos, par), Write(y.pos, low), Write(z, upp),
                                    Write(HeaderCell, top)>>
  BY <1>2 DEF SplitChild, SplitWrites
<1>4. top \in Header /\ top.last = z /\ top.root = s.root /\ top.root <= z /\ s.last <= z
  BY <1>1, SMT DEF Header
<1>5. x.pos \in Positions /\ y.pos \in Positions /\ z \in Positions
  BY SMT DEF WellFormed, Node
<1> HIDE DEF z, par, low, upp, top
<1>6. nodes \in [Positions -> Node]
  BY CrashFacts
<1>7. nodes' \in [Positions -> Node]
  BY <1>2, <1>3, <1>6
<1>8. \A p \in Positions : nodes'[p] \in {par, low, upp, nodes[p]}
  BY <1>3, <1>5, <1>6
<1>9. ASSUME NEW p \in Positions PROVE WellFormed(nodes'[p]) /\ PointsWithin(nodes'[p], z + 1)
  <2>1. CASE nodes'[p] \in {par, low, upp}
    <3>1. WellFormed(nodes'[p]) /\ PointsWithin(nodes'[p], z) /\ nodes'[p] \in Node
      BY <1>2, <2>1
    <3>2. z <= z + 1
      BY <1>1, SMT
    <3> QED BY <1>1, <3>1, <3>2, PointsWithinMore
  <2>2. CASE nodes'[p] = nodes[p]
    <3>1. WellFormed(nodes[p]) /\ PointsWithin(nodes[p], h.last + 1) /\ nodes[p] \in Node
      BY CrashFacts DEF WellFormed
    <3>2. h.last + 1 <= z + 1
      BY <1>1, CrashFacts, SMT DEF z
    <3> QED BY <1>1, <2>2, <3>1, <3>2, PointsWithinMore
  <2> QED BY <1>8, <2>1, <2>2
<1>10. Len(SplitWrites(s, x, i, y)) = 4
  BY <1>3, SMT
<1>11. \A j \in 1 .. 4 : Admitted(SplitWrites(s, x, i, y)[j], s.last)
  <2>1. /\ Admitted(Write(x.pos, par), s.last) /\ Admitted(Write(y.pos, low), s.last)
        /\ Admitted(Write(z, upp), s.last)
    BY <1>2, <1>5 DEF Admitted, Write, z
  <2>2. Admitted(Write(HeaderCell, top), s.last)
    BY <1>4 DEF Admitted, Write
  <2>3. /\ SplitWrites(s, x, i, y)[1] = Write(x.pos, par)
        /\ SplitWrites(s, x, i, y)[2] = Write(y.pos, low)
        /\ SplitWrites(s, x, i, y)[3] = Write(z, upp)
        /\ SplitWrites(s, x, i, y)[4] = Write(HeaderCell, top)
    BY <1>3
  <2>4. \A j \in 1 .. 4 : j = 1 \/ j = 2 \/ j = 3 \/ j = 4
    BY SMT
  <2> QED BY <2>1, <2>2, <2>3, <2>4
<1> QED BY <1>3, <1>4, <1>7, <1>9, <1>10, <1>11 DEF z

LEMMA SplitsKeep == ASSUME CrashInv, Splits PROVE CrashInv'
<1> PICK i \in ChildSlots :
      LET writes == SplitWrites(h, cur, i, Child(i))
      IN  InsertSplit(i) /\ (Makes(writes) \/ MakesAndSeeks(writes))
  BY DEF Splits
<1> DEFINE y == Child(i)
<1>1. pc = "insert" /\ arg \in Record /\ i <= cur.n /\ Created
  BY CrashBelow DEF InsertSplit, Created
<1>2. /\ WellFormed(y) /\ IsFull(y) /\ PointsWithin(y, h.last + 1)
      /\ WellFormed(cur) /\ ~IsFull(cur) /\ PointsWithin(cur, h.last + 1)
  BY <1>1, CopyIs DEF InsertSplit, CrashInv, FullOnlyWhenExhausted
<1>3. h.last + 1 \in Positions /\ h.last + 1 \in Int /\ h.last + 1 <= h.last + 1
  BY CrashFacts, NumNodesAssumption, SMT DEF InsertSplit, NoBlockLeft, Positions
<1>4. /\ SplitChild(h, cur, i, y) /\ cur' \in {UpperHalf(y, i, h.last + 1), LowerHalf(y)}
      /\ pc' = pc /\ arg' = arg
  BY DEF InsertSplit
<1> HIDE DEF y
<1>5. h.last \in Int /\ h.last <= h.last /\ h.root <= h.last /\ h \in Header
  BY CrashFacts, SMT
<1>6. /\ nodes' \in [Positions -> Node] /\ h' \in Header /\ hdr' = h'
      /\ h'.last = h.last + 1 /\ h'.root <= h'.last
      /\ \A p \in Positions : WellFormed(nodes'[p]) /\ PointsWithin(nodes'[p], h'.last + 1)
      /\ Len(SplitWrites(h, cur, i, y)) = 4
      /\ \A j \in 1 .. 4 : Admitted(SplitWrites(h, cur, i, y)[j], h.last)
  BY <1>1, <1>2, <1>3, <1>4, <1>5, SplitKeeps
<1>7. images' \in Seq(Files) /\ Len(images') >= 1
  <2> DEFINE writes == SplitWrites(h, cur, i, y)
  <2>1. 4 \in 0 .. 5
    BY SMT
  <2>2. Makes(writes) \/ MakesAndSeeks(writes)
    BY DEF y
  <2>3. Len(writes) = 4 /\ \A j \in 1 .. 4 : Admitted(writes[j], h.last)
    BY <1>6
  <2> HIDE DEF writes
  <2>4. \A j \in 1 .. Len(writes) :
          \/ /\ writes[j].at \in Positions
             /\ WellFormed(writes[j].data) /\ PointsWithin(writes[j].data, h.last + 1)
          \/ /\ writes[j].at = HeaderCell /\ writes[j].data \in Header
             /\ writes[j].data.root <= writes[j].data.last /\ h.last <= writes[j].data.last
    BY <2>3 DEF Admitted
  <2>5. Len(writes) \in 0 .. 5
    BY <2>1, <2>3
  <2> QED BY <1>1, <1>5, <2>2, <2>4, <2>5, MakesKeeps
<1>8. WellFormed(cur') /\ ~IsFull(cur') /\ PointsWithin(cur', h'.last + 1)
  <2>1. WellFormed(cur') /\ ~IsFull(cur') /\ PointsWithin(cur', h.last + 1) /\ cur' \in Node
    BY <1>1, <1>2, <1>3, <1>4, SplitNodes
  <2>2. h'.last + 1 \in Int /\ h.last + 1 <= h'.last + 1
    BY <1>3, <1>5, <1>6, SMT
  <2> QED BY <1>3, <2>1, <2>2, PointsWithinMore
<1> QED BY <1>1, <1>4, <1>6, <1>7, <1>8, CrashInvNext DEF Created

LEMMA StoresKeep == ASSUME CrashInv, Stores PROVE CrashInv'
<1> PICK i \in -1 .. MaxRecords - 1 :
      InsertStore(i) /\ Makes(<<Write(cur.pos, WithRecordAfter(cur, i, arg))>>)
  BY DEF Stores
<1> DEFINE new == WithRecordAfter(cur, i, arg)
<1>1. /\ pc = "insert" /\ arg \in Record /\ ~IsFull(cur) /\ Created
      /\ WellFormed(cur) /\ PointsWithin(cur, h.last + 1)
  BY DEF InsertStore, InsertsAfter, CrashInv, Created
<1>2. i \in Int /\ -1 <= i /\ i < cur.n /\ cur.pos \in Positions
  <2>1. cur.n \in Int /\ cur.pos \in Positions
    BY SMT DEF CrashInv, Node
  <2>2. i \in -1 .. cur.n - 1
    BY DEF InsertStore, InsertsAfter, InsertScanStops
  <2> QED BY <2>1, <2>2, SMT
<1>3. WellFormed(new) /\ new.pos = cur.pos /\ new.children = cur.children
  BY <1>1, <1>2, WithRecordAfterIs
<1>4. /\ nodes' = [nodes EXCEPT ![cur.pos] = new] /\ UNCHANGED <<h, hdr>> /\ pc' = "idle"
      /\ cur' = InitNode
  BY DEF InsertStore, Return
<1> HIDE DEF new
<1>5. PointsWithin(new, h.last + 1)
  BY <1>1, <1>3 DEF PointsWithin
<1>6. /\ nodes' \in [Positions -> Node]
      /\ \A p \in Positions : WellFormed(nodes'[p]) /\ PointsWithin(nodes'[p], h.last + 1)
  <2>1. nodes' \in [Positions -> Node]
    BY <1>3, <1>4, CrashFacts DEF WellFormed
  <2>2. \A p \in Positions : nodes'[p] = IF p = cur.pos THEN new ELSE nodes[p]
    BY <1>4, CrashFacts
  <2> QED BY <1>3, <1>5, <2>1, <2>2, CrashFacts
<1>7. images' \in Seq(Files) /\ Len(images') >= 1
  <2> DEFINE w == <<Write(cur.pos, new)>>
  <2>1. Len(w) = 1 /\ 1 \in 0 .. 5 /\ \A j \in 1 .. 1 : j = 1
    BY SMT
  <2>2. w[1].at = cur.pos /\ w[1].data = new
    BY DEF Write
  <2>3. Makes(w)
    BY DEF new
  <2>4. h.last \in Int /\ h.last <= h.last
    BY CrashFacts, SMT
  <2> HIDE DEF w
  <2> QED BY <1>1, <1>2, <1>3, <1>5, <2>1, <2>2, <2>3, <2>4, MakesKeeps
<1> QED BY <1>1, <1>4, <1>6, <1>7, CopyIs, CrashFacts, CrashInvNext DEF Created

(* The root grown by InsertGrow or InsertGrowLast: its copy and its header. *)
LEMMA GrownRoot ==
  ASSUME CrashInv, IsFull(nodes[h.root]), ~NoBlockLeft(h)
  PROVE  LET old == nodes[h.root]
             new == NewRoot(old.pos, h.last + 1)
             up  == [root |-> new.pos, last |-> new.pos]
         IN  /\ WellFormed(old) /\ PointsWithin(old, h.last + 2)
             /\ WellFormed(new) /\ new.n = 0 /\ ~IsFull(new) /\ PointsWithin(new, h.last + 2)
             /\ up \in Header /\ up.root = h.last + 1 /\ up.last = h.last + 1
             /\ Admitted(Write(HeaderCell, up), h.last + 1)
<1> DEFINE old == nodes[h.root]
           new == NewRoot(old.pos, h.last + 1)
           up  == [root |-> new.pos, last |-> new.pos]
<1>1. /\ WellFormed(old) /\ old \in Node /\ PointsWithin(old, h.last + 1)
      /\ h.last \in Int /\ 0 <= h.last /\ h.last \in Positions
  BY CrashFacts DEF WellFormed
<1>2. old.pos \in Positions /\ old.pos \in Int /\ old.pos <= h.last + 1
  BY <1>1, SMT DEF Node, PointsWithin, Positions
<1>3. h.last + 1 \in Positions
  BY <1>1, NumNodesAssumption, SMT DEF NoBlockLeft, Positions
<1>4. /\ WellFormed(new) /\ new.n = 0 /\ ~IsFull(new) /\ new.pos = h.last + 1
      /\ \A j \in ChildSlots : new.children[j] = IF j = 0 THEN old.pos ELSE NoChild
  BY <1>2, <1>3, NewRootIs
<1>5. up \in Header /\ up.root = h.last + 1 /\ up.last = h.last + 1
  BY <1>3, <1>4 DEF Header
<1> HIDE DEF old, new, up
<1>6. PointsWithin(old, h.last + 2)
  <2>1. h.last + 1 \in Int /\ h.last + 2 \in Int /\ h.last + 1 <= h.last + 2
    BY <1>1, SMT
  <2> QED BY <1>1, <2>1, PointsWithinMore
<1>7. PointsWithin(new, h.last + 2)
  BY <1>1, <1>2, <1>4, SMT DEF PointsWithin, NoChild
<1>8. Admitted(Write(HeaderCell, up), h.last + 1)
  <2>1. h.last + 1 <= h.last + 1
    BY <1>1, SMT
  <2> QED BY <1>5, <2>1 DEF Admitted, Write
<1> QED BY <1>1, <1>4, <1>5, <1>6, <1>7, <1>8 DEF old, new, up

LEMMA FiveWrites ==
  ASSUME NEW e, NEW a, NEW b, NEW c, NEW d, NEW L,
         Admitted(e, L), Admitted(a, L), Admitted(b, L), Admitted(c, L), Admitted(d, L)
  PROVE  LET w == <<e>> \o <<a, b, c, d>>
         IN  Len(w) = 5 /\ w[1] = e /\ \A j \in 1 .. 5 : Admitted(w[j], L)
<1> DEFINE S == {a, b, c, d, e}
           s == <<e>>
           t == <<a, b, c, d>>
<1>1. /\ s \in Seq(S) /\ Len(s) = 1 /\ s[1] = e
      /\ t \in Seq(S) /\ Len(t) = 4 /\ t[1] = a /\ t[2] = b /\ t[3] = c /\ t[4] = d
  BY SMT
<1> HIDE DEF S, s, t
<1>2. /\ Len(s \o t) = Len(s) + Len(t)
      /\ \A j \in 1 .. Len(s) + Len(t) :
           (s \o t)[j] = IF j <= Len(s) THEN s[j] ELSE t[j - Len(s)]
  BY <1>1, ConcatProperties
<1>3. /\ Len(s \o t) = 5 /\ (s \o t)[1] = e
      /\ \A j \in 1 .. 5 : \/ (s \o t)[j] = e \/ (s \o t)[j] = a \/ (s \o t)[j] = b
                          \/ (s \o t)[j] = c \/ (s \o t)[j] = d
  BY <1>1, <1>2, SMT
<1>4. \A j \in 1 .. 5 : Admitted((s \o t)[j], L)
  BY <1>3
<1> QED BY <1>3, <1>4 DEF s, t

(* The files of a growth that splits.                                      *)
LEMMA GrowthKeeps ==
  ASSUME CrashInv, Created, NEW writes, Len(writes) = 5, Makes(writes) \/ MakesAndSeeks(writes),
         NEW L \in Int, h.last <= L, \A j \in 1 .. 5 : Admitted(writes[j], L),
         writes[1].at = HeaderCell
  PROVE  images' \in Seq(Files) /\ Len(images') >= 1
<1> DEFINE N == Len(writes)
<1>1. N \in 0 .. 5 /\ N >= 1
  BY SMT
<1>2. \A j \in 1 .. N :
        \/ /\ writes[j].at \in Positions
           /\ WellFormed(writes[j].data) /\ PointsWithin(writes[j].data, L + 1)
        \/ /\ writes[j].at = HeaderCell /\ writes[j].data \in Header
           /\ writes[j].data.root <= writes[j].data.last /\ L <= writes[j].data.last
  BY DEF Admitted
<1>3. L = h.last \/ (N >= 1 /\ writes[1].at = HeaderCell)
  BY <1>1
<1> QED BY <1>1, <1>2, <1>3, MakesKeeps, Zenon

LEMMA InsertGrowKeepsFiles ==
  ASSUME CrashInv, NEW k \in Keys, NEW v \in Values, InsertGrow(k, v),
         LET old == nodes[h.root]
             new == NewRoot(old.pos, h.last + 1)
             up  == [root |-> new.pos, last |-> new.pos]
         IN  Makes(<<Write(HeaderCell, up)>> \o SplitWrites(up, new, 0, old))
  PROVE  CrashInv'
<1> DEFINE old == nodes[h.root]
           new == NewRoot(old.pos, h.last + 1)
           up  == [root |-> new.pos, last |-> new.pos]
           split == SplitWrites(up, new, 0, old)
           writes == <<Write(HeaderCell, up)>> \o split
<1>1. /\ IsFull(old) /\ ~NoBlockLeft(h) /\ ~NoBlockLeft(up) /\ SplitChild(up, new, 0, old)
      /\ cur' = WithChildAfter(new, 0, old.records[T - 1], up.last + 1)
      /\ Created /\ pc' = "insert" /\ arg' = Argument(k, v) /\ Makes(writes)
  BY DEF InsertGrow, Created
<1>2. /\ WellFormed(old) /\ PointsWithin(old, h.last + 2)
      /\ WellFormed(new) /\ new.n = 0 /\ ~IsFull(new) /\ PointsWithin(new, h.last + 2)
      /\ up \in Header /\ up.root = h.last + 1 /\ up.last = h.last + 1
      /\ Admitted(Write(HeaderCell, up), h.last + 1)
  BY <1>1, GrownRoot
<1> HIDE DEF old, new, up
<1>3. /\ h.last \in Int /\ 0 <= h.last /\ h.last + 1 \in Int /\ h.last <= h.last + 1
      /\ up.last + 1 = h.last + 2 /\ h.last + 2 \in Int /\ up.root <= up.last
      /\ h.last <= up.last /\ 0 \in ChildSlots /\ 0 <= new.n
  BY <1>2, CrashFacts, Sizes, SMT
<1>4. up.last + 1 \in Positions
  <2>1. up.last \in 0 .. NumNodes - 1 /\ up.last # NumNodes - 1
    BY <1>1, <1>2 DEF NoBlockLeft, Header, Positions
  <2> QED BY <2>1, NumNodesAssumption, SMT DEF Positions
<1>5. /\ nodes' \in [Positions -> Node] /\ h' \in Header /\ hdr' = h'
      /\ h'.last = up.last + 1 /\ h'.root <= h'.last
      /\ \A p \in Positions : WellFormed(nodes'[p]) /\ PointsWithin(nodes'[p], h'.last + 1)
      /\ Len(split) = 4 /\ \A j \in 1 .. 4 : Admitted(split[j], up.last)
  BY <1>1, <1>2, <1>3, <1>4, SplitKeeps
<1>6. Len(writes) = 5 /\ writes[1] = Write(HeaderCell, up)
      /\ \A j \in 1 .. 5 : Admitted(writes[j], h.last + 1)
  <2>1. split = <<split[1], split[2], split[3], split[4]>>
    BY DEF SplitWrites, split
  <2> HIDE DEF split
  <2> DEFINE a == split[1]
             b == split[2]
             c == split[3]
             d == split[4]
  <2>2. writes = <<Write(HeaderCell, up)>> \o <<a, b, c, d>>
    BY <2>1
  <2>3. Admitted(a, up.last) /\ Admitted(b, up.last) /\ Admitted(c, up.last) /\ Admitted(d, up.last)
    BY <1>5, SMT
  <2> HIDE DEF a, b, c, d, writes
  <2> QED BY <1>2, <2>2, <2>3, FiveWrites
<1> HIDE DEF split, writes
<1>7. images' \in Seq(Files) /\ Len(images') >= 1
  BY <1>1, <1>3, <1>6, GrowthKeeps DEF Write
<1>8. WellFormed(cur') /\ ~IsFull(cur') /\ PointsWithin(cur', h'.last + 1)
  <2>1. WellFormed(cur') /\ PointsWithin(cur', up.last + 1) /\ cur' \in Node
    BY <1>1, <1>2, <1>3, <1>4, SplitNodes
  <2>2. cur'.n = new.n + 1
    <3>1. old.records[T - 1] \in Record
      BY <1>1, <1>2, Sizes, SMT DEF WellFormed, IsFull
    <3> QED BY <1>1, <1>2, <1>3, <1>4, <3>1, WithChildAfterIs
  <2>3. ~IsFull(cur')
    BY <1>2, <2>2, Sizes, SMT DEF IsFull
  <2>4. up.last + 1 \in Int /\ h'.last + 1 \in Int /\ up.last + 1 <= h'.last + 1
    BY <1>3, <1>5, SMT
  <2> QED BY <2>1, <2>3, <2>4, PointsWithinMore
<1> QED BY <1>1, <1>5, <1>7, <1>8, ArgumentIs, CrashInvNext DEF Created

LEMMA InsertGrowLastKeepsFiles ==
  ASSUME CrashInv, NEW k \in Keys, NEW v \in Values, InsertGrowLast(k, v),
         LET new == NewRoot(nodes[h.root].pos, h.last + 1)
             up  == [root |-> new.pos, last |-> new.pos]
         IN  Makes(<<Write(HeaderCell, up)>>)
  PROVE  CrashInv'
<1> DEFINE new == NewRoot(nodes[h.root].pos, h.last + 1)
           up  == [root |-> new.pos, last |-> new.pos]
           writes == <<Write(HeaderCell, up)>>
<1>1. /\ IsFull(nodes[h.root]) /\ ~NoBlockLeft(h) /\ h' = up /\ hdr' = up /\ cur' = new
      /\ UNCHANGED nodes
      /\ Created /\ pc' = "insert" /\ arg' = Argument(k, v) /\ Makes(writes)
  BY DEF InsertGrowLast, Created
<1>2. /\ WellFormed(new) /\ ~IsFull(new) /\ PointsWithin(new, h.last + 2)
      /\ up \in Header /\ up.root = h.last + 1 /\ up.last = h.last + 1
      /\ Admitted(Write(HeaderCell, up), h.last + 1)
  BY <1>1, GrownRoot
<1>3. Len(writes) = 1 /\ writes[1] = Write(HeaderCell, up) /\ writes[1].at = HeaderCell
  BY SMT DEF Write
<1> HIDE DEF new, up, writes
<1>4. /\ h.last \in Int /\ h.last + 1 \in Int /\ h.last <= h.last + 1 /\ up.root <= up.last
      /\ up.last + 1 = h.last + 2 /\ h.last + 2 \in Int /\ h.last + 1 <= h.last + 2
  BY <1>2, CrashFacts, SMT
<1>5. images' \in Seq(Files) /\ Len(images') >= 1
  <2>1. 1 \in 0 .. 5 /\ 1 >= 1 /\ \A j \in 1 .. 1 : j = 1
    BY SMT
  <2> QED BY <1>1, <1>2, <1>3, <1>4, <2>1, MakesKeeps DEF Admitted
<1>6. ASSUME NEW p \in Positions PROVE WellFormed(nodes'[p]) /\ PointsWithin(nodes'[p], h'.last + 1)
  <2>1. WellFormed(nodes[p]) /\ nodes[p] \in Node /\ PointsWithin(nodes[p], h.last + 1)
    BY CrashFacts DEF WellFormed
  <2> QED BY <1>1, <1>4, <2>1, PointsWithinMore
<1>7. nodes' \in [Positions -> Node] /\ PointsWithin(cur', h'.last + 1) /\ h'.root <= h'.last
  BY <1>1, <1>2, <1>4, CrashFacts
<1> QED BY <1>1, <1>2, <1>5, <1>6, <1>7, ArgumentIs, CrashInvNext DEF Created

LEMMA GrowsKeep == ASSUME CrashInv, Grows PROVE CrashInv'
BY InsertGrowKeepsFiles, InsertGrowLastKeepsFiles DEF Grows

(* Creating the tree.                                                      *)
LEMMA CreateKeeps == ASSUME CrashInv, Create PROVE CrashInv'
<1> DEFINE unsized == [p \in Positions |-> InitNode]
           zeros   == [p \in Positions |-> ZeroNode]
<1>1. /\ h' = [root |-> 0, last |-> 0] /\ hdr' = h' /\ nodes' = [nodes EXCEPT ![0] = InitNode]
      /\ pc' = "idle" /\ UNCHANGED cur /\ ~Created
      /\ images' = <<Now, Image(TRUE, unsized, hdr'), Image(TRUE, zeros, hdr'),
                     Image(TRUE, nodes', hdr')>>
  BY DEF Create, OpenCreate, Created
<1>2. WellFormed(InitNode) /\ WellFormed(ZeroNode) /\ InitNode \in Node /\ ZeroNode \in Node
  BY InitNodeWellFormed DEF WellFormed
<1>3. h.last = 0 /\ nodes \in [Positions -> Node] /\ 0 \in Positions
      /\ \A p \in Positions : WellFormed(nodes[p]) /\ PointsWithin(nodes[p], 0 + 1)
  BY <1>1, CrashFacts, Sizes
<1>4. h' \in Header /\ h'.root = 0 /\ h'.last = 0 /\ h'.root <= h'.last
  BY <1>1, <1>3, SMT DEF Header
<1>5. PointsWithin(InitNode, 0 + 1) /\ PointsWithin(ZeroNode, 0 + 1)
  BY SMT DEF PointsWithin, InitNode, ZeroNode, NoChild
<1>6. unsized \in [Positions -> Node] /\ zeros \in [Positions -> Node]
      /\ \A p \in Positions : unsized[p] = InitNode /\ zeros[p] = ZeroNode
  BY <1>2
<1> HIDE DEF unsized, zeros
<1>7. /\ nodes' \in [Positions -> Node]
      /\ \A p \in Positions : WellFormed(nodes'[p]) /\ PointsWithin(nodes'[p], h'.last + 1)
  BY <1>1, <1>2, <1>3, <1>4, <1>5
<1>8. /\ Image(TRUE, unsized, hdr') \in Files /\ Image(TRUE, zeros, hdr') \in Files
      /\ Image(TRUE, nodes', hdr') \in Files
  BY <1>1, <1>2, <1>4, <1>5, <1>6, <1>7, FileIs
<1>9. Now \in Files
  BY DEF CrashInv
<1>10. images' \in Seq(Files) /\ Len(images') >= 1
  <2> DEFINE a == Now
             b == Image(TRUE, unsized, hdr')
             c == Image(TRUE, zeros, hdr')
             d == Image(TRUE, nodes', hdr')
  <2>1. images' = <<a, b, c, d>> /\ a \in Files /\ b \in Files /\ c \in Files /\ d \in Files
    BY <1>1, <1>8, <1>9
  <2> HIDE DEF a, b, c, d
  <2> QED BY <2>1, SMT
<1>11. WellFormed(cur') /\ PointsWithin(cur', h'.last + 1)
  BY <1>1, <1>3, <1>4 DEF CrashInv
<1> QED BY <1>1, <1>4, <1>7, <1>10, <1>11, CrashInvNext DEF Created

-----------------------------------------------------------------------------
LEMMA CrashInitKeeps == ASSUME CrashInit PROVE CrashInv
<1>1. /\ nodes = [p \in Positions |-> ZeroNode] /\ hdr = [root |-> 0, last |-> 0] /\ h = hdr
      /\ pc = "absent" /\ cur = InitNode /\ images = <<Now>>
  BY DEF CrashInit, Init
<1>2. WellFormed(InitNode) /\ WellFormed(ZeroNode) /\ InitNode \in Node /\ ZeroNode \in Node
  BY InitNodeWellFormed DEF WellFormed
<1>3. hdr \in Header /\ hdr.root = 0 /\ hdr.last = 0 /\ hdr.root <= hdr.last /\ 0 \in Positions
  BY <1>1, Sizes, SMT DEF Header
<1>4. PointsWithin(InitNode, 0 + 1) /\ PointsWithin(ZeroNode, 0 + 1)
  BY SMT DEF PointsWithin, InitNode, ZeroNode, NoChild
<1>5. Now \in Files
  <2>1. Created \in BOOLEAN
    BY DEF Created
  <2>2. nodes \in [Positions -> Node] /\ \A p \in Positions : nodes[p] = ZeroNode
    BY <1>1, <1>2
  <2> QED BY <1>2, <1>3, <1>4, <2>1, <2>2, FileIs DEF Now
<1>6. images \in Seq(Files) /\ Len(images) >= 1
  BY <1>1, <1>5, SMT
<1> QED BY <1>1, <1>2, <1>3, <1>4, <1>5, <1>6 DEF CrashInv, FullOnlyWhenExhausted

LEMMA CrashNextKeeps == CrashInv /\ [CrashNext]_crashVars => CrashInv'
<1> SUFFICES ASSUME CrashInv, [CrashNext]_crashVars PROVE CrashInv'
  OBVIOUS
<1>1. CASE CrashNext
  BY <1>1, CreateKeeps, ReadsKeep, ReadsRootKeeps, GrowsKeep, SplitsKeep, StoresKeep, EndsKeep,
     CrashKeeps DEF CrashNext
<1>2. CASE UNCHANGED crashVars
  BY <1>2, Zenon DEF crashVars, vars, CrashInv, Now, Created, FullOnlyWhenExhausted, NoBlockLeft
<1> QED BY <1>1, <1>2

LEMMA CrashInvariance == CrashSpec => []CrashInv
BY CrashInitKeeps, CrashNextKeeps, PTL DEF CrashSpec

(* However often the program is killed, between whichever two writes of    *)
(* btree_split_child, btree_insert or btree_open, and however it goes on,  *)
(* no block on file names a block further than one beyond those the header *)
(* counts.                                                                 *)
THEOREM OneBlockAstray == CrashSpec => []OneBlockUncounted
<1>1. CrashInv => OneBlockUncounted
  BY CrashFacts DEF OneBlockUncounted
<1> QED BY <1>1, CrashInvariance, PTL
=============================================================================
