---------------------------- MODULE BTreeProofs ----------------------------
(***************************************************************************)
(* Theorems about module BTree, for every T, every number of blocks, every *)
(* set of keys and values.                                                 *)
(***************************************************************************)
EXTENDS BTreeSafety, TLAPS

-----------------------------------------------------------------------------
(* Node values. *)

(* A node whose live slots hold records.                                   *)
WellFormed(x) == x \in Node /\ \A j \in Slots : j < x.n => x.records[j] \in Record

(* MaxRecords is at least 3 and T lies inside a full node.                 *)
LEMMA Sizes == /\ MaxRecords \in Nat /\ MaxRecords >= 3
               /\ T - 1 \in Slots /\ T - 1 \in 0 .. MaxRecords
               /\ T - 1 < MaxRecords /\ T - 1 >= 1
               /\ 0 \in ChildSlots /\ 0 \in Positions
               /\ MaxRecords \in ChildSlots
               /\ NoChild \in Int
BY TAssumption, NumNodesAssumption, SMT DEF MaxRecords, Slots, ChildSlots, Positions, NoChild

(* init_node and the reserved block are nodes without records.             *)
LEMMA InitNodeWellFormed == WellFormed(InitNode) /\ WellFormed(ZeroNode)
BY Sizes, SMT DEF WellFormed, Node, InitNode, ZeroNode, Slots

RecordArray == [Slots -> Record \cup {NoRecord}]
ChildArray  == [ChildSlots -> Positions \cup {NoChild}]

(* A node with its count and its records, or its arrays, replaced.         *)
Refilled(x, n, recs)         == [x EXCEPT !.n = n, !.records = recs]
Rebuilt(x, n, recs, kids)    == [x EXCEPT !.n = n, !.records = recs, !.children = kids]

(* A node is a node again with another count and other records.            *)
LEMMA RefilledIs ==
  ASSUME NEW x \in Node, NEW n \in 0 .. MaxRecords, NEW recs \in RecordArray
  PROVE  LET y == Refilled(x, n, recs)
         IN  /\ y \in Node
             /\ y.n = n /\ y.records = recs /\ y.children = x.children
             /\ y.pos = x.pos /\ y.isLeaf = x.isLeaf
<1>1. Refilled(x, n, recs) \in Node
  BY Zenon DEF Node, RecordArray, Refilled
<1> QED BY <1>1, SMT DEF Node, Refilled

(* The same when the child offsets are replaced as well.                   *)
LEMMA RebuiltIs ==
  ASSUME NEW x \in Node, NEW n \in 0 .. MaxRecords,
         NEW recs \in RecordArray, NEW kids \in ChildArray
  PROVE  LET y == Rebuilt(x, n, recs, kids)
         IN  /\ y \in Node
             /\ y.n = n /\ y.records = recs /\ y.children = kids
             /\ y.pos = x.pos /\ y.isLeaf = x.isLeaf
<1>1. Rebuilt(x, n, recs, kids) \in Node
  BY Zenon DEF Node, RecordArray, ChildArray, Rebuilt
<1> QED BY <1>1, SMT DEF Node, Rebuilt

(* Positions, counts and child offsets are integers.                       *)
LEMMA NodeInts ==
  ASSUME NEW x \in Node
  PROVE  /\ x.pos \in Int /\ x.n \in Int
         /\ \A j \in ChildSlots : x.children[j] \in Int
<1>1. /\ x.pos \in Positions /\ x.n \in 0 .. MaxRecords
      /\ x.children \in [ChildSlots -> Positions \cup {NoChild}]
  BY SMT DEF Node
<1> QED BY <1>1, Sizes, NumNodesAssumption, SMT DEF Positions

(* Handing out more blocks invalidates no offset.                          *)
LEMMA PointsWithinMore ==
  ASSUME NEW x \in Node, NEW a \in Int, NEW b \in Int, a <= b, PointsWithin(x, a)
  PROVE  PointsWithin(x, b)
BY NodeInts, SMT DEF PointsWithin

(* The lower half of a full node.                                          *)
LEMMA LowerHalfIs ==
  ASSUME NEW y, WellFormed(y), IsFull(y)
  PROVE  LET z == LowerHalf(y)
         IN  /\ WellFormed(z) /\ z.n = T - 1 /\ ~IsFull(z)
             /\ z.pos = y.pos /\ z.isLeaf = y.isLeaf /\ z.children = y.children
<1> DEFINE recs == [j \in Slots |-> IF j < T - 1 THEN y.records[j] ELSE NoRecord]
<1>1. recs \in RecordArray
  BY SMT DEF WellFormed, Node, RecordArray
<1>2. \A j \in Slots : j < T - 1 => recs[j] \in Record
  BY Sizes, SMT DEF WellFormed, IsFull, Slots
<1>3. LowerHalf(y) = Refilled(y, T - 1, recs)
  BY DEF LowerHalf, Refilled
<1>4. y \in Node /\ T - 1 \in 0 .. MaxRecords /\ T - 1 # MaxRecords
  BY Sizes, SMT DEF WellFormed
<1> HIDE DEF recs
<1>5. /\ LowerHalf(y) \in Node
      /\ LowerHalf(y).n = T - 1 /\ LowerHalf(y).records = recs
      /\ LowerHalf(y).children = y.children
      /\ LowerHalf(y).pos = y.pos /\ LowerHalf(y).isLeaf = y.isLeaf
  BY <1>1, <1>3, <1>4, RefilledIs
<1> QED
  BY <1>2, <1>4, <1>5 DEF WellFormed, IsFull

(* The upper half of a full node, at a block that exists.                  *)
LEMMA UpperHalfIs ==
  ASSUME NEW y, WellFormed(y), IsFull(y), NEW i \in ChildSlots, NEW pos \in Positions
  PROVE  LET z == UpperHalf(y, i, pos)
         IN  /\ WellFormed(z) /\ z.n = T - 1 /\ ~IsFull(z)
             /\ z.pos = pos /\ z.isLeaf = y.isLeaf
             /\ \A j \in ChildSlots : z.children[j] \in {NoChild, y.children[MaxRecords]}
<1> DEFINE recs == [j \in Slots |-> IF j < T - 1 THEN y.records[j + T] ELSE NoRecord]
           kids == IF y.isLeaf
                   THEN InitNode.children
                   ELSE [InitNode.children EXCEPT ![i] = y.children[MaxRecords]]
<1>1. recs \in RecordArray
  BY Sizes, TAssumption, SMT DEF WellFormed, Node, Slots, MaxRecords, RecordArray
<1>2. \A j \in Slots : j < T - 1 => recs[j] \in Record
  BY Sizes, TAssumption, SMT DEF WellFormed, IsFull, Slots, MaxRecords
<1>3. /\ kids \in ChildArray
      /\ \A j \in ChildSlots : kids[j] \in {NoChild, y.children[MaxRecords]}
  BY Sizes, SMT DEF WellFormed, Node, InitNode, ChildArray
<1>4. UpperHalf(y, i, pos) = [isLeaf |-> y.isLeaf, pos |-> pos, n |-> T - 1,
                              records |-> recs, children |-> kids]
  BY DEF UpperHalf
<1>5. y.isLeaf \in BOOLEAN /\ T - 1 \in 0 .. MaxRecords /\ T - 1 # MaxRecords
  BY Sizes, SMT DEF WellFormed, Node
<1> HIDE DEF recs, kids
<1> QED
  BY <1>1, <1>2, <1>3, <1>4, <1>5, SMT DEF WellFormed, Node, IsFull, RecordArray, ChildArray

(* The parent after a split, if it had room.                               *)
LEMMA WithChildAfterIs ==
  ASSUME NEW x, WellFormed(x), ~IsFull(x), NEW i \in ChildSlots, i <= x.n,
         NEW median \in Record, NEW pos \in Positions
  PROVE  LET z == WithChildAfter(x, i, median, pos)
         IN  /\ WellFormed(z) /\ z.n = x.n + 1
             /\ z.pos = x.pos /\ z.isLeaf = x.isLeaf
             /\ \A j \in ChildSlots :
                  /\ j <= i    => z.children[j] = x.children[j]
                  /\ j = i + 1 => z.children[j] = pos
                  /\ j > i + 1 /\ j <= x.n + 1 => z.children[j] = x.children[j - 1]
                  /\ j > i + 1 /\ j > x.n + 1  => z.children[j] = x.children[j]
<1> DEFINE recs == [j \in Slots |-> CASE j < i -> x.records[j]
                                      [] j = i -> median
                                      [] j > i -> x.records[j - 1]]
           kids == [j \in ChildSlots |-> CASE j <= i    -> x.children[j]
                                           [] j = i + 1 -> pos
                                           [] j > i + 1 /\ j <= x.n + 1 -> x.children[j - 1]
                                           [] j > x.n + 1 -> x.children[j]]
<1>1. x \in Node /\ x.n \in 0 .. MaxRecords - 1 /\ i \in Nat /\ x.n + 1 \in 0 .. MaxRecords
  BY Sizes, SMT DEF WellFormed, Node, IsFull, ChildSlots
<1>2. recs \in RecordArray
  <2>1. ASSUME NEW j \in Slots PROVE recs[j] \in Record \cup {NoRecord}
    <3>1. CASE j < i
      BY <1>1, <2>1, <3>1, Sizes, SMT DEF Node, Slots
    <3>2. CASE j = i
      BY <1>1, <2>1, <3>2, Sizes, SMT DEF Node, Slots
    <3>3. CASE j > i
      BY <1>1, <2>1, <3>3, Sizes, SMT DEF Node, Slots
    <3> QED BY <1>1, <3>1, <3>2, <3>3, SMT DEF Slots
  <2> QED BY <2>1 DEF RecordArray
<1>3. ASSUME NEW j \in Slots, j < x.n + 1 PROVE recs[j] \in Record
  <2>1. CASE j < i
    BY <1>1, <1>3, <2>1, Sizes, SMT DEF WellFormed, Slots
  <2>2. CASE j = i
    BY <1>1, <1>3, <2>2, Sizes, SMT DEF WellFormed, Slots
  <2>3. CASE j > i
    BY <1>1, <1>3, <2>3, Sizes, SMT DEF WellFormed, Slots
  <2> QED BY <1>1, <2>1, <2>2, <2>3, SMT DEF Slots
<1>4. kids \in ChildArray
  <2>1. ASSUME NEW j \in ChildSlots PROVE kids[j] \in Positions \cup {NoChild}
    <3>1. CASE j <= i
      BY <1>1, <2>1, <3>1, Sizes, SMT DEF Node, ChildSlots
    <3>2. CASE j = i + 1
      BY <1>1, <2>1, <3>2, Sizes, SMT DEF Node, ChildSlots
    <3>3. CASE j > i + 1 /\ j <= x.n + 1
      BY <1>1, <2>1, <3>3, Sizes, SMT DEF Node, ChildSlots
    <3>4. CASE j > i + 1 /\ j > x.n + 1
      BY <1>1, <2>1, <3>4, Sizes, SMT DEF Node, ChildSlots
    <3> QED BY <1>1, <3>1, <3>2, <3>3, <3>4, SMT DEF ChildSlots
  <2> QED BY <2>1 DEF ChildArray
<1>5. WithChildAfter(x, i, median, pos) =
        Rebuilt(x, x.n + 1, recs, kids)
  BY DEF WithChildAfter, Rebuilt
<1> HIDE DEF recs
<1> DEFINE z == WithChildAfter(x, i, median, pos)
<1>6. /\ z \in Node /\ z.n = x.n + 1 /\ z.records = recs /\ z.children = kids
      /\ z.pos = x.pos /\ z.isLeaf = x.isLeaf
  <2> HIDE DEF kids
  <2> QED BY <1>1, <1>2, <1>4, <1>5, RebuiltIs
<1>7. ASSUME NEW j \in ChildSlots
      PROVE  /\ j <= i    => kids[j] = x.children[j]
             /\ j = i + 1 => kids[j] = pos
             /\ j > i + 1 /\ j <= x.n + 1 => kids[j] = x.children[j - 1]
             /\ j > i + 1 /\ j > x.n + 1  => kids[j] = x.children[j]
  BY <1>1, SMT DEF ChildSlots
<1> HIDE DEF kids
<1> QED
  BY <1>3, <1>6, <1>7 DEF WellFormed

(* The leaf after an insertion, if it had room.                            *)
LEMMA WithRecordAfterIs ==
  ASSUME NEW x, WellFormed(x), ~IsFull(x), NEW i \in Int, -1 <= i, i < x.n,
         NEW data \in Record
  PROVE  LET z == WithRecordAfter(x, i, data)
         IN  /\ WellFormed(z) /\ z.n = x.n + 1
             /\ z.pos = x.pos /\ z.isLeaf = x.isLeaf /\ z.children = x.children
<1> DEFINE recs == [j \in Slots |-> CASE j <= i    -> x.records[j]
                                      [] j = i + 1 -> data
                                      [] j > i + 1 -> x.records[j - 1]]
<1>1. x \in Node /\ x.n \in 0 .. MaxRecords - 1 /\ x.n + 1 \in 0 .. MaxRecords
  BY Sizes, SMT DEF WellFormed, Node, IsFull
<1>2. recs \in RecordArray
  <2>1. ASSUME NEW j \in Slots PROVE recs[j] \in Record \cup {NoRecord}
    <3>1. CASE j <= i
      BY <1>1, <2>1, <3>1, Sizes, SMT DEF Node, Slots
    <3>2. CASE j = i + 1
      BY <1>1, <2>1, <3>2, Sizes, SMT DEF Node, Slots
    <3>3. CASE j > i + 1
      BY <1>1, <2>1, <3>3, Sizes, SMT DEF Node, Slots
    <3> QED BY <1>1, <3>1, <3>2, <3>3, SMT DEF Slots
  <2> QED BY <2>1 DEF RecordArray
<1>3. ASSUME NEW j \in Slots, j < x.n + 1 PROVE recs[j] \in Record
  <2>1. CASE j <= i
    BY <1>1, <1>3, <2>1, Sizes, SMT DEF WellFormed, Slots
  <2>2. CASE j = i + 1
    BY <1>1, <1>3, <2>2, Sizes, SMT DEF WellFormed, Slots
  <2>3. CASE j > i + 1
    BY <1>1, <1>3, <2>3, Sizes, SMT DEF WellFormed, Slots
  <2> QED BY <1>1, <2>1, <2>2, <2>3, SMT DEF Slots
<1>4. WithRecordAfter(x, i, data) = Refilled(x, x.n + 1, recs)
  BY DEF WithRecordAfter, Refilled
<1> HIDE DEF recs
<1> DEFINE z == WithRecordAfter(x, i, data)
<1>5. /\ z \in Node /\ z.n = x.n + 1 /\ z.records = recs /\ z.children = x.children
      /\ z.pos = x.pos /\ z.isLeaf = x.isLeaf
  BY <1>1, <1>2, <1>4, RefilledIs
<1> QED
  BY <1>3, <1>5 DEF WellFormed

(* The root that grows the tree.                                           *)
LEMMA NewRootIs ==
  ASSUME NEW child \in Positions, NEW pos \in Positions
  PROVE  LET z == NewRoot(child, pos)
         IN  /\ WellFormed(z) /\ z.n = 0 /\ ~IsFull(z)
             /\ z.pos = pos /\ ~z.isLeaf
             /\ \A j \in ChildSlots : z.children[j] = IF j = 0 THEN child ELSE NoChild
<1> DEFINE kids == [InitNode.children EXCEPT ![0] = child]
<1>1. /\ kids \in ChildArray
      /\ \A j \in ChildSlots : kids[j] = IF j = 0 THEN child ELSE NoChild
  <2>1. InitNode.children = [j \in ChildSlots |-> NoChild]
    BY DEF InitNode
  <2> QED BY <2>1, Sizes, SMT DEF ChildArray
<1>2. InitNode.records \in RecordArray
  BY SMT DEF InitNode, RecordArray
<1>3. NewRoot(child, pos) =
        [isLeaf |-> FALSE, pos |-> pos, n |-> 0, records |-> InitNode.records,
         children |-> kids]
  BY Zenon DEF NewRoot
<1> HIDE DEF kids
<1>4. NewRoot(child, pos) \in Node
  BY <1>1, <1>2, <1>3, Sizes, SMT DEF Node, RecordArray, ChildArray
<1> QED
  BY <1>1, <1>3, <1>4, Sizes, SMT DEF WellFormed, IsFull, Slots

-----------------------------------------------------------------------------
(* The inductive invariant. *)

(* TypeOK is not inductive as it stands: that a parent has room for the    *)
(* median needs FullOnlyWhenExhausted, that a search returns a value needs *)
(* live slots to hold records, and that a stored record has a value needs  *)
(* to know the arguments of an insertion.                                  *)
AllWellFormed == (\A p \in Positions : WellFormed(nodes[p])) /\ WellFormed(cur)

IndInv ==
  /\ TypeOK
  /\ AllWellFormed
  /\ pc = "insert" => arg \in Record
  /\ FullOnlyWhenExhausted
  /\ PointersInUse
  /\ HeaderIsCurrent
  /\ pc = "absent" => h.last = 0

(* The inductive invariant holds before the file exists.                   *)
LEMMA InitHolds == Init => IndInv
<1> SUFFICES ASSUME Init PROVE IndInv
  OBVIOUS
<1>1. WellFormed(InitNode) /\ WellFormed(ZeroNode)
  BY InitNodeWellFormed
<1>2. AllWellFormed
  BY <1>1 DEF Init, AllWellFormed
<1>3. TypeOK
  BY <1>1, Sizes, SMT DEF Init, TypeOK, Header, Outcomes, WellFormed
<1>4. PointersInUse
  <2>1. PointsWithin(ZeroNode, 0) /\ PointsWithin(InitNode, 0)
    BY Sizes, SMT DEF PointsWithin, ZeroNode, InitNode, NoChild
  <2> QED BY <2>1, SMT DEF Init, PointersInUse
<1> QED
  BY <1>2, <1>3, <1>4, SMT DEF Init, IndInv, FullOnlyWhenExhausted, HeaderIsCurrent

(* A split with a block left, of a full child of a node with room.         *)
LEMMA SplitIs ==
  ASSUME NEW s \in Header, s.last + 1 \in Positions, s.root <= s.last,
         NEW x, WellFormed(x), ~IsFull(x), PointsWithin(x, s.last),
         NEW i \in ChildSlots, i <= x.n,
         NEW y, WellFormed(y), IsFull(y), PointsWithin(y, s.last),
         nodes \in [Positions -> Node],
         \A p \in Positions : WellFormed(nodes[p]) /\ PointsWithin(nodes[p], s.last),
         SplitChild(s, x, i, y)
  PROVE  /\ nodes' \in [Positions -> Node]
         /\ \A p \in Positions : WellFormed(nodes'[p]) /\ PointsWithin(nodes'[p], s.last + 1)
         /\ h' \in Header /\ h'.last = s.last + 1 /\ h'.root = s.root
         /\ hdr' = h'
         /\ WellFormed(LowerHalf(y)) /\ ~IsFull(LowerHalf(y))
         /\ PointsWithin(LowerHalf(y), s.last + 1)
         /\ WellFormed(UpperHalf(y, i, s.last + 1)) /\ ~IsFull(UpperHalf(y, i, s.last + 1))
         /\ PointsWithin(UpperHalf(y, i, s.last + 1), s.last + 1)
         /\ LET par == WithChildAfter(x, i, y.records[T - 1], s.last + 1)
            IN  WellFormed(par) /\ par.n = x.n + 1 /\ PointsWithin(par, s.last + 1)
<1> DEFINE pos == s.last + 1
           low == LowerHalf(y)
           up  == UpperHalf(y, i, pos)
           par == WithChildAfter(x, i, y.records[T - 1], pos)
<1>1. /\ s.last \in Int /\ y.records[T - 1] \in Record
      /\ x \in Node /\ y \in Node
  BY Sizes, SMT DEF Header, Positions, WellFormed, IsFull, Slots
<1>2. /\ WellFormed(low) /\ ~IsFull(low) /\ low.pos = y.pos /\ low.children = y.children
  BY LowerHalfIs
<1>3. /\ WellFormed(up) /\ ~IsFull(up) /\ up.pos = pos
      /\ \A j \in ChildSlots : up.children[j] \in {NoChild, y.children[MaxRecords]}
  BY UpperHalfIs
<1>4. /\ WellFormed(par) /\ par.pos = x.pos /\ par.n = x.n + 1
      /\ \A j \in ChildSlots :
           /\ j <= i    => par.children[j] = x.children[j]
           /\ j = i + 1 => par.children[j] = pos
           /\ j > i + 1 /\ j <= x.n + 1 => par.children[j] = x.children[j - 1]
           /\ j > i + 1 /\ j > x.n + 1  => par.children[j] = x.children[j]
  BY <1>1, WithChildAfterIs
<1> HIDE DEF low, up, par
<1>5. PointsWithin(low, pos)
  <2>1. PointsWithin(low, s.last)
    BY <1>2 DEF PointsWithin
  <2> QED BY <1>1, <1>2, <2>1, PointsWithinMore, SMT DEF WellFormed
<1>6. PointsWithin(up, pos)
  <2>1. y.children[MaxRecords] <= s.last
    BY Sizes DEF PointsWithin
  <2>2. y.children[MaxRecords] \in Int
    BY <1>1, Sizes, SMT DEF Node, Positions
  <2>3. NoChild <= pos
    BY <1>1, SMT DEF NoChild, Header, Positions
  <2> QED BY <1>1, <1>3, <2>1, <2>2, <2>3, SMT DEF PointsWithin
<1>7. PointsWithin(par, pos)
  <2>1. par.pos <= pos
    BY <1>1, <1>4, NodeInts, SMT DEF PointsWithin
  <2>2. ASSUME NEW j \in ChildSlots PROVE par.children[j] <= pos
    <3>1. /\ x.n \in 0 .. MaxRecords - 1 /\ i \in Nat
          /\ \A k \in ChildSlots : x.children[k] \in Int /\ x.children[k] <= pos
      <4>1. x.n \in 0 .. MaxRecords - 1 /\ i \in Nat
        BY <1>1, Sizes, SMT DEF Node, IsFull, ChildSlots
      <4>2. ASSUME NEW k \in ChildSlots PROVE x.children[k] \in Int /\ x.children[k] <= pos
        BY <1>1, NodeInts, SMT DEF PointsWithin
      <4> QED BY <4>1, <4>2
    <3>2. CASE j <= i
      BY <1>4, <3>1, <3>2, SMT DEF ChildSlots
    <3>3. CASE j = i + 1
      BY <1>1, <1>4, <3>1, <3>3, SMT DEF ChildSlots
    <3>4. CASE j > i + 1 /\ j <= x.n + 1
      <4>1. j - 1 \in ChildSlots
        BY <3>1, <3>4, Sizes, SMT DEF ChildSlots
      <4> QED BY <1>4, <3>1, <3>4, <4>1, SMT DEF ChildSlots
    <3>5. CASE j > i + 1 /\ j > x.n + 1
      BY <1>4, <3>1, <3>5, SMT DEF ChildSlots
    <3> QED BY <3>1, <3>2, <3>3, <3>4, <3>5, SMT DEF ChildSlots
  <2> QED BY <2>1, <2>2 DEF PointsWithin
<1>8. nodes' = [nodes EXCEPT ![x.pos] = par, ![y.pos] = low, ![pos] = up]
  BY <1>3 DEF SplitChild, par, low, up
<1>9. ASSUME NEW p \in Positions
      PROVE  nodes'[p] \in {nodes[p], par, low, up}
  BY <1>8, SMT
<1>10. ASSUME NEW p \in Positions PROVE PointsWithin(nodes[p], pos)
  <2>1. nodes[p] \in Node /\ PointsWithin(nodes[p], s.last)
    OBVIOUS
  <2>2. pos \in Int /\ s.last <= pos
    BY <1>1, SMT
  <2> QED BY <1>1, <2>1, <2>2, PointsWithinMore
<1>11. /\ nodes' \in [Positions -> Node]
       /\ \A p \in Positions : WellFormed(nodes'[p]) /\ PointsWithin(nodes'[p], pos)
  <2>1. \A p \in Positions : WellFormed(nodes'[p]) /\ PointsWithin(nodes'[p], pos)
    BY <1>2, <1>3, <1>4, <1>5, <1>6, <1>7, <1>9, <1>10
  <2>2. nodes' \in [Positions -> Node]
    BY <1>2, <1>3, <1>4, <1>8, SMT DEF WellFormed
  <2> QED BY <2>1, <2>2
<1>12. h' = [s EXCEPT !.last = pos] /\ hdr' = h'
  BY <1>3 DEF SplitChild, up
<1>13. h' \in Header /\ h'.last = pos /\ h'.root = s.root
  BY <1>12, SMT DEF Header
<1> QED
  BY <1>2, <1>3, <1>4, <1>5, <1>6, <1>7, <1>11, <1>12, <1>13 DEF low, up, par

(* What the actions have in common. *)
LEMMA IndInvFacts ==
  ASSUME IndInv
  PROVE  /\ nodes \in [Positions -> Node] /\ h \in Header /\ hdr = h
         /\ h.root \in Positions /\ h.last \in Positions /\ h.last \in Int
         /\ h.root <= h.last /\ 0 <= h.last
         /\ cur \in Node /\ WellFormed(cur) /\ PointsWithin(cur, h.last)
         /\ \A p \in Positions : WellFormed(nodes[p]) /\ PointsWithin(nodes[p], h.last)
BY NumNodesAssumption, SMT
   DEF IndInv, TypeOK, Header, Positions, AllWellFormed, PointersInUse, HeaderIsCurrent

(* A child that is not NoChild is a node. *)
LEMMA ChildIs ==
  ASSUME IndInv, NEW i \in ChildSlots, cur.children[i] # NoChild
  PROVE  /\ cur.children[i] \in Positions
         /\ Child(i) \in Node /\ WellFormed(Child(i)) /\ PointsWithin(Child(i), h.last)
<1>1. cur.children[i] \in Positions
  BY IndInvFacts, SMT DEF Node
<1> QED BY <1>1, IndInvFacts DEF Child

(* The slot below which an insertion goes on.                              *)
LEMMA InsertsBelowIs ==
  ASSUME IndInv, NEW i \in ChildSlots, InsertsBelow(i)
  PROVE  pc = "insert" /\ arg \in Record /\ ~cur.isLeaf /\ i <= cur.n
<1>1. i - 1 <= cur.n - 1 /\ cur.n \in Int
  BY IndInvFacts, NodeInts, Sizes, SMT DEF InsertsBelow, InsertScanStops, ChildSlots
<1> QED BY <1>1, SMT DEF InsertsBelow, IndInv, ChildSlots

(* The invariant when only the control state and the copy of a node change. *)
LEMMA NodesUnchanged ==
  ASSUME IndInv, UNCHANGED <<nodes, hdr, h>>,
         pc' \in {"closed", "idle", "insert", "search", "undefined"},
         ret' \in Outcomes \cup Values,
         arg' \in [key : Keys, value_offset : Values \cup {NoRecord}] \cup {NoRecord},
         cur' \in Node, WellFormed(cur'), PointsWithin(cur', h.last),
         pc' = "insert" => arg' \in Record,
         pc' = "insert" /\ IsFull(cur') => NoBlockLeft(h)
  PROVE  IndInv'
<1>1. TypeOK'
  BY DEF IndInv, TypeOK
<1>2. AllWellFormed'
  BY DEF IndInv, AllWellFormed
<1>3. PointersInUse'
  BY DEF IndInv, PointersInUse
<1>4. FullOnlyWhenExhausted' /\ HeaderIsCurrent'
  BY DEF IndInv, FullOnlyWhenExhausted, HeaderIsCurrent, NoBlockLeft
<1> QED
  BY <1>1, <1>2, <1>3, <1>4 DEF IndInv

(* The end of a call.                                                      *)
LEMMA ReturnKeeps ==
  ASSUME IndInv, NEW outcome \in Outcomes \cup Values, Return(outcome),
         UNCHANGED <<nodes, hdr, h>>
  PROVE  IndInv'
<1>1. WellFormed(InitNode) /\ InitNode \in Node
  BY InitNodeWellFormed DEF WellFormed
<1>2. PointsWithin(InitNode, h.last)
  BY IndInvFacts, Sizes, SMT DEF PointsWithin, InitNode, NoChild
<1> QED
  BY <1>1, <1>2, NodesUnchanged DEF Return

(* Undefined behaviour is entered from a sound state.                      *)
LEMMA UndefinedKeeps ==
  ASSUME IndInv, GoesUndefined
  PROVE  IndInv'
<1>1. /\ ret \in Outcomes \cup Values
      /\ arg \in [key : Keys, value_offset : Values \cup {NoRecord}] \cup {NoRecord}
  BY DEF IndInv, TypeOK
<1> QED
  BY <1>1, IndInvFacts, NodesUnchanged DEF GoesUndefined

(* The arguments of an insertion are a record, a search's are typed.       *)
LEMMA ArgumentIs ==
  ASSUME NEW k \in Keys
  PROVE  /\ \A v \in Values : Argument(k, v) \in Record
         /\ \A v \in Values \cup {NoRecord} :
              Argument(k, v) \in [key : Keys, value_offset : Values \cup {NoRecord}]
BY DEF Argument, Record

-----------------------------------------------------------------------------
(* One lemma for each action that writes to the file. *)

(* Creating the tree.                                                      *)
LEMMA OpenCreateKeeps == ASSUME IndInv, OpenCreate PROVE IndInv'
<1>1. WellFormed(InitNode) /\ InitNode \in Node
  BY InitNodeWellFormed DEF WellFormed
<1>2. h' = [root |-> 0, last |-> 0] /\ h' \in Header /\ hdr' = h'
  BY Sizes, SMT DEF OpenCreate, Header
<1>3. PointsWithin(InitNode, 0)
  BY Sizes, SMT DEF PointsWithin, InitNode, NoChild
<1>4. h.last = 0 /\ nodes' = [nodes EXCEPT ![0] = InitNode]
  BY DEF OpenCreate, IndInv
<1>5. /\ nodes' \in [Positions -> Node]
      /\ \A p \in Positions : WellFormed(nodes'[p]) /\ PointsWithin(nodes'[p], 0)
  BY <1>1, <1>3, <1>4, IndInvFacts, Sizes, SMT
<1>6. TypeOK'
  BY <1>2, <1>5 DEF OpenCreate, IndInv, TypeOK
<1>7. AllWellFormed' /\ PointersInUse'
  BY <1>2, <1>4, <1>5, IndInvFacts, SMT DEF OpenCreate, AllWellFormed, PointersInUse
<1> QED
  BY <1>2, <1>6, <1>7, SMT
  DEF OpenCreate, IndInv, FullOnlyWhenExhausted, HeaderIsCurrent

(* The growth of the root, with the split below it.                        *)
LEMMA InsertGrowKeeps ==
  ASSUME IndInv, NEW k \in Keys, NEW v \in Values, InsertGrow(k, v)
  PROVE  IndInv'
<1> DEFINE old == nodes[h.root]
           new == NewRoot(old.pos, h.last + 1)
           up  == [root |-> new.pos, last |-> new.pos]
<1>1. /\ IsFull(old) /\ WellFormed(old) /\ old \in Node
      /\ old.pos \in Positions /\ PointsWithin(old, h.last)
  BY IndInvFacts, SMT DEF InsertGrow, WellFormed, Node
<1>2. h.last + 1 \in Positions /\ h.last \in Int
  BY IndInvFacts, NumNodesAssumption, SMT DEF InsertGrow, NoBlockLeft, Positions
<1>3. /\ WellFormed(new) /\ new.n = 0 /\ ~IsFull(new) /\ new.pos = h.last + 1 /\ new \in Node
      /\ \A j \in ChildSlots : new.children[j] = IF j = 0 THEN old.pos ELSE NoChild
  BY <1>1, <1>2, NewRootIs DEF WellFormed
<1>4. /\ up \in Header /\ up.root = h.last + 1 /\ up.last = h.last + 1
      /\ up.last + 1 \in Positions
  BY <1>2, <1>3, NumNodesAssumption, SMT DEF InsertGrow, NoBlockLeft, Positions, Header
<1>5. SplitChild(up, new, 0, old)
  BY DEF InsertGrow
<1>6. cur' = WithChildAfter(new, 0, old.records[T - 1], up.last + 1)
  BY DEF InsertGrow
<1> HIDE DEF new, up, old
<1>7. PointsWithin(new, up.last)
  <2>1. old.pos <= h.last /\ old.pos \in Int
    BY <1>1, NodeInts DEF PointsWithin
  <2> QED BY <1>2, <1>3, <1>4, <2>1, IndInvFacts, SMT DEF PointsWithin, NoChild
<1>8. PointsWithin(old, up.last)
  BY <1>1, <1>2, <1>4, PointsWithinMore, SMT
<1>9. \A p \in Positions : WellFormed(nodes[p]) /\ PointsWithin(nodes[p], up.last)
  <2>1. ASSUME NEW p \in Positions PROVE WellFormed(nodes[p]) /\ PointsWithin(nodes[p], up.last)
    <3>1. nodes[p] \in Node /\ WellFormed(nodes[p]) /\ PointsWithin(nodes[p], h.last)
      BY IndInvFacts
    <3> QED BY <1>2, <1>4, <3>1, PointsWithinMore, SMT
  <2> QED BY <2>1
<1>10. 0 \in ChildSlots /\ 0 <= new.n /\ up.root <= up.last
  BY <1>2, <1>3, <1>4, Sizes, SMT
<1> DEFINE par == WithChildAfter(new, 0, old.records[T - 1], up.last + 1)
<1>11. /\ nodes' \in [Positions -> Node]
       /\ \A p \in Positions : WellFormed(nodes'[p]) /\ PointsWithin(nodes'[p], up.last + 1)
       /\ h' \in Header /\ h'.last = up.last + 1 /\ h'.root = up.root /\ hdr' = h'
       /\ WellFormed(par) /\ par.n = 1 /\ PointsWithin(par, up.last + 1)
  BY <1>1, <1>3, <1>4, <1>5, <1>7, <1>8, <1>9, <1>10, IndInvFacts, SplitIs
<1> HIDE DEF par
<1>12. /\ WellFormed(cur') /\ cur' \in Node /\ ~IsFull(cur')
       /\ PointsWithin(cur', h'.last)
  BY <1>6, <1>11, Sizes, SMT DEF par, WellFormed, IsFull
<1>13. TypeOK'
  BY <1>11, <1>12, ArgumentIs DEF InsertGrow, IndInv, TypeOK
<1>14. AllWellFormed' /\ PointersInUse'
  BY <1>2, <1>4, <1>11, <1>12, SMT DEF AllWellFormed, PointersInUse
<1> QED
  BY <1>11, <1>12, <1>13, <1>14, ArgumentIs
  DEF InsertGrow, IndInv, FullOnlyWhenExhausted, HeaderIsCurrent

(* The growth of the root into the last block, without a split.            *)
LEMMA InsertGrowLastKeeps ==
  ASSUME IndInv, NEW k \in Keys, NEW v \in Values, InsertGrowLast(k, v)
  PROVE  IndInv'
<1> DEFINE old == nodes[h.root]
           new == NewRoot(old.pos, h.last + 1)
<1>1. old \in Node /\ old.pos \in Positions /\ PointsWithin(old, h.last)
  BY IndInvFacts, SMT DEF Node
<1>2. h.last + 1 \in Positions /\ h.last \in Int
  BY IndInvFacts, NumNodesAssumption, SMT DEF InsertGrowLast, NoBlockLeft, Positions
<1>3. /\ WellFormed(new) /\ ~IsFull(new) /\ new.pos = h.last + 1 /\ new \in Node
      /\ \A j \in ChildSlots : new.children[j] = IF j = 0 THEN old.pos ELSE NoChild
  BY <1>1, <1>2, NewRootIs DEF WellFormed
<1>4. cur' = new /\ h' = [root |-> new.pos, last |-> new.pos] /\ hdr' = h'
  BY DEF InsertGrowLast
<1>5. old.pos <= h.last /\ old.pos \in Int
  BY <1>1, NodeInts DEF PointsWithin
<1> HIDE DEF new, old
<1>6. h' \in Header /\ h'.root = h.last + 1 /\ h'.last = h.last + 1
  BY <1>2, <1>3, <1>4, SMT DEF Header
<1>7. PointsWithin(cur', h'.last)
  BY <1>2, <1>3, <1>4, <1>5, <1>6, IndInvFacts, SMT DEF PointsWithin, NoChild
<1>8. ASSUME NEW p \in Positions PROVE PointsWithin(nodes[p], h'.last)
  <2>1. nodes[p] \in Node /\ PointsWithin(nodes[p], h.last)
    BY IndInvFacts
  <2>2. h.last + 1 \in Int /\ h.last <= h.last + 1
    BY <1>2, SMT
  <2> QED BY <1>2, <1>6, <2>1, <2>2, PointsWithinMore
<1>9. TypeOK'
  BY <1>3, <1>4, <1>6, ArgumentIs DEF InsertGrowLast, IndInv, TypeOK
<1>10. AllWellFormed'
  BY <1>3, <1>4 DEF InsertGrowLast, IndInv, AllWellFormed
<1>11. PointersInUse'
  BY <1>2, <1>6, <1>7, <1>8, SMT DEF InsertGrowLast, PointersInUse
<1> QED
  BY <1>3, <1>4, <1>9, <1>10, <1>11, ArgumentIs
  DEF InsertGrowLast, IndInv, FullOnlyWhenExhausted, HeaderIsCurrent

(* The split of a full child and the descent into a half of it.            *)
LEMMA InsertSplitKeeps ==
  ASSUME IndInv, NEW i \in ChildSlots, InsertSplit(i)
  PROVE  IndInv'
<1> DEFINE y == Child(i)
<1>1. pc = "insert" /\ arg \in Record /\ i <= cur.n
  BY InsertsBelowIs DEF InsertSplit
<1>2. y \in Node /\ WellFormed(y) /\ PointsWithin(y, h.last) /\ IsFull(y)
  BY ChildIs DEF InsertSplit
<1>3. ~IsFull(cur)
  BY <1>1 DEF InsertSplit, IndInv, FullOnlyWhenExhausted
<1>4. h.last + 1 \in Positions
  BY IndInvFacts, NumNodesAssumption, SMT DEF InsertSplit, NoBlockLeft, Positions
<1>5. SplitChild(h, cur, i, y) /\ cur' \in {LowerHalf(y), UpperHalf(y, i, h.last + 1)}
  BY DEF InsertSplit
<1> HIDE DEF y
<1>6. /\ nodes' \in [Positions -> Node]
      /\ \A p \in Positions : WellFormed(nodes'[p]) /\ PointsWithin(nodes'[p], h.last + 1)
      /\ h' \in Header /\ h'.last = h.last + 1 /\ h'.root = h.root /\ hdr' = h'
      /\ WellFormed(cur') /\ ~IsFull(cur') /\ PointsWithin(cur', h.last + 1)
  BY <1>1, <1>2, <1>3, <1>4, <1>5, IndInvFacts, SplitIs
<1>7. TypeOK'
  BY <1>6 DEF InsertSplit, IndInv, TypeOK, WellFormed
<1>8. AllWellFormed'
  BY <1>6 DEF AllWellFormed
<1>9. h.root <= h.last + 1
  BY IndInvFacts, SMT DEF Positions
<1>10. PointersInUse'
  BY <1>6, <1>9 DEF PointersInUse
<1> QED
  BY <1>1, <1>6, <1>7, <1>8, <1>10
  DEF InsertSplit, IndInv, FullOnlyWhenExhausted, HeaderIsCurrent

(* The leaf with the new record is written back.                           *)
LEMMA InsertStoreKeeps ==
  ASSUME IndInv, NEW i \in -1 .. MaxRecords - 1, InsertStore(i)
  PROVE  IndInv'
<1> DEFINE new == WithRecordAfter(cur, i, arg)
<1>1. pc = "insert" /\ arg \in Record /\ ~IsFull(cur)
  BY DEF InsertStore, InsertsAfter, IndInv
<1>2. i \in Int /\ -1 <= i /\ i < cur.n
  BY IndInvFacts, NodeInts, Sizes, SMT DEF InsertStore, InsertsAfter, InsertScanStops
<1>3. /\ WellFormed(new) /\ new.pos = cur.pos /\ new.children = cur.children
  BY <1>1, <1>2, IndInvFacts, WithRecordAfterIs
<1>4. nodes' = [nodes EXCEPT ![cur.pos] = new] /\ UNCHANGED <<hdr, h>>
  BY DEF InsertStore
<1> HIDE DEF new
<1>5. PointsWithin(new, h.last)
  BY <1>3, IndInvFacts DEF PointsWithin
<1>6. /\ nodes' \in [Positions -> Node]
      /\ \A p \in Positions : WellFormed(nodes'[p]) /\ PointsWithin(nodes'[p], h.last)
  <2>1. ASSUME NEW p \in Positions PROVE nodes'[p] \in {nodes[p], new}
    BY <1>4, IndInvFacts, SMT
  <2>2. new \in Node /\ nodes \in [Positions -> Node]
    BY <1>3, IndInvFacts DEF WellFormed
  <2>3. nodes' \in [Positions -> Node]
    BY <1>4, <2>2, Zenon
  <2> QED BY <1>3, <1>5, <2>1, <2>3, IndInvFacts
<1>7. pc' = "idle" /\ cur' = InitNode /\ arg' = NoRecord /\ ret' = "done"
  BY DEF InsertStore, Return
<1>8. WellFormed(InitNode) /\ InitNode \in Node /\ PointsWithin(InitNode, h.last)
  BY IndInvFacts, InitNodeWellFormed, Sizes, SMT DEF WellFormed, PointsWithin, InitNode, NoChild
<1>9. TypeOK'
  BY <1>4, <1>6, <1>7, <1>8 DEF IndInv, TypeOK, Outcomes
<1>10. AllWellFormed' /\ PointersInUse'
  BY <1>4, <1>6, <1>7, <1>8 DEF IndInv, AllWellFormed, PointersInUse
<1> QED
  BY <1>4, <1>7, <1>9, <1>10 DEF IndInv, FullOnlyWhenExhausted, HeaderIsCurrent

-----------------------------------------------------------------------------
(* The steps that leave the file alone. *)

(* Closing, and opening the tree again from its header.                    *)
LEMMA OpenCloseKeeps ==
  ASSUME IndInv, OpenExisting \/ Close
  PROVE  IndInv'
<1>1. UNCHANGED <<nodes, hdr, h, cur, arg, ret>> /\ pc' \in {"idle", "closed"}
  BY DEF OpenExisting, Close, IndInv, HeaderIsCurrent
<1>2. /\ ret \in Outcomes \cup Values
      /\ arg \in [key : Keys, value_offset : Values \cup {NoRecord}] \cup {NoRecord}
  BY DEF IndInv, TypeOK
<1> QED
  BY <1>1, <1>2, IndInvFacts, NodesUnchanged

(* An insertion or a search begins at the root.                            *)
LEMMA BeginKeeps ==
  ASSUME IndInv, NEW k \in Keys,
         \/ SearchBegin(k)
         \/ \E v \in Values : InsertBegin(k, v)
  PROVE  IndInv'
<1> DEFINE root == nodes[h.root]
<1>1. /\ root \in Node /\ WellFormed(root) /\ PointsWithin(root, h.last)
      /\ ret \in Outcomes \cup Values
  BY IndInvFacts DEF IndInv, TypeOK
<1>2. CASE SearchBegin(k)
  BY <1>1, <1>2, ArgumentIs, NodesUnchanged DEF SearchBegin
<1>3. CASE \E v \in Values : InsertBegin(k, v)
  <2>1. PICK v \in Values : InsertBegin(k, v)
    BY <1>3
  <2> QED BY <1>1, <2>1, ArgumentIs, NodesUnchanged DEF InsertBegin
<1> QED
  BY <1>2, <1>3

(* A full root and no block left.                                          *)
LEMMA RefusedKeeps == ASSUME IndInv, InsertRefused PROVE IndInv'
BY ReturnKeeps DEF InsertRefused, Outcomes

(* A descent into a child, split or not, that writes nothing.              *)
LEMMA DescendKeeps ==
  ASSUME IndInv, NEW i \in ChildSlots,
         InsertDescend(i) \/ InsertNoSplit(i) \/ SearchDescend(i)
  PROVE  IndInv'
<1>1. /\ UNCHANGED <<nodes, hdr, h, pc, arg, ret>> /\ cur' = Child(i)
      /\ cur.children[i] # NoChild
      /\ pc \in {"insert", "search"}
  BY DEF InsertDescend, InsertNoSplit, SearchDescend, InsertsBelow, SearchesAt
<1>2. /\ ret \in Outcomes \cup Values
      /\ arg \in [key : Keys, value_offset : Values \cup {NoRecord}] \cup {NoRecord}
  BY DEF IndInv, TypeOK
<1>3. pc = "insert" => arg \in Record
  BY DEF IndInv
<1>4. pc = "insert" /\ IsFull(Child(i)) => NoBlockLeft(h)
  BY DEF InsertDescend, InsertNoSplit, SearchDescend, SearchesAt
<1> QED
  BY <1>1, <1>2, <1>3, <1>4, ChildIs, NodesUnchanged

(* The end of a search.                                                    *)
LEMMA SearchEndKeeps ==
  ASSUME IndInv, NEW i \in ChildSlots, SearchFound(i) \/ SearchMissing(i)
  PROVE  IndInv'
<1>1. CASE SearchFound(i)
  <2>1. i \in Slots /\ i < cur.n
    BY <1>1, IndInvFacts, Sizes, SMT DEF SearchFound, HasKeyAt, ChildSlots, Slots, Node
  <2>2. cur.records[i].value_offset \in Values
    BY <2>1, IndInvFacts DEF WellFormed, Record
  <2> QED BY <1>1, <2>2, ReturnKeeps DEF SearchFound
<1>2. CASE SearchMissing(i)
  BY <1>2, ReturnKeeps DEF SearchMissing, Outcomes
<1> QED BY <1>1, <1>2

-----------------------------------------------------------------------------
(* Every step keeps the inductive invariant.                               *)
LEMMA NextKeeps == IndInv /\ [Next]_vars => IndInv'
<1> SUFFICES ASSUME IndInv, [Next]_vars PROVE IndInv'
  OBVIOUS
<1>1. CASE Call
  BY <1>1, OpenCreateKeeps, OpenCloseKeeps, RefusedKeeps, BeginKeeps, InsertGrowKeeps,
     InsertGrowLastKeeps DEF Call
<1>2. CASE InsertStep
  <2>1. ASSUME NEW i \in ChildSlots,
               \/ InsertDescend(i) \/ InsertSplit(i) \/ InsertNoSplit(i)
               \/ InsertStrays(i) \/ InsertReadsHeader(i)
        PROVE  IndInv'
    BY <2>1, DescendKeeps, InsertSplitKeeps, UndefinedKeeps DEF InsertStrays, InsertReadsHeader
  <2>2. ASSUME NEW i \in -1 .. MaxRecords - 1,
               InsertDuplicate(i) \/ InsertStore(i) \/ InsertOverflows(i)
        PROVE  IndInv'
    <3>1. CASE InsertDuplicate(i)
      BY <3>1, ReturnKeeps DEF InsertDuplicate, Outcomes
    <3> QED BY <2>2, <3>1, InsertStoreKeeps, UndefinedKeeps DEF InsertOverflows
  <2> QED BY <1>2, <2>1, <2>2 DEF InsertStep
<1>3. CASE SearchStep
  BY <1>3, DescendKeeps, SearchEndKeeps, UndefinedKeeps DEF SearchStep, SearchReadsHeader
<1>4. CASE UNCHANGED vars
  BY <1>4, Zenon DEF vars, IndInv, TypeOK, AllWellFormed, FullOnlyWhenExhausted, NoBlockLeft,
                     PointersInUse, PointsWithin, HeaderIsCurrent
<1> QED
  BY <1>1, <1>2, <1>3, <1>4 DEF Next

(* So it holds in every state the program reaches.                         *)
LEMMA Invariance == Spec => []IndInv
BY InitHolds, NextKeeps, PTL DEF Spec

(* Every state of the program is of its type, whatever the depth of the    *)
(* tree and the order of the calls.                                        *)
THEOREM TypeCorrect == Spec => []TypeOK
BY Invariance, PTL DEF IndInv

(* The header block and the handle agree after every step of every call    *)
(* (btree_split_child and btree_insert call update_btree_header).          *)
THEOREM HeaderStaysCurrent == Spec => []HeaderIsCurrent
BY Invariance, PTL DEF IndInv

(* No pointer on file or in memory names a block that was not handed out.  *)
THEOREM PointersStayInUse == Spec => []PointersInUse
BY Invariance, PTL DEF IndInv

(* A split happens before the descent enters a full node, unless no block  *)
(* is left.                                                                *)
THEOREM SplitBeforeDescent == Spec => []FullOnlyWhenExhausted
BY Invariance, PTL DEF IndInv

-----------------------------------------------------------------------------
(* Blocks are handed out in order. *)

(* A split writes no block beyond the one it takes.                        *)
LEMMA SplitWritesInUse ==
  ASSUME IndInv, NEW s \in Header, s.last + 1 \in Positions,
         NEW x, x.pos \in Positions, x.pos <= s.last,
         NEW y, y.pos \in Positions, y.pos <= s.last,
         NEW i, SplitChild(s, x, i, y)
  PROVE  /\ h'.last = s.last + 1
         /\ \A p \in Positions : p > h'.last => nodes'[p] = nodes[p]
<1> DEFINE up  == UpperHalf(y, i, s.last + 1)
           par == WithChildAfter(x, i, y.records[T - 1], up.pos)
           low == LowerHalf(y)
<1>1. up.pos = s.last + 1
  BY DEF UpperHalf
<1>2. /\ nodes' = [nodes EXCEPT ![x.pos] = par, ![y.pos] = low, ![up.pos] = up]
      /\ h' = [s EXCEPT !.last = up.pos]
  BY DEF SplitChild
<1> HIDE DEF up, par, low
<1>3. h'.last = s.last + 1
  BY <1>1, <1>2, SMT DEF Header
<1>4. s.last \in Int /\ nodes \in [Positions -> Node]
  BY IndInvFacts, SMT DEF Header, Positions
<1>5. ASSUME NEW p \in Positions, p > h'.last PROVE nodes'[p] = nodes[p]
  <2>1. p # x.pos /\ p # y.pos /\ p # up.pos
    BY <1>1, <1>3, <1>4, <1>5, SMT DEF Positions
  <2> QED BY <1>2, <1>4, <2>1, SMT
<1> QED BY <1>3, <1>5

(* No step writes a block beyond pos_last_node.                            *)
LEMMA BlocksStep ==
  ASSUME IndInv, [Next]_vars, Created
  PROVE  /\ h.last <= h'.last
         /\ \A p \in Positions : p > h'.last => nodes'[p] = nodes[p]
<1>1. CASE UNCHANGED <<nodes, h>>
  BY <1>1, IndInvFacts, SMT DEF Positions
<1>2. ASSUME NEW k \in Keys, NEW v \in Values, InsertGrow(k, v)
      PROVE  /\ h.last <= h'.last
             /\ \A p \in Positions : p > h'.last => nodes'[p] = nodes[p]
  <2> DEFINE old == nodes[h.root]
             new == NewRoot(old.pos, h.last + 1)
             up  == [root |-> new.pos, last |-> new.pos]
  <2>1. /\ SplitChild(up, new, 0, old) /\ new.pos = h.last + 1
        /\ ~NoBlockLeft(h) /\ ~NoBlockLeft(up)
    BY <1>2 DEF InsertGrow, NewRoot
  <2>2. old \in Node /\ PointsWithin(old, h.last) /\ h.last \in Positions
    BY IndInvFacts
  <2>3. old.pos \in Positions /\ old.pos <= h.last
    BY <2>2, SMT DEF Node, PointsWithin
  <2> HIDE DEF new, old
  <2>4. /\ up \in Header /\ up.last = h.last + 1 /\ up.last + 1 \in Positions
        /\ new.pos \in Positions /\ new.pos <= up.last /\ old.pos <= up.last
    BY <2>1, <2>2, <2>3, NumNodesAssumption, SMT DEF Header, Positions, NoBlockLeft
  <2> HIDE DEF up
  <2>5. /\ h'.last = up.last + 1
        /\ \A p \in Positions : p > h'.last => nodes'[p] = nodes[p]
    BY <2>1, <2>3, <2>4, SplitWritesInUse
  <2> QED BY <2>2, <2>4, <2>5, SMT DEF Positions
<1>3. ASSUME NEW k \in Keys, NEW v \in Values, InsertGrowLast(k, v)
      PROVE  /\ h.last <= h'.last
             /\ \A p \in Positions : p > h'.last => nodes'[p] = nodes[p]
  <2>1. nodes' = nodes /\ h'.last = h.last + 1
    BY <1>3, SMT DEF InsertGrowLast, NewRoot
  <2> QED BY <2>1, IndInvFacts, SMT
<1>4. ASSUME NEW i \in ChildSlots, InsertSplit(i)
      PROVE  /\ h.last <= h'.last
             /\ \A p \in Positions : p > h'.last => nodes'[p] = nodes[p]
  <2>1. /\ SplitChild(h, cur, i, Child(i)) /\ ~NoBlockLeft(h)
        /\ Child(i) \in Node /\ PointsWithin(Child(i), h.last)
    BY <1>4, ChildIs DEF InsertSplit
  <2>2. /\ Child(i).pos \in Positions /\ Child(i).pos <= h.last
        /\ cur.pos \in Positions /\ cur.pos <= h.last
    BY <2>1, IndInvFacts, SMT DEF Node, PointsWithin
  <2>3. h \in Header /\ h.last + 1 \in Positions
    BY <2>1, IndInvFacts, NumNodesAssumption, SMT DEF NoBlockLeft, Positions
  <2>4. /\ h'.last = h.last + 1
        /\ \A p \in Positions : p > h'.last => nodes'[p] = nodes[p]
    BY <2>1, <2>2, <2>3, SplitWritesInUse
  <2> QED BY <2>4, IndInvFacts, SMT
<1>5. ASSUME NEW i \in -1 .. MaxRecords - 1, InsertStore(i)
      PROVE  /\ h.last <= h'.last
             /\ \A p \in Positions : p > h'.last => nodes'[p] = nodes[p]
  <2>1. nodes' = [nodes EXCEPT ![cur.pos] = WithRecordAfter(cur, i, arg)] /\ h' = h
    BY <1>5 DEF InsertStore
  <2>2. cur.pos \in Int /\ cur.pos <= h.last
    BY IndInvFacts, NodeInts DEF PointsWithin
  <2> QED BY <2>1, <2>2, IndInvFacts, SMT DEF Positions
<1>6. CASE OpenExisting
  BY <1>1, <1>6, IndInvFacts DEF OpenExisting
<1>7. CASE OpenCreate
  BY <1>7 DEF OpenCreate, Created
<1> QED
  BY <1>1, <1>2, <1>3, <1>4, <1>5, <1>6, <1>7
  DEF Next, Call, InsertStep, SearchStep, vars, Close, InsertRefused, SearchBegin, InsertBegin,
      InsertDescend, InsertNoSplit, InsertStrays, InsertReadsHeader, InsertDuplicate,
      InsertOverflows, SearchFound, SearchMissing, SearchDescend, SearchReadsHeader, GoesUndefined

(* A block is written first when it is handed out, for every T and every   *)
(* number of blocks.                                                       *)
THEOREM BlocksInOrder == Spec => BlocksHandedOutInOrder
<1>1. IndInv /\ [Next]_vars
        => [Created => /\ h.last <= h'.last
                       /\ \A p \in Positions : p > h'.last => nodes'[p] = nodes[p]]_vars
  BY BlocksStep
<1> QED
  BY <1>1, Invariance, PTL DEF Spec, BlocksHandedOutInOrder
=============================================================================
