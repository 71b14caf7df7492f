------------------------- MODULE BTreeShallowProofs -------------------------
(***************************************************************************)
(* Trees of max_depth 0 and 1, the depth of the repository's test          *)
(* programs: get_num_nodes reserves 1 or 1 + 2*T blocks.  The root is      *)
(* full exactly when every block is in use, so that no inner node but the  *)
(* root exists, none is ever split, and no split is refused.               *)
(***************************************************************************)
EXTENDS BTreeProofs

Shallow == NumNodes \in {1, 2 * T + 1}

RootIsLeaf ==
  /\ h.root = 0 /\ h.last = 0
  /\ nodes[0].isLeaf /\ nodes[0].pos = 0

(* Slot j of the root block 1 is the only one that names block p.          *)
OnlySlot(p, j) ==
  /\ j <= nodes[1].n /\ nodes[1].children[j] = p
  /\ \A j2 \in ChildSlots : j2 <= nodes[1].n /\ nodes[1].children[j2] = p => j2 = j

RootIsInner ==
  /\ NumNodes = 2 * T + 1
  /\ h.root = 1 /\ h.last >= 2
  /\ ~nodes[1].isLeaf /\ nodes[1].pos = 1 /\ nodes[1].n = h.last - 1
  /\ \A p \in InUse : p # 1 => /\ nodes[p].isLeaf /\ nodes[p].pos = p
                              /\ \E j \in ChildSlots : OnlySlot(p, j)
  /\ \A j \in ChildSlots : j <= nodes[1].n => nodes[1].children[j] \in InUse \ {1}

ShallowInv ==
  /\ Created => RootIsLeaf \/ RootIsInner
  /\ CopyIsCurrent
  /\ pc \in {"insert", "search"} => cur.pos \in InUse
  /\ pc = "insert" => ~IsFull(cur)
  /\ Defined

-----------------------------------------------------------------------------
(* With an inner root, a block is left exactly while the root has room.    *)
LEMMA RoomIsBlocksLeft ==
  ASSUME IndInv, RootIsInner
  PROVE  NoBlockLeft(h) <=> IsFull(nodes[1])
<1>1. h.last \in Int /\ nodes[1].n = h.last - 1 /\ NumNodes = 2 * T + 1
  BY IndInvFacts DEF RootIsInner
<1> QED BY <1>1, TAssumption, SMT DEF NoBlockLeft, IsFull, MaxRecords

(* The copy of an inner node is the root's, and its children are leaves.   *)
LEMMA InnerCopyIsRoot ==
  ASSUME IndInv, ShallowInv, pc \in {"insert", "search"}, ~cur.isLeaf
  PROVE  RootIsInner /\ cur = nodes[1] /\ cur.pos = 1
<1>1. RootIsLeaf \/ RootIsInner
  BY DEF ShallowInv, Created
<1>2. cur = nodes[cur.pos] /\ cur.pos \in InUse /\ h.last \in Int
  BY IndInvFacts DEF ShallowInv, CopyIsCurrent
<1>3. CASE RootIsLeaf
  <2>1. cur.pos = 0
    BY <1>2, <1>3, SMT DEF RootIsLeaf, InUse
  <2> QED BY <1>2, <1>3, <2>1 DEF RootIsLeaf
<1>4. CASE RootIsInner
  BY <1>2, <1>4 DEF RootIsInner
<1> QED BY <1>1, <1>3, <1>4

(* The children of an inner copy are leaves in use.                        *)
LEMMA ChildIsLeaf ==
  ASSUME IndInv, ShallowInv, pc \in {"insert", "search"}, ~cur.isLeaf,
         NEW i \in ChildSlots, i <= cur.n
  PROVE  /\ cur.children[i] \in InUse \ {1} /\ cur.children[i] # NoChild
         /\ Child(i) = nodes[cur.children[i]]
         /\ Child(i).isLeaf /\ Child(i).pos = cur.children[i]
<1>1. RootIsInner /\ cur = nodes[1]
  BY InnerCopyIsRoot
<1>2. cur.children[i] \in InUse \ {1}
  BY <1>1 DEF RootIsInner
<1>3. cur.children[i] # NoChild
  BY <1>2, SMT DEF InUse, NoChild
<1> QED BY <1>1, <1>2, <1>3 DEF Child, RootIsInner

(* A descent that reaches a leaf with room, or the search of any leaf.     *)
LEMMA ShallowDescend ==
  ASSUME IndInv, ShallowInv, NEW i \in ChildSlots, i <= cur.n,
         pc \in {"insert", "search"}, ~cur.isLeaf,
         UNCHANGED <<nodes, h, pc>>, cur' = Child(i),
         pc = "insert" => ~IsFull(Child(i))
  PROVE  ShallowInv'
<1>1. /\ cur' = nodes[cur'.pos] /\ cur'.pos \in InUse
  BY ChildIsLeaf
<1>2. (Created => RootIsLeaf \/ RootIsInner)'
  BY Zenon DEF ShallowInv, Created, RootIsLeaf, RootIsInner, InUse, OnlySlot
<1> QED
  BY <1>1, <1>2 DEF ShallowInv, CopyIsCurrent, InUse, Defined

-----------------------------------------------------------------------------
(* What a split writes where. *)
LEMMA SplitExact ==
  ASSUME nodes \in [Positions -> Node], NEW s \in Header, s.last + 1 \in Positions,
         NEW x, x.pos \in Positions, NEW y, y.pos \in Positions,
         x.pos # y.pos, x.pos # s.last + 1, y.pos # s.last + 1,
         NEW i, SplitChild(s, x, i, y)
  PROVE  /\ nodes'[x.pos] = WithChildAfter(x, i, y.records[T - 1], s.last + 1)
         /\ nodes'[y.pos] = LowerHalf(y)
         /\ nodes'[s.last + 1] = UpperHalf(y, i, s.last + 1)
         /\ \A p \in Positions : p \notin {x.pos, y.pos, s.last + 1} => nodes'[p] = nodes[p]
         /\ h'.last = s.last + 1 /\ h'.root = s.root
<1> DEFINE pos == s.last + 1
           up  == UpperHalf(y, i, pos)
           par == WithChildAfter(x, i, y.records[T - 1], up.pos)
           low == LowerHalf(y)
<1>1. up.pos = pos
  BY DEF UpperHalf
<1>2. /\ nodes' = [nodes EXCEPT ![x.pos] = par, ![y.pos] = low, ![up.pos] = up]
      /\ h' = [s EXCEPT !.last = up.pos]
  BY DEF SplitChild
<1>3. par = WithChildAfter(x, i, y.records[T - 1], pos)
  BY <1>1
<1> HIDE DEF up, par, low
<1>4. /\ nodes'[x.pos] = par /\ nodes'[y.pos] = low /\ nodes'[pos] = up
      /\ \A p \in Positions : p \notin {x.pos, y.pos, pos} => nodes'[p] = nodes[p]
  BY <1>1, <1>2, SMT
<1>5. h'.last = pos /\ h'.root = s.root
  BY <1>1, <1>2, SMT DEF Header
<1> QED
  BY <1>3, <1>4, <1>5 DEF up, low

(* The split of a leaf below the root.                                     *)
LEMMA ShallowSplit ==
  ASSUME IndInv, ShallowInv, NEW i \in ChildSlots, InsertSplit(i)
  PROVE  ShallowInv'
<1> DEFINE y == Child(i)
           q == cur.children[i]
           z == h.last + 1
           par == WithChildAfter(cur, i, y.records[T - 1], z)
<1>1. pc = "insert" /\ ~cur.isLeaf /\ i <= cur.n
  BY InsertsBelowIs DEF InsertSplit
<1>2. /\ RootIsInner /\ cur = nodes[1] /\ cur.pos = 1
      /\ q \in InUse \ {1} /\ y.isLeaf /\ y.pos = q
  BY <1>1, InnerCopyIsRoot, ChildIsLeaf
<1>3. /\ h.last \in Positions /\ z \in Positions /\ h.last >= 2 /\ 1 \in Positions /\ q \in Positions
      /\ q # 1 /\ q # z /\ z # 1
  BY <1>2, IndInvFacts, NumNodesAssumption, SMT
  DEF InsertSplit, NoBlockLeft, Positions, InUse, RootIsInner
<1>4. WellFormed(y) /\ IsFull(y) /\ WellFormed(cur) /\ ~IsFull(cur) /\ cur \in Node
  BY <1>1, ChildIs, IndInvFacts DEF InsertSplit, ShallowInv
<1>5. /\ SplitChild(h, cur, i, y) /\ pc' = "insert"
      /\ cur' \in {LowerHalf(y), UpperHalf(y, i, z)}
  BY <1>1 DEF InsertSplit
<1>6. /\ LowerHalf(y).isLeaf /\ LowerHalf(y).pos = q /\ ~IsFull(LowerHalf(y))
      /\ UpperHalf(y, i, z).isLeaf /\ UpperHalf(y, i, z).pos = z /\ ~IsFull(UpperHalf(y, i, z))
  BY <1>2, <1>3, <1>4, LowerHalfIs, UpperHalfIs
<1>7. y.records[T - 1] \in Record
  BY <1>4, Sizes, SMT DEF WellFormed, IsFull
<1>8. /\ par.n = cur.n + 1 /\ par.pos = 1 /\ ~par.isLeaf
      /\ \A j \in ChildSlots :
           /\ j <= i    => par.children[j] = cur.children[j]
           /\ j = i + 1 => par.children[j] = z
           /\ j > i + 1 /\ j <= cur.n + 1 => par.children[j] = cur.children[j - 1]
  BY <1>1, <1>2, <1>3, <1>4, <1>7, WithChildAfterIs
<1> HIDE DEF y, par
<1>9. /\ nodes'[1] = par /\ nodes'[q] = LowerHalf(y) /\ nodes'[z] = UpperHalf(y, i, z)
      /\ \A p \in Positions : p \notin {1, q, z} => nodes'[p] = nodes[p]
      /\ h'.last = z /\ h'.root = h.root
  BY <1>2, <1>3, <1>5, IndInvFacts, SplitExact DEF par
<1>10. cur' = nodes'[cur'.pos] /\ cur'.pos \in 0 .. h'.last /\ ~IsFull(cur')
  BY <1>2, <1>3, <1>5, <1>6, <1>9, SMT DEF InUse, Positions
<1>11. /\ cur.n \in Int /\ cur.n < MaxRecords /\ cur.n = h.last - 1 /\ i \in Int /\ z \in Int
       /\ \A j \in ChildSlots : j <= cur.n => cur.children[j] \in InUse \ {1}
  <2>1. cur.n \in 0 .. MaxRecords
    BY <1>4, SMT DEF Node
  <2>2. h.last \in Int /\ cur.n = h.last - 1
    BY <1>2, IndInvFacts DEF RootIsInner
  <2>3. \A j \in ChildSlots : j <= cur.n => cur.children[j] \in InUse \ {1}
    BY <1>2 DEF RootIsInner
  <2> QED BY <1>4, <2>1, <2>2, <2>3, Sizes, SMT DEF IsFull, ChildSlots
<1>12. 0 .. h'.last = InUse \cup {z} /\ z \notin InUse /\ z # 1 /\ InUse \subseteq Positions
  <2>1. h.last \in Int /\ 0 <= h.last /\ h.last \in 0 .. NumNodes - 1
    BY IndInvFacts DEF Positions
  <2>2. 0 .. h.last + 1 = (0 .. h.last) \cup {h.last + 1} /\ h.last + 1 \notin 0 .. h.last
    BY <2>1, SMT
  <2>3. 0 .. h.last \subseteq 0 .. NumNodes - 1
    BY <2>1, NumNodesAssumption, SMT
  <2> QED BY <1>3, <1>9, <2>2, <2>3 DEF InUse, Positions
<1>13. ASSUME NEW p \in 0 .. h'.last, p # 1
       PROVE  nodes'[p].isLeaf /\ nodes'[p].pos = p
  <2>1. p \in Positions /\ (p \in InUse \/ p = z)
    BY <1>3, <1>12
  <2> QED BY <1>2, <1>6, <1>9, <1>13, <2>1 DEF RootIsInner
<1>14. ASSUME NEW j \in ChildSlots, j <= cur.n + 1
       PROVE  par.children[j] \in (0 .. h'.last) \ {1}
  <2>1. CASE j <= i
    <3>1. j <= cur.n
      BY <1>1, <1>11, <2>1, Sizes, SMT DEF ChildSlots
    <3> QED BY <1>8, <1>11, <1>12, <2>1, <3>1
  <2>2. CASE j = i + 1
    BY <1>8, <1>12, <2>2
  <2>3. CASE j > i + 1
    <3>1. j - 1 \in ChildSlots /\ j - 1 <= cur.n
      BY <1>11, <1>14, <2>3, Sizes, SMT DEF ChildSlots
    <3> QED BY <1>8, <1>11, <1>14, <1>12, <2>3, <3>1
  <2> QED BY <1>11, <2>1, <2>2, <2>3, Sizes, SMT DEF ChildSlots
<1>15. ASSUME NEW p \in 0 .. h'.last, p # 1
       PROVE  \E j \in ChildSlots : OnlySlot(p, j)'
  <2>1. CASE p = z
    <3>1. i + 1 \in ChildSlots /\ i + 1 <= cur.n + 1 /\ par.children[i + 1] = p
      BY <1>1, <1>8, <1>11, <2>1, Sizes, SMT DEF ChildSlots
    <3>2. ASSUME NEW j2 \in ChildSlots, j2 <= cur.n + 1, par.children[j2] = p
          PROVE  j2 = i + 1
      <4>1. CASE j2 <= i
        <5>1. j2 <= cur.n
          BY <1>1, <1>11, <4>1, Sizes, SMT DEF ChildSlots
        <5> QED BY <1>8, <1>11, <1>12, <2>1, <3>2, <4>1, <5>1
      <4>2. CASE j2 > i + 1
        <5>1. j2 - 1 \in ChildSlots /\ j2 - 1 <= cur.n
          BY <1>11, <3>2, <4>2, Sizes, SMT DEF ChildSlots
        <5> QED BY <1>8, <1>11, <1>12, <2>1, <3>2, <4>2, <5>1
      <4> QED BY <1>11, <4>1, <4>2, Sizes, SMT DEF ChildSlots
    <3> QED BY <1>8, <1>9, <3>1, <3>2 DEF OnlySlot
  <2>2. CASE p # z
    <3>1. p \in InUse
      BY <1>12, <2>2
    <3>2. PICK j0 \in ChildSlots : OnlySlot(p, j0)
      BY <1>2, <1>15, <3>1 DEF RootIsInner
    <3>3. /\ j0 <= cur.n /\ cur.children[j0] = p
          /\ \A j2 \in ChildSlots : j2 <= cur.n /\ cur.children[j2] = p => j2 = j0
      BY <1>2, <3>2 DEF OnlySlot
    <3> DEFINE j == IF j0 <= i THEN j0 ELSE j0 + 1
    <3>4. j \in ChildSlots /\ j <= cur.n + 1 /\ par.children[j] = p
      <4>1. CASE j0 <= i
        BY <1>8, <1>11, <3>3, <4>1, Sizes, SMT DEF ChildSlots
      <4>2. CASE j0 > i
        <5>1. j0 + 1 \in ChildSlots /\ j0 + 1 > i + 1 /\ j0 + 1 <= cur.n + 1 /\ (j0 + 1) - 1 = j0
          BY <1>11, <3>3, <4>2, Sizes, SMT DEF ChildSlots
        <5> QED BY <1>8, <3>3, <4>2, <5>1, <1>11, Sizes, SMT DEF ChildSlots
      <4> QED BY <1>11, <4>1, <4>2, Sizes, SMT DEF ChildSlots
    <3>5. ASSUME NEW j2 \in ChildSlots, j2 <= cur.n + 1, par.children[j2] = p
          PROVE  j2 = j
      <4>1. CASE j2 <= i
        BY <1>1, <1>8, <1>11, <3>3, <3>5, <4>1, Sizes, SMT DEF ChildSlots
      <4>2. CASE j2 = i + 1
        BY <1>8, <2>2, <3>5, <4>2
      <4>3. CASE j2 > i + 1
        <5>1. j2 - 1 \in ChildSlots /\ j2 - 1 <= cur.n /\ cur.children[j2 - 1] = p
          BY <1>8, <1>11, <3>5, <4>3, Sizes, SMT DEF ChildSlots
        <5>2. j2 - 1 = j0
          BY <3>3, <5>1
        <5> QED BY <1>11, <4>3, <5>2, Sizes, SMT DEF ChildSlots
      <4> QED BY <1>11, <4>1, <4>2, <4>3, Sizes, SMT DEF ChildSlots
    <3> HIDE DEF j
    <3> QED BY <1>8, <1>9, <3>4, <3>5 DEF OnlySlot
  <2> QED BY <2>1, <2>2
<1>16. RootIsInner'
  <2>1. /\ NumNodes = 2 * T + 1 /\ h'.root = 1 /\ h'.last >= 2
        /\ ~nodes'[1].isLeaf /\ nodes'[1].pos = 1 /\ nodes'[1].n = h'.last - 1
    <3>1. z = h.last + 1 /\ h.last \in Int /\ h.last >= 2 /\ par.n = h.last
      BY <1>3, <1>8, <1>11, IndInvFacts, SMT
    <3>2. z >= 2 /\ par.n = z - 1
      BY <3>1, SMT
    <3> QED BY <1>2, <1>8, <1>9, <3>2 DEF RootIsInner
  <2>2. \A j \in ChildSlots : j <= nodes'[1].n => nodes'[1].children[j] \in (0 .. h'.last) \ {1}
    BY <1>8, <1>9, <1>14
  <2> QED BY <2>1, <2>2, <1>13, <1>15 DEF RootIsInner, InUse
<1> QED
  BY <1>5, <1>10, <1>16 DEF ShallowInv, CopyIsCurrent, Defined, Created, InUse

(* The growth of a root that is a leaf; a root that is full and inner has  *)
(* no block left.                                                          *)
LEMMA ShallowGrow ==
  ASSUME Shallow, IndInv, ShallowInv, NEW k \in Keys, NEW v \in Values, InsertGrow(k, v)
  PROVE  ShallowInv'
<1> DEFINE old == nodes[0]
           new == NewRoot(0, 1)
           up  == [root |-> 1, last |-> 1]
           par == WithChildAfter(new, 0, old.records[T - 1], 2)
<1>1. pc' = "insert" /\ Created /\ IsFull(nodes[h.root]) /\ ~NoBlockLeft(h)
  BY DEF InsertGrow, Created
<1>2. RootIsLeaf
  BY <1>1, RoomIsBlocksLeft DEF ShallowInv, RootIsInner
<1>3. NumNodes = 2 * T + 1 /\ {0, 1, 2} \subseteq Positions
  BY <1>1, <1>2, TAssumption, SMT DEF Shallow, NoBlockLeft, RootIsLeaf, Positions
<1>4. /\ IsFull(old) /\ WellFormed(old) /\ old.pos = 0 /\ old.isLeaf
      /\ h.root = 0 /\ h.last = 0
  BY <1>1, <1>2, <1>3, IndInvFacts DEF RootIsLeaf
<1>5. /\ WellFormed(new) /\ new.n = 0 /\ ~IsFull(new) /\ new.pos = 1 /\ ~new.isLeaf
      /\ \A j \in ChildSlots : new.children[j] = IF j = 0 THEN 0 ELSE NoChild
  BY <1>3, NewRootIs
<1>6. up \in Header /\ up.last = 1 /\ up.root = 1 /\ up.last + 1 = 2
  BY <1>3, SMT DEF Header
<1>7. /\ SplitChild(up, new, 0, old) /\ cur' = par
  <2>1. h.last + 1 = 1 /\ NewRoot(nodes[h.root].pos, h.last + 1) = new /\ nodes[h.root] = old
    BY <1>4
  <2> QED BY <1>5, <1>6, <2>1 DEF InsertGrow
<1>8. /\ ~IsFull(LowerHalf(old)) /\ LowerHalf(old).isLeaf /\ LowerHalf(old).pos = 0
      /\ UpperHalf(old, 0, 2).isLeaf /\ UpperHalf(old, 0, 2).pos = 2
  BY <1>3, <1>4, LowerHalfIs, UpperHalfIs, Sizes
<1>9. old.records[T - 1] \in Record
  BY <1>4, Sizes, SMT DEF WellFormed, IsFull
<1>10. 0 <= new.n /\ 0 + 1 = 1 /\ new.n + 1 = 1
  BY <1>5, SMT
<1>11. /\ par.n = 1 /\ par.pos = 1 /\ ~par.isLeaf
       /\ \A j \in ChildSlots : /\ j <= 0 => par.children[j] = new.children[j]
                                /\ j = 1  => par.children[j] = 2
  BY <1>3, <1>5, <1>9, <1>10, Sizes, WithChildAfterIs
<1> HIDE DEF old, new, up, par
<1>12. /\ nodes'[1] = par /\ nodes'[0] = LowerHalf(old) /\ nodes'[2] = UpperHalf(old, 0, 2)
       /\ h'.last = 2 /\ h'.root = 1
  BY <1>3, <1>4, <1>5, <1>6, <1>7, IndInvFacts, SplitExact, SMT DEF par
<1>13. 0 \in ChildSlots /\ 1 \in ChildSlots /\ par.children[0] = 0 /\ par.children[1] = 2
  BY <1>5, <1>11, Sizes, SMT DEF ChildSlots
<1>14. ASSUME NEW j \in ChildSlots, j <= 1 PROVE j \in {0, 1}
  BY <1>14, SMT DEF ChildSlots
<1>15. OnlySlot(0, 0)' /\ OnlySlot(2, 1)'
  BY <1>11, <1>12, <1>13, <1>14, SMT DEF OnlySlot
<1>16. ASSUME NEW p \in 0 .. 2, p # 1 PROVE p \in {0, 2}
  BY <1>16, SMT
<1>17. RootIsInner'
  <2>1. \A p \in 0 .. 2 : p # 1 => /\ nodes'[p].isLeaf /\ nodes'[p].pos = p
                                 /\ \E j \in ChildSlots : OnlySlot(p, j)'
    BY <1>8, <1>12, <1>13, <1>15, <1>16
  <2>2. \A j \in ChildSlots : j <= 1 => par.children[j] \in (0 .. 2) \ {1}
    BY <1>13, <1>14, SMT
  <2>3. h'.last >= 2 /\ par.n = h'.last - 1
    BY <1>11, <1>12, SMT
  <2> QED BY <1>3, <1>11, <1>12, <2>1, <2>2, <2>3 DEF RootIsInner, InUse
<1>18. ~IsFull(par) /\ 1 \in 0 .. 2
  BY <1>11, Sizes, SMT DEF IsFull
<1> QED
  BY <1>1, <1>7, <1>11, <1>12, <1>17, <1>18
  DEF ShallowInv, CopyIsCurrent, Defined, Created, InUse

(* The last block never goes to a root.                                    *)
LEMMA ShallowNoGrowLast ==
  ASSUME Shallow, IndInv, ShallowInv, NEW k \in Keys, NEW v \in Values
  PROVE  ~InsertGrowLast(k, v)
<1> SUFFICES ASSUME InsertGrowLast(k, v) PROVE FALSE
  OBVIOUS
<1>1. /\ Created /\ IsFull(nodes[h.root]) /\ ~NoBlockLeft(h)
      /\ h.last + 1 = NumNodes - 1
  BY SMT DEF InsertGrowLast, Created, NewRoot, NoBlockLeft
<1>2. RootIsLeaf
  BY <1>1, RoomIsBlocksLeft DEF ShallowInv, RootIsInner
<1> QED BY <1>1, <1>2, TAssumption, SMT DEF RootIsLeaf, Shallow

(* An inner copy has room, so a block is left for the split of its child.  *)
LEMMA ShallowAlwaysSplits ==
  ASSUME IndInv, ShallowInv, NEW i \in ChildSlots
  PROVE  ~InsertNoSplit(i) /\ ~InsertStrays(i) /\ ~InsertReadsHeader(i) /\ ~SearchReadsHeader(i)
<1>1. ASSUME InsertsBelow(i), NoBlockLeft(h) PROVE FALSE
  <2>1. pc = "insert" /\ ~cur.isLeaf
    BY <1>1 DEF InsertsBelow
  <2>2. RootIsInner /\ cur = nodes[1] /\ ~IsFull(cur)
    BY <2>1, InnerCopyIsRoot DEF ShallowInv
  <2> QED BY <1>1, <2>2, RoomIsBlocksLeft
<1>2. ASSUME InsertsBelow(i) PROVE cur.children[i] # NoChild
  BY <1>2, InsertsBelowIs, ChildIsLeaf
<1>3. ASSUME SearchesAt(i), ~cur.isLeaf PROVE cur.children[i] # NoChild
  <2>1. i <= cur.n
    BY <1>3, IndInvFacts, NodeInts, SMT DEF SearchesAt, SearchScanStops
  <2> QED BY <1>3, <2>1, ChildIsLeaf DEF SearchesAt
<1> QED
  BY <1>1, <1>2, <1>3 DEF InsertNoSplit, InsertStrays, InsertReadsHeader, SearchReadsHeader

(* The leaf with the new record replaces its earlier self.                 *)
LEMMA ShallowStore ==
  ASSUME IndInv, ShallowInv, NEW i \in -1 .. MaxRecords - 1, InsertStore(i)
  PROVE  ShallowInv'
<1> DEFINE new == WithRecordAfter(cur, i, arg)
<1>1. pc = "insert" /\ arg \in Record /\ ~IsFull(cur) /\ cur.isLeaf
  BY DEF InsertStore, InsertsAfter, IndInv
<1>2. i \in Int /\ -1 <= i /\ i < cur.n
  BY IndInvFacts, NodeInts, Sizes, SMT DEF InsertStore, InsertsAfter, InsertScanStops
<1>3. new.pos = cur.pos /\ new.isLeaf
  BY <1>1, <1>2, IndInvFacts, WithRecordAfterIs
<1>4. nodes' = [nodes EXCEPT ![cur.pos] = new] /\ h' = h /\ pc' = "idle"
  BY DEF InsertStore, Return
<1>5. cur = nodes[cur.pos] /\ cur.pos \in InUse /\ cur.pos \in Positions
  BY <1>1, IndInvFacts, SMT DEF ShallowInv, CopyIsCurrent, Node
<1> HIDE DEF new
<1>6. \A p \in Positions : nodes'[p] = IF p = cur.pos THEN new ELSE nodes[p]
  BY <1>4, IndInvFacts, SMT
<1>7. InUse \subseteq Positions /\ 0 \in Positions /\ h.last \in Int
  BY IndInvFacts, NumNodesAssumption, SMT DEF InUse, Positions
<1>8. CASE RootIsLeaf
  <2>1. cur.pos = 0
    BY <1>5, <1>8, SMT DEF RootIsLeaf, InUse
  <2>2. RootIsLeaf'
    BY <1>3, <1>4, <1>6, <1>7, <1>8, <2>1 DEF RootIsLeaf
  <2> QED BY <1>4, <2>2 DEF ShallowInv, CopyIsCurrent, Defined
<1>9. CASE RootIsInner
  <2>1. cur.pos # 1 /\ 1 \in Positions
    BY <1>1, <1>5, <1>9, IndInvFacts DEF RootIsInner
  <2>2. nodes'[1] = nodes[1]
    BY <1>6, <2>1
  <2>3. \A p \in InUse : p # 1 => nodes'[p].isLeaf /\ nodes'[p].pos = p
    BY <1>3, <1>6, <1>7, <1>9 DEF RootIsInner
  <2>4. RootIsInner'
    BY <1>4, <1>9, <2>2, <2>3 DEF RootIsInner, OnlySlot, InUse
  <2> QED BY <1>4, <2>4 DEF ShallowInv, CopyIsCurrent, Defined
<1> QED
  BY <1>1, <1>8, <1>9 DEF ShallowInv, Created

(* The steps that leave the file alone. *)
LEMMA ShallowUnchanged ==
  ASSUME ShallowInv, UNCHANGED <<nodes, h>>, pc' \in {"idle", "closed"}, Created
  PROVE  ShallowInv'
<1>1. (RootIsLeaf \/ RootIsInner)'
  BY Zenon DEF ShallowInv, Created, RootIsLeaf, RootIsInner, InUse, OnlySlot
<1> QED BY <1>1 DEF ShallowInv, CopyIsCurrent, Defined

(* A call that begins copies the root.                                     *)
LEMMA ShallowBegin ==
  ASSUME Shallow, IndInv, ShallowInv, pc = "idle", UNCHANGED <<nodes, h>>,
         pc' \in {"insert", "search"}, cur' = nodes[h.root],
         pc' = "insert" => ~IsFull(nodes[h.root])
  PROVE  ShallowInv'
<1>1. (RootIsLeaf \/ RootIsInner)'
  BY Zenon DEF ShallowInv, Created, RootIsLeaf, RootIsInner, InUse, OnlySlot
<1>2. cur'.pos = h.root /\ h.root \in InUse
  <2>1. nodes[h.root].pos = h.root
    BY DEF ShallowInv, Created, RootIsLeaf, RootIsInner
  <2>2. h.root \in InUse
    BY IndInvFacts, SMT DEF InUse, Positions
  <2> QED BY <2>1, <2>2
<1> QED BY <1>1, <1>2 DEF ShallowInv, CopyIsCurrent, Defined, InUse

(* A new tree is a single leaf.                                            *)
LEMMA ShallowCreate == ASSUME IndInv, OpenCreate PROVE ShallowInv'
<1>1. nodes' = [nodes EXCEPT ![0] = InitNode] /\ h' = [root |-> 0, last |-> 0] /\ pc' = "idle"
  BY DEF OpenCreate
<1>2. nodes'[0] = InitNode /\ h'.root = 0 /\ h'.last = 0
  BY <1>1, IndInvFacts, Sizes, SMT
<1>3. RootIsLeaf'
  BY <1>2 DEF RootIsLeaf, InitNode
<1> QED BY <1>1, <1>3 DEF ShallowInv, CopyIsCurrent, Defined

-----------------------------------------------------------------------------
(* Before the file exists there is nothing to say.                         *)
LEMMA ShallowInit == Init => ShallowInv
BY DEF Init, ShallowInv, Created, CopyIsCurrent, Defined

(* Every step keeps the shape of a shallow tree.                           *)
LEMMA ShallowNext ==
  ASSUME Shallow, IndInv, ShallowInv, [Next]_vars
  PROVE  ShallowInv'
<1>1. CASE Call
  <2>1. CASE OpenExisting \/ Close \/ InsertRefused
    <3>1. UNCHANGED <<nodes, h>> /\ pc' \in {"idle", "closed"} /\ Created
      BY <2>1 DEF OpenExisting, Close, InsertRefused, Return, IndInv, HeaderIsCurrent, Created
    <3> QED BY <3>1, ShallowUnchanged
  <2>2. ASSUME NEW k \in Keys, NEW v \in Values, InsertBegin(k, v) PROVE ShallowInv'
    BY <2>2, ShallowBegin DEF InsertBegin
  <2>3. ASSUME NEW k \in Keys, SearchBegin(k) PROVE ShallowInv'
    BY <2>3, ShallowBegin DEF SearchBegin
  <2> QED
    BY <1>1, <2>1, <2>2, <2>3, ShallowCreate, ShallowGrow, ShallowNoGrowLast DEF Call
<1>2. CASE InsertStep
  <2>1. ASSUME NEW i \in ChildSlots, InsertDescend(i) PROVE ShallowInv'
    BY <2>1, InsertsBelowIs, ShallowDescend DEF InsertDescend
  <2>2. ASSUME NEW i \in -1 .. MaxRecords - 1, InsertDuplicate(i) PROVE ShallowInv'
    <3>1. UNCHANGED <<nodes, h>> /\ pc' = "idle" /\ Created
      BY <2>2 DEF InsertDuplicate, InsertsAfter, Return, Created
    <3> QED BY <3>1, ShallowUnchanged
  <2>3. ASSUME NEW i \in -1 .. MaxRecords - 1 PROVE ~InsertOverflows(i)
    BY DEF InsertOverflows, InsertsAfter, ShallowInv
  <2> QED
    BY <1>2, <2>1, <2>2, <2>3, ShallowSplit, ShallowAlwaysSplits, ShallowStore DEF InsertStep
<1>3. CASE SearchStep
  <2>1. ASSUME NEW i \in ChildSlots, SearchFound(i) \/ SearchMissing(i) PROVE ShallowInv'
    <3>1. UNCHANGED <<nodes, h>> /\ pc' = "idle" /\ Created
      BY <2>1 DEF SearchFound, SearchMissing, SearchesAt, Return, Created
    <3> QED BY <3>1, ShallowUnchanged
  <2>2. ASSUME NEW i \in ChildSlots, SearchDescend(i) PROVE ShallowInv'
    <3>1. i <= cur.n
      BY <2>2, IndInvFacts, NodeInts, SMT DEF SearchDescend, SearchesAt, SearchScanStops
    <3> QED BY <2>2, <3>1, ShallowDescend DEF SearchDescend, SearchesAt
  <2> QED
    BY <1>3, <2>1, <2>2, ShallowAlwaysSplits DEF SearchStep
<1>4. CASE UNCHANGED vars
  BY <1>4, Zenon DEF vars, ShallowInv, Created, RootIsLeaf, RootIsInner, InUse, OnlySlot,
                     CopyIsCurrent, Defined, IsFull
<1> QED
  BY <1>1, <1>2, <1>3, <1>4 DEF Next

(* So a shallow tree always has it.                                        *)
LEMMA ShallowInvariance == ASSUME Shallow PROVE Spec => []ShallowInv
<1>1. IndInv /\ ShallowInv /\ [Next]_vars => ShallowInv'
  BY ShallowNext
<1> QED
  BY <1>1, ShallowInit, Invariance, PTL DEF Spec

(* In a tree of max_depth 0 or 1, of any node size, no call reads the      *)
(* header as a node or stores past the end of a node.                      *)
THEOREM ShallowIsDefined == Shallow => (Spec => []Defined)
<1> SUFFICES ASSUME Shallow PROVE Spec => []Defined
  OBVIOUS
<1>1. ShallowInv => Defined
  BY DEF ShallowInv
<1> QED
  BY <1>1, ShallowInvariance, PTL

(* The shape gives every block its one parent.                             *)
LEMMA ShallowParents == ASSUME IndInv, ShallowInv PROVE EveryBlockHasOneParent
<1> SUFFICES ASSUME Created, NEW p \in InUse
             PROVE  IF p = h.root
                    THEN ~ \E q \in InUse, j \in ChildSlots : IsChild(p, q, j)
                    ELSE \E q \in InUse, j \in ChildSlots :
                           /\ IsChild(p, q, j)
                           /\ \A q2 \in InUse, j2 \in ChildSlots :
                                IsChild(p, q2, j2) => q2 = q /\ j2 = j
  BY DEF EveryBlockHasOneParent
<1>1. CASE RootIsLeaf
  <2>1. \A q \in InUse : q = 0
    BY <1>1, SMT DEF InUse, RootIsLeaf
  <2> QED BY <1>1, <2>1 DEF RootIsLeaf, IsChild
<1>2. CASE RootIsInner
  <2>1. 1 \in InUse /\ h.root = 1
    BY <1>2, IndInvFacts, SMT DEF RootIsInner, InUse
  <2>2. ASSUME NEW q \in InUse, NEW j \in ChildSlots, IsChild(p, q, j)
        PROVE  q = 1 /\ p # 1
    BY <1>2, <2>2 DEF RootIsInner, IsChild
  <2>3. CASE p # 1
    <3>1. PICK j \in ChildSlots : OnlySlot(p, j)
      BY <1>2, <2>3 DEF RootIsInner
    <3>2. IsChild(p, 1, j)
      BY <1>2, <3>1 DEF RootIsInner, OnlySlot, IsChild
    <3>3. ASSUME NEW q2 \in InUse, NEW j2 \in ChildSlots, IsChild(p, q2, j2)
          PROVE  q2 = 1 /\ j2 = j
      BY <2>2, <3>1, <3>3 DEF OnlySlot, IsChild
    <3> QED BY <2>1, <2>3, <3>2, <3>3
  <2> QED BY <2>1, <2>2, <2>3
<1> QED BY <1>1, <1>2 DEF ShallowInv

(* In such a tree every block handed out hangs in exactly one child slot   *)
(* and the root in none: splits and growth lose and double no subtree.     *)
THEOREM ShallowTree == Shallow => (Spec => []EveryBlockHasOneParent)
<1> SUFFICES ASSUME Shallow PROVE Spec => []EveryBlockHasOneParent
  OBVIOUS
<1>1. IndInv /\ ShallowInv => EveryBlockHasOneParent
  BY ShallowParents
<1> QED
  BY <1>1, ShallowInvariance, Invariance, PTL

(* In such a tree the copy a call works on is never stale.                 *)
THEOREM ShallowCopies == Shallow => (Spec => []CopyIsCurrent)
<1> SUFFICES ASSUME Shallow PROVE Spec => []CopyIsCurrent
  OBVIOUS
<1>1. ShallowInv => CopyIsCurrent
  BY DEF ShallowInv
<1> QED
  BY <1>1, ShallowInvariance, PTL
=============================================================================
