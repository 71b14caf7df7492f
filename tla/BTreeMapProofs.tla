--------------------------- MODULE BTreeMapProofs ---------------------------
(***************************************************************************)
(* Trees of max_depth 0 and 1 implement the map of module KVMap, for every *)
(* node size and every set of keys and values: an insertion stores a key   *)
(* that is not there, a search returns what was stored first, and no split *)
(* changes what any search would return.                                   *)
(*                                                                         *)
(* Map descends like clrs_btree_search.  Lemma FoundIs says what it finds  *)
(* without a descent: the record of the root with the key, or else the one *)
(* record with the key in the whole file.  In these terms a step changes   *)
(* the map only through the set of records and those of the root.          *)
(***************************************************************************)
EXTENDS BTreeOrderProofs, BTreeMap, WellFoundedInduction

-----------------------------------------------------------------------------
(* One node: where the scan of a search stops, and what that tells.        *)

(* The scan of a search stops: at the least slot it may stop at.           *)
LEMMA ScanStops ==
  ASSUME NEW x, WellFormed(x), NEW k \in Keys
  PROVE  \E s \in ChildSlots : SearchScanStops(x, k, s)
<1> DEFINE Stop == {s \in Nat : s <= x.n /\ (s < x.n => k <= x.records[s].key)}
<1>1. x.n \in Nat /\ x.n <= MaxRecords /\ MaxRecords \in Nat
  <2>1. x.n \in 0 .. MaxRecords
    BY SMT DEF WellFormed, Node
  <2> QED BY <2>1, Sizes, SMT
<1>2. x.n \in Stop /\ Stop \subseteq Nat
  BY <1>1, SMT
<1> DEFINE Below == {p \in Nat \X Nat : p[1] < p[2]}
<1>3. IsWellFoundedOn(Below, Nat)
  BY NatLessThanWellFounded DEF OpToRel
<1> HIDE DEF Below, Stop
<1>4. PICK s \in Stop : \A t \in Stop : ~(<<t, s>> \in Below)
  BY <1>2, <1>3, WFMin
<1>5. s \in 0 .. x.n /\ s \in ChildSlots /\ (s < x.n => k <= x.records[s].key)
  BY <1>1, SMT DEF ChildSlots, Stop
<1>6. ASSUME NEW j \in Slots, j < s PROVE x.records[j].key < k
  <2>1. j \in Nat /\ j < x.n /\ s \in Nat
    BY <1>1, <1>5, <1>6, SMT DEF Slots
  <2>2. j \notin Stop
    BY <1>4, <1>6, <2>1 DEF Below
  <2>3. ~(k <= x.records[j].key)
    BY <1>1, <2>1, <2>2, SMT DEF Stop
  <2>4. x.records[j].key \in Int /\ k \in Int
    BY <1>6, <2>1, LiveKeys, KeysAssumption DEF Live
  <2> QED BY <2>3, <2>4, SMT
<1> QED BY <1>5, <1>6 DEF SearchScanStops

(* So the slot Map goes by is the one the scan stops at.                   *)
LEMMA ScanSlotIs ==
  ASSUME NEW x, WellFormed(x), NEW k \in Keys
  PROVE  ScanSlot(x, k) \in ChildSlots /\ SearchScanStops(x, k, ScanSlot(x, k))
BY ScanStops DEF ScanSlot

(* What the slot tells of a sorted node. *)
LEMMA ScanFinds ==
  ASSUME NEW x, WellFormed(x), Sorted(x), NEW k \in Keys, NEW i, SearchScanStops(x, k, i)
  PROVE  /\ i < x.n /\ x.records[i].key = k => x.records[i] \in Held(x)
         /\ \A r \in Held(x) : r.key = k => i < x.n /\ x.records[i] = r
         /\ Fits(k, x, i)
<1>1. i \in 0 .. x.n /\ x.n \in Int /\ x.n <= MaxRecords /\ MaxRecords \in Nat /\ k \in Int
  <2>1. x.n \in 0 .. MaxRecords
    BY SMT DEF WellFormed, Node
  <2> QED BY <2>1, Sizes, KeysAssumption, SMT DEF SearchScanStops
<1>2. i < x.n => i \in Live(x)
  BY <1>1, SMT DEF Live, Slots
<1>3. ASSUME NEW j \in Live(x), x.records[j].key = k PROVE i < x.n /\ i = j
  <2>1. j \in Slots /\ j < x.n /\ j \in Int /\ x.records[j].key \in Int
    BY LiveKeys, SMT DEF Slots
  <2>2. ~(j < i)
    BY <1>1, <1>3, <2>1, SMT DEF SearchScanStops
  <2>3. i < x.n
    BY <1>1, <2>1, <2>2, SMT
  <2>4. ~(i < j)
    <3>1. k <= x.records[i].key /\ x.records[i].key \in Int
      BY <1>2, <2>3, LiveKeys DEF SearchScanStops
    <3>2. i < j => x.records[i].key < x.records[j].key
      BY <1>2, <2>3 DEF Sorted
    <3> QED BY <1>1, <1>3, <3>1, <3>2, SMT
  <2> QED BY <1>1, <2>1, <2>2, <2>3, <2>4, SMT
<1>4. Fits(k, x, i)
  <2>1. ASSUME i > 0 PROVE x.records[i - 1].key <= k
    <3>1. i - 1 \in Slots /\ i - 1 < i /\ i - 1 \in Live(x)
      BY <1>1, <2>1, SMT DEF Slots, Live
    <3>2. x.records[i - 1].key < k /\ x.records[i - 1].key \in Int
      BY <3>1, LiveKeys DEF SearchScanStops
    <3> QED BY <1>1, <3>2, SMT
  <2> QED BY <2>1 DEF Fits, SearchScanStops
<1> QED BY <1>2, <1>3, <1>4 DEF Held

(* A key that may be below two slots is the key of a record between them.  *)
LEMMA FitsTwice ==
  ASSUME NEW x, WellFormed(x), Sorted(x), NEW k \in Int,
         NEW a \in ChildSlots, a <= x.n, Fits(k, x, a),
         NEW b \in ChildSlots, b <= x.n, Fits(k, x, b), a # b
  PROVE  \E r \in Held(x) : r.key = k
<1>1. x.n \in Int /\ x.n <= MaxRecords /\ MaxRecords \in Nat /\ a \in Int /\ b \in Int /\ 0 <= a /\ 0 <= b
  <2>1. x.n \in 0 .. MaxRecords
    BY SMT DEF WellFormed, Node
  <2> QED BY <2>1, Sizes, SMT DEF ChildSlots
<1>2. ASSUME NEW c \in ChildSlots, NEW d \in ChildSlots, c < d, d <= x.n, Fits(k, x, c), Fits(k, x, d)
      PROVE  \E r \in Held(x) : r.key = k
  <2>1. c \in Live(x) /\ d - 1 \in Live(x) /\ c <= d - 1 /\ d > 0 /\ c < x.n /\ c \in Int /\ d \in Int
    BY <1>1, <1>2, SMT DEF Live, Slots, ChildSlots
  <2>2. k <= x.records[c].key /\ x.records[d - 1].key <= k
    BY <1>2, <2>1 DEF Fits
  <2>3. x.records[c].key \in Int /\ x.records[d - 1].key \in Int
    BY <2>1, LiveKeys
  <2>4. x.records[c].key <= x.records[d - 1].key
    <3>1. CASE c = d - 1
      BY <2>3, <3>1, SMT
    <3>2. CASE c < d - 1
      BY <2>1, <2>3, <3>2, SMT DEF Sorted
    <3> QED BY <2>1, <3>1, <3>2, SMT
  <2>5. x.records[c].key = k
    BY <2>2, <2>3, <2>4, SMT
  <2> QED BY <2>1, <2>5 DEF Held
<1> QED BY <1>1, <1>2, SMT

-----------------------------------------------------------------------------
(* The descent of Map, in a tree of at most two levels.                    *)

(* The equation its recursive function is to satisfy, and the function.    *)
FindBody(k, f) ==
  [fuel \in 0 .. NumNodes |-> [p \in Positions |->
     LET x == nodes[p]
         i == ScanSlot(x, k)
     IN  IF i < x.n /\ x.records[i].key = k
         THEN x.records[i].value_offset
         ELSE IF x.isLeaf \/ fuel = 0 \/ x.children[i] = NoChild
         THEN NoRecord
         ELSE f[fuel - 1][x.children[i]]]]

Finder(k) == CHOOSE f : f = FindBody(k, f)

LEMMA ValueFromFinds == ASSUME NEW k PROVE ValueFrom(k) = Finder(k)[NumNodes][h.root]
BY Zenon DEF ValueFrom, Finder, FindBody

(* What the search finds in a leaf. *)
LeafValue(x, k) ==
  LET i == ScanSlot(x, k)
  IN  IF i < x.n /\ x.records[i].key = k THEN x.records[i].value_offset ELSE NoRecord

(* At most two levels: what a node names as a child is a leaf.             *)
Flat ==
  /\ \A p \in Positions : WellFormed(nodes[p])
  /\ h.root \in Positions
  /\ \A p \in Positions, j \in ChildSlots :
       ~nodes[p].isLeaf /\ j <= nodes[p].n /\ nodes[p].children[j] # NoChild =>
         nodes[p].children[j] \in Positions /\ nodes[nodes[p].children[j]].isLeaf


(* Then the equation has a solution, written out here without recursion.   *)
LEMMA FinderIs ==
  ASSUME Flat, NEW k \in Keys
  PROVE  Finder(k) = FindBody(k, Finder(k))
<1> DEFINE Hit(p) == ScanSlot(nodes[p], k) < nodes[p].n /\ nodes[p].records[ScanSlot(nodes[p], k)].key = k
           Val(p) == nodes[p].records[ScanSlot(nodes[p], k)].value_offset
           Kid(p) == nodes[p].children[ScanSlot(nodes[p], k)]
           End(fuel, p) == nodes[p].isLeaf \/ fuel = 0 \/ Kid(p) = NoChild
           Step(f, fuel, p) == IF Hit(p) THEN Val(p)
                               ELSE IF End(fuel, p) THEN NoRecord ELSE f[fuel - 1][Kid(p)]
           Sol(fuel, p) == IF Hit(p) THEN Val(p)
                           ELSE IF End(fuel, p) THEN NoRecord ELSE LeafValue(nodes[Kid(p)], k)
           g == [fuel \in 0 .. NumNodes |-> [p \in Positions |-> Sol(fuel, p)]]
<1>1. \A f : FindBody(k, f) = [fuel \in 0 .. NumNodes |-> [p \in Positions |-> Step(f, fuel, p)]]
  BY Zenon DEF FindBody
<1>2. ASSUME NEW fuel \in 0 .. NumNodes, NEW p \in Positions PROVE Step(g, fuel, p) = Sol(fuel, p)
  <2>1. CASE Hit(p) \/ End(fuel, p)
    BY <2>1
  <2>2. CASE ~Hit(p) /\ ~End(fuel, p)
    <3>1. /\ ScanSlot(nodes[p], k) \in ChildSlots /\ ScanSlot(nodes[p], k) <= nodes[p].n
          /\ ~nodes[p].isLeaf /\ Kid(p) # NoChild /\ fuel # 0
      <4>1. nodes[p].n \in Int
        BY NodeInts DEF Flat, WellFormed
      <4> QED BY <2>2, <4>1, ScanSlotIs, SMT DEF Flat, SearchScanStops
    <3>2. Kid(p) \in Positions /\ nodes[Kid(p)].isLeaf
      BY <3>1 DEF Flat
    <3>3. fuel - 1 \in 0 .. NumNodes
      BY <3>1, NumNodesAssumption, SMT
    <3>4. g[fuel - 1][Kid(p)] = Sol(fuel - 1, Kid(p))
      BY <3>2, <3>3
    <3>5. Sol(fuel - 1, Kid(p)) = LeafValue(nodes[Kid(p)], k)
      BY <3>2 DEF LeafValue
    <3> QED BY <2>2, <3>4, <3>5
  <2> QED BY <2>1, <2>2
<1> HIDE DEF Step, Sol
<1>3. g = [fuel \in 0 .. NumNodes |-> [p \in Positions |-> Step(g, fuel, p)]]
  BY <1>2
<1>4. g = FindBody(k, g)
  BY <1>1, <1>3
<1> QED BY <1>4, Zenon DEF Finder

(* And the descent reads the root and one leaf.                            *)
LEMMA ValueFromIs ==
  ASSUME Flat, NEW k \in Keys
  PROVE  LET x == nodes[h.root]
             i == ScanSlot(x, k)
         IN  ValueFrom(k) = IF i < x.n /\ x.records[i].key = k
                            THEN x.records[i].value_offset
                            ELSE IF x.isLeaf \/ x.children[i] = NoChild
                            THEN NoRecord
                            ELSE LeafValue(nodes[x.children[i]], k)
<1> DEFINE F == Finder(k)
           Hit(p) == ScanSlot(nodes[p], k) < nodes[p].n /\ nodes[p].records[ScanSlot(nodes[p], k)].key = k
           Val(p) == nodes[p].records[ScanSlot(nodes[p], k)].value_offset
           Kid(p) == nodes[p].children[ScanSlot(nodes[p], k)]
           Step(fuel, p) == IF Hit(p) THEN Val(p)
                            ELSE IF nodes[p].isLeaf \/ fuel = 0 \/ Kid(p) = NoChild THEN NoRecord
                            ELSE F[fuel - 1][Kid(p)]
<1>1. F = [fuel \in 0 .. NumNodes |-> [p \in Positions |-> Step(fuel, p)]]
  BY FinderIs, Zenon DEF FindBody
<1> HIDE DEF F, Step
<1>2. \A fuel \in 0 .. NumNodes, p \in Positions : F[fuel][p] = Step(fuel, p)
  BY <1>1
<1>3. NumNodes \in 0 .. NumNodes /\ NumNodes # 0 /\ NumNodes - 1 \in 0 .. NumNodes
  BY NumNodesAssumption, SMT
<1>4. ValueFrom(k) = Step(NumNodes, h.root)
  BY <1>2, <1>3, ValueFromFinds DEF Flat, F
<1>5. ASSUME ~Hit(h.root), ~nodes[h.root].isLeaf, Kid(h.root) # NoChild
      PROVE  F[NumNodes - 1][Kid(h.root)] = LeafValue(nodes[Kid(h.root)], k)
  <2>1. ScanSlot(nodes[h.root], k) \in ChildSlots /\ ScanSlot(nodes[h.root], k) <= nodes[h.root].n
    <3>1. nodes[h.root].n \in Int
      BY NodeInts DEF Flat, WellFormed
    <3> QED BY <3>1, ScanSlotIs, SMT DEF Flat, SearchScanStops
  <2>2. Kid(h.root) \in Positions /\ nodes[Kid(h.root)].isLeaf
    BY <1>5, <2>1 DEF Flat
  <2>3. F[NumNodes - 1][Kid(h.root)] = Step(NumNodes - 1, Kid(h.root))
    BY <1>2, <1>3, <2>2
  <2> QED BY <2>2, <2>3 DEF Step, LeafValue
<1>6. Step(NumNodes, h.root) = IF Hit(h.root) THEN Val(h.root)
                               ELSE IF nodes[h.root].isLeaf \/ Kid(h.root) = NoChild THEN NoRecord
                               ELSE F[NumNodes - 1][Kid(h.root)]
  BY <1>3 DEF Step
<1> QED BY <1>4, <1>5, <1>6

-----------------------------------------------------------------------------
(* What the descent finds. *)

(* The records of the root. *)
Top == Held(nodes[h.root])

(* The map in terms of the records on file: the root's come first.         *)
FoundInv ==
  /\ Map = [k \in Keys |-> Map[k]]
  /\ ~Created => \A k \in Keys : Map[k] = NoRecord
  /\ Created => \A k \in Keys :
       /\ \A r \in Top : r.key = k => Map[k] = r.value_offset
       /\ (\A r \in Top : r.key # k) => \A r \in Stored : r.key = k => Map[k] = r.value_offset
       /\ (\A r \in Stored : r.key # k) => Map[k] = NoRecord

(* A shallow tree is flat; the blocks not handed out all name block 0.     *)
LEMMA FlatIs ==
  ASSUME IndInv, ShallowInv, PlaceInv, Created
  PROVE  Flat
<1>1. (\A p \in Positions : WellFormed(nodes[p])) /\ h.root \in Positions /\ h.last \in Int /\ 0 <= h.last
  BY IndInvFacts DEF Positions
<1>2. 0 \in InUse /\ nodes[0].isLeaf /\ 0 \in Positions
  <2>1. 0 \in InUse
    BY <1>1, SMT DEF InUse
  <2> QED BY <2>1, Sizes DEF ShallowInv, RootIsLeaf, RootIsInner
<1>3. ASSUME NEW p \in Positions, NEW j \in ChildSlots,
             ~nodes[p].isLeaf, j <= nodes[p].n, nodes[p].children[j] # NoChild
      PROVE  nodes[p].children[j] \in Positions /\ nodes[nodes[p].children[j]].isLeaf
  <2>1. CASE p > h.last
    <3>1. nodes[p] = ZeroNode
      BY <2>1 DEF PlaceInv, Unwritten
    <3>2. nodes[p].children[j] = 0
      BY <3>1 DEF ZeroNode
    <3> QED BY <1>2, <3>2
  <2>2. CASE ~(p > h.last)
    <3>1. p \in InUse /\ InUse \subseteq Positions
      BY <1>1, <2>2, InUseMore, SMT DEF InUse, Positions
    <3>2. RootIsInner
      <4>1. ASSUME RootIsLeaf PROVE p = 0
        BY <3>1, <4>1, SMT DEF InUse, RootIsLeaf
      <4> QED BY <1>2, <1>3, <4>1 DEF ShallowInv
    <3>3. p = 1
      BY <1>3, <3>1, <3>2 DEF RootIsInner
    <3>4. nodes[p].children[j] \in InUse \ {1}
      BY <1>3, <3>2, <3>3 DEF RootIsInner
    <3> QED BY <3>1, <3>2, <3>4 DEF RootIsInner
  <2> QED BY <2>1, <2>2
<1> QED BY <1>1, <1>3 DEF Flat

(* A key the root does not hold is held in one leaf at most.               *)
LEMMA LeafHoldsAll ==
  ASSUME IndInv, ShallowInv, SearchOrder, Created, RootIsInner,
         NEW k \in Int, \A r \in Top : r.key # k,
         NEW p \in InUse, NEW i \in ChildSlots, IsChild(p, 1, i), Fits(k, nodes[1], i),
         NEW r \in Stored, r.key = k
  PROVE  r \in Held(nodes[p])
<1>1. h.root = 1 /\ 1 \in InUse /\ InUse \subseteq Positions /\ Top = Held(nodes[1])
  BY IndInvFacts, InUseMore, SMT DEF RootIsInner, InUse, Positions, Top
<1>2. WellFormed(nodes[1]) /\ Sorted(nodes[1])
  BY <1>1, IndInvFacts, SearchOrderIs
<1>3. PICK q \in InUse : r \in Held(nodes[q])
  BY StoredIs
<1>4. q # 1
  BY <1>1, <1>3
<1>5. PICK j \in ChildSlots : OnlySlot(q, j)
  BY <1>3, <1>4 DEF RootIsInner
<1>6. IsChild(q, 1, j)
  BY <1>5 DEF RootIsInner, OnlySlot, IsChild
<1>7. Fits(k, nodes[1], j)
  <2>1. Between(nodes[q], nodes[1], j)
    BY <1>1, <1>3, <1>6, SearchOrderIs
  <2> QED BY <1>3, <2>1 DEF Between, Held
<1>8. i <= nodes[1].n /\ j <= nodes[1].n /\ nodes[1].children[i] = p /\ nodes[1].children[j] = q
  BY <1>6 DEF IsChild
<1>9. i = j
  BY <1>1, <1>2, <1>7, <1>8, FitsTwice
<1> QED BY <1>3, <1>8, <1>9

(* The invariant follows from those of the tree.                           *)
LEMMA FoundIs ==
  ASSUME IndInv, ShallowInv, OrderInv, PlaceInv
  PROVE  FoundInv
<1>1. Map = [k \in Keys |-> Map[k]]
  BY DEF Map
<1>2. ASSUME ~Created, NEW k \in Keys PROVE Map[k] = NoRecord
  BY <1>2 DEF Map
<1>3. ASSUME Created, NEW k \in Keys
      PROVE  /\ \A r \in Top : r.key = k => Map[k] = r.value_offset
             /\ (\A r \in Top : r.key # k) => \A r \in Stored : r.key = k => Map[k] = r.value_offset
             /\ (\A r \in Stored : r.key # k) => Map[k] = NoRecord
  <2> DEFINE x == nodes[h.root]
             i == ScanSlot(x, k)
  <2>1. Map[k] = ValueFrom(k)
    BY <1>3 DEF Map
  <2>2. Flat
    BY <1>3, FlatIs
  <2>3. ValueFrom(k) = IF i < x.n /\ x.records[i].key = k
                       THEN x.records[i].value_offset
                       ELSE IF x.isLeaf \/ x.children[i] = NoChild
                       THEN NoRecord
                       ELSE LeafValue(nodes[x.children[i]], k)
    BY <2>2, ValueFromIs
  <2>4. h.root \in InUse /\ InUse \subseteq Positions /\ k \in Int
    BY IndInvFacts, InUseMore, KeysAssumption, SMT DEF InUse, Positions
  <2>5. WellFormed(x) /\ Sorted(x)
    BY <2>4, IndInvFacts, SearchOrderIs DEF OrderInv
  <2>6. i \in ChildSlots /\ SearchScanStops(x, k, i) /\ i <= x.n
    <3>1. x.n \in Int
      BY <2>5, NodeInts DEF WellFormed
    <3> QED BY <2>5, <3>1, ScanSlotIs, SMT DEF SearchScanStops
  <2>7. /\ i < x.n /\ x.records[i].key = k => x.records[i] \in Held(x)
        /\ \A r \in Held(x) : r.key = k => i < x.n /\ x.records[i] = r
        /\ Fits(k, x, i)
    BY <2>5, <2>6, ScanFinds
  <2>8. Top = Held(x) /\ Top \subseteq Stored
    BY <2>4, StoredIs DEF Top
  <2> HIDE DEF x, i
  <2>9. \A r \in Top : r.key = k => Map[k] = r.value_offset
    BY <2>1, <2>3, <2>7, <2>8
  <2>10. CASE \E r \in Top : r.key = k
    BY <2>8, <2>9, <2>10
  <2>11. CASE (\A r \in Top : r.key # k) /\ RootIsLeaf
    <3>1. x.isLeaf /\ Stored = Top
      <4>1. InUse = {0} /\ h.root = 0
        BY <2>11, SMT DEF RootIsLeaf, InUse
      <4> QED BY <2>11, <4>1, StoredIs DEF RootIsLeaf, x, Top
    <3> QED BY <2>1, <2>3, <2>7, <2>8, <2>11, <3>1
  <2>12. CASE (\A r \in Top : r.key # k) /\ RootIsInner
    <3> DEFINE c == x.children[i]
               y == nodes[c]
               s == ScanSlot(y, k)
    <3>1. ~x.isLeaf /\ c \in InUse \ {1} /\ y.isLeaf /\ IsChild(c, 1, i) /\ Fits(k, nodes[1], i)
      BY <2>6, <2>7, <2>12 DEF RootIsInner, IsChild, x
    <3>2. c # NoChild
      BY <3>1, SMT DEF InUse, NoChild
    <3>3. WellFormed(y) /\ Sorted(y)
      BY <2>4, <3>1, IndInvFacts, SearchOrderIs DEF OrderInv
    <3>4. Map[k] = LeafValue(y, k)
      BY <2>1, <2>3, <2>7, <2>8, <2>12, <3>1, <3>2
    <3>5. /\ s < y.n /\ y.records[s].key = k => y.records[s] \in Held(y)
          /\ \A r \in Held(y) : r.key = k => s < y.n /\ y.records[s] = r
      BY <3>3, ScanSlotIs, ScanFinds
    <3>6. Held(y) \subseteq Stored
      BY <3>1, StoredIs
    <3>7. ASSUME NEW r \in Stored, r.key = k PROVE r \in Held(y)
      <4>1. SearchOrder /\ RootIsInner /\ c \in InUse /\ \A t \in Top : t.key # k
        BY <2>12, <3>1 DEF OrderInv
      <4>2. r \in Held(nodes[c])
        BY ONLY IndInv, ShallowInv, <1>3, <2>4, <2>6, <3>1, <3>7, <4>1, LeafHoldsAll, Zenon
      <4> QED BY <4>2
    <3> HIDE DEF y, c
    <3> QED BY <2>8, <2>12, <3>4, <3>5, <3>6, <3>7 DEF LeafValue
  <2> QED BY <1>3, <2>9, <2>10, <2>11, <2>12 DEF ShallowInv
<1> QED BY <1>1, <1>2, <1>3 DEF FoundInv

-----------------------------------------------------------------------------
(* Calls in progress. *)

(* The call in progress. *)
CallInv ==
  /\ pc = "search" => arg \in [key : Keys, value_offset : {NoRecord}]
  /\ pc \in {"absent", "closed", "idle"} => arg = NoRecord

LEMMA CallInit == Init => CallInv
BY DEF Init, CallInv

LEMMA CallNext == CallInv /\ [Next]_vars => CallInv'
<1> SUFFICES ASSUME CallInv, [Next]_vars PROVE CallInv'
  OBVIOUS
<1>1. ASSUME OpenCreate \/ OpenExisting \/ Close \/ InsertRefused PROVE CallInv'
  BY <1>1 DEF OpenCreate, OpenExisting, Close, InsertRefused, Return, CallInv
<1>2. ASSUME NEW k \in Keys, SearchBegin(k) PROVE CallInv'
  BY <1>2 DEF SearchBegin, Argument, CallInv
<1>3. ASSUME NEW k \in Keys, NEW v \in Values, InsertBegin(k, v) \/ InsertGrow(k, v) \/ InsertGrowLast(k, v)
      PROVE  CallInv'
  BY <1>3 DEF InsertBegin, InsertGrow, InsertGrowLast, CallInv
<1>4. ASSUME NEW i \in ChildSlots, InsertDescend(i) \/ InsertSplit(i) \/ InsertNoSplit(i)
      PROVE  CallInv'
  BY <1>4 DEF InsertDescend, InsertSplit, InsertNoSplit, InsertsBelow, CallInv
<1>5. ASSUME NEW i \in -1 .. MaxRecords - 1, InsertDuplicate(i) \/ InsertStore(i) PROVE CallInv'
  BY <1>5 DEF InsertDuplicate, InsertStore, Return, CallInv
<1>6. ASSUME NEW i \in ChildSlots, SearchFound(i) \/ SearchMissing(i) \/ SearchDescend(i) PROVE CallInv'
  BY <1>6 DEF SearchFound, SearchMissing, SearchDescend, SearchesAt, Return, CallInv
<1>7. ASSUME GoesUndefined PROVE CallInv'
  BY <1>7 DEF GoesUndefined, CallInv
<1>8. CASE Call
  BY <1>1, <1>2, <1>3, <1>8, Zenon DEF Call
<1>9. CASE InsertStep
  BY <1>4, <1>5, <1>7, <1>9, Zenon DEF InsertStep, InsertStrays, InsertReadsHeader, InsertOverflows
<1>10. CASE SearchStep
  BY <1>6, <1>7, <1>10, Zenon DEF SearchStep, SearchReadsHeader
<1>11. CASE UNCHANGED vars
  BY <1>11 DEF vars, CallInv
<1> QED BY <1>8, <1>9, <1>10, <1>11 DEF Next

(* A search that has left the root for a leaf is in the only leaf that may *)
(* hold its key, and the root does not.                                    *)
SearchInv ==
  pc = "search" /\ cur.pos # h.root =>
    /\ \A r \in Top : r.key # arg.key
    /\ \A i \in ChildSlots : IsChild(cur.pos, h.root, i) => Fits(arg.key, nodes[h.root], i)

LEMMA SearchDescendKeeps ==
  ASSUME IndInv, ShallowInv, OrderInv, CallInv, NEW i \in ChildSlots, SearchDescend(i)
  PROVE  SearchInv'
<1>1. /\ pc = "search" /\ SearchScanStops(cur, arg.key, i) /\ ~HasKeyAt(i) /\ ~cur.isLeaf
      /\ cur' = Child(i) /\ UNCHANGED <<nodes, h, arg>> /\ arg.key \in Keys /\ Created
  BY DEF SearchDescend, SearchesAt, CallInv, Created
<1>2. RootIsInner /\ cur = nodes[1] /\ h.root = 1
  BY <1>1, InnerCopyIsRoot DEF RootIsInner
<1>3. 1 \in InUse /\ WellFormed(nodes[1]) /\ Sorted(nodes[1])
  BY <1>2, IndInvFacts, SearchOrderIs, SMT DEF OrderInv, InUse, Positions, RootIsInner
<1>4. i <= cur.n
  BY <1>1, IndInvFacts, NodeInts, SMT DEF SearchScanStops
<1>5. /\ \A r \in Held(nodes[1]) : r.key = arg.key => i < cur.n /\ cur.records[i] = r
      /\ Fits(arg.key, nodes[1], i)
  BY <1>1, <1>2, <1>3, ScanFinds
<1>6. \A r \in Held(nodes[1]) : r.key # arg.key
  BY <1>1, <1>5 DEF HasKeyAt
<1>7. Child(i).pos = cur.children[i] /\ cur.children[i] = nodes[1].children[i]
  BY <1>1, <1>2, <1>4, ChildIsLeaf
<1>8. ASSUME NEW j \in ChildSlots, IsChild(cur'.pos, 1, j) PROVE j = i
  <2>1. \A j2 \in ChildSlots : j2 <= nodes[1].n /\ nodes[1].children[j2] = cur'.pos => j2 = j
    BY <1>1, <1>3, <1>8, OneSlot
  <2> QED BY <1>1, <1>2, <1>4, <1>7, <2>1
<1>9. Top' = Top /\ Top = Held(nodes[1])
  <2>1. Top' = Top
    BY <1>1, Zenon DEF Top, Held, Live
  <2> QED BY <1>2, <2>1 DEF Top
<1>10. ASSUME NEW j \in ChildSlots, IsChild(cur.pos, h.root, j)'
       PROVE  Fits(arg.key, nodes[h.root], j)
  <2>1. IsChild(cur'.pos, 1, j)
    BY <1>1, <1>2, <1>10 DEF IsChild
  <2> QED BY <1>2, <1>5, <1>8, <2>1
<1> QED BY <1>1, <1>6, <1>9, <1>10 DEF SearchInv, Fits

LEMMA SearchNext ==
  ASSUME IndInv, ShallowInv, OrderInv, CallInv, SearchInv, [Next]_vars
  PROVE  SearchInv'
<1>1. ASSUME NEW k \in Keys, SearchBegin(k) PROVE SearchInv'
  <2>1. cur'.pos = h'.root
    BY <1>1 DEF SearchBegin, ShallowInv, RootIsLeaf, RootIsInner, Created
  <2> QED BY <2>1 DEF SearchInv
<1>2. ASSUME NEW i \in ChildSlots, SearchDescend(i) PROVE SearchInv'
  BY <1>2, SearchDescendKeeps
<1>3. ASSUME pc' # "search" PROVE SearchInv'
  BY <1>3 DEF SearchInv
<1>4. CASE UNCHANGED vars
  <2>1. UNCHANGED <<nodes, h, pc, cur, arg>>
    BY <1>4 DEF vars
  <2> QED BY <2>1, Zenon DEF SearchInv, Top, Held, Live, IsChild, Fits
<1>5. CASE Call
  <2>1. OpenCreate \/ OpenExisting \/ Close \/ InsertRefused => pc' # "search"
    BY DEF OpenCreate, OpenExisting, Close, InsertRefused, Return
  <2>2. \A k \in Keys, v \in Values :
          InsertBegin(k, v) \/ InsertGrow(k, v) \/ InsertGrowLast(k, v) => pc' # "search"
    BY DEF InsertBegin, InsertGrow, InsertGrowLast
  <2> QED BY <1>1, <1>3, <1>5, <2>1, <2>2, Zenon DEF Call
<1>6. CASE InsertStep
  <2>1. \A i \in ChildSlots : InsertDescend(i) \/ InsertSplit(i) \/ InsertNoSplit(i) => pc' # "search"
    BY DEF InsertDescend, InsertSplit, InsertNoSplit, InsertsBelow
  <2>2. \A i \in ChildSlots : InsertStrays(i) \/ InsertReadsHeader(i) => pc' # "search"
    BY DEF InsertStrays, InsertReadsHeader, GoesUndefined
  <2>3. \A i \in -1 .. MaxRecords - 1 :
          InsertDuplicate(i) \/ InsertStore(i) \/ InsertOverflows(i) => pc' # "search"
    BY DEF InsertDuplicate, InsertStore, InsertOverflows, Return, GoesUndefined
  <2> QED BY <1>3, <1>6, <2>1, <2>2, <2>3, Zenon DEF InsertStep
<1>7. CASE SearchStep
  <2>1. \A i \in ChildSlots : SearchFound(i) \/ SearchMissing(i) \/ SearchReadsHeader(i) => pc' # "search"
    BY DEF SearchFound, SearchMissing, SearchReadsHeader, Return, GoesUndefined
  <2> QED BY <1>2, <1>3, <1>7, <2>1, Zenon DEF SearchStep
<1> QED BY <1>4, <1>5, <1>6, <1>7 DEF Next

(* Everything the steps need. *)
MapInv == OrderInv /\ PlaceInv /\ CallInv /\ SearchInv /\ FoundInv

LEMMA MapInvariance == ASSUME Shallow PROVE Spec => [](IndInv /\ ShallowInv /\ MapInv)
<1>1. Init => SearchInv
  BY DEF Init, SearchInv
<1>2. CallInv /\ [Next]_vars => CallInv'
  BY CallNext
<1>3. IndInv /\ ShallowInv /\ OrderInv /\ CallInv /\ SearchInv /\ [Next]_vars => SearchInv'
  BY SearchNext
<1>4. IndInv /\ ShallowInv /\ OrderInv /\ PlaceInv => FoundInv
  BY FoundIs
<1> QED
  BY <1>1, <1>2, <1>3, <1>4, CallInit, Invariance, ShallowInvariance, OrderInvariance, PlaceInvariance, PTL
     DEF Spec, MapInv

-----------------------------------------------------------------------------
(* What the steps do to the map. *)

(* Steps that move records leave the map alone. *)
LEMMA SameMap ==
  ASSUME FoundInv, FoundInv', Created, Created', Stored' = Stored,
         h.root \in InUse, h'.root \in InUse',
         Top \subseteq Top' \/ Top = Stored
  PROVE  Map' = Map
<1>1. /\ Map = [k \in Keys |-> Map[k]] /\ Map' = [k \in Keys |-> Map'[k]]
      /\ Top \subseteq Stored /\ Top' \subseteq Stored
  <2>1. Stored' = UNION {Held(nodes'[p]) : p \in InUse'}
    BY DEF Stored, Held, Live
  <2>2. Top' = Held(nodes'[h'.root])
    BY DEF Top, Held, Live
  <2> QED BY <2>1, <2>2, StoredIs DEF FoundInv, Top
<1>2. ASSUME NEW k \in Keys PROVE Map'[k] = Map[k]
  <2>1. /\ \A r \in Top : r.key = k => Map[k] = r.value_offset
        /\ (\A r \in Top : r.key # k) => \A r \in Stored : r.key = k => Map[k] = r.value_offset
        /\ (\A r \in Stored : r.key # k) => Map[k] = NoRecord
    BY DEF FoundInv
  <2>2. /\ \A r \in Top' : r.key = k => Map'[k] = r.value_offset
        /\ (\A r \in Top' : r.key # k) => \A r \in Stored : r.key = k => Map'[k] = r.value_offset
        /\ (\A r \in Stored : r.key # k) => Map'[k] = NoRecord
    BY DEF FoundInv
  <2>3. Top \subseteq Top' \/ Top = Stored
    OBVIOUS
  <2>4. CASE \E r \in Top' : r.key = k
    BY ONLY <1>1, <2>1, <2>2, <2>3, <2>4
  <2>5. CASE \A r \in Top' : r.key # k
    BY ONLY <1>1, <2>1, <2>2, <2>3, <2>5
  <2> QED BY <2>4, <2>5
<1> QED BY ONLY <1>1, <1>2, Zenon

(* Nothing is written and the handle stays. *)
LEMMA QuietMap ==
  ASSUME IndInv, FoundInv, FoundInv', Created, Created', UNCHANGED <<nodes, h>>
  PROVE  Map' = Map
<1>1. Stored' = Stored /\ Top' = Top /\ h'.root = h.root /\ InUse' = InUse
  <2>1. nodes' = nodes /\ h' = h
    OBVIOUS
  <2> QED BY ONLY <2>1 DEF Stored, Top, Held, Live, InUse
<1>2. h.root \in InUse
  BY IndInvFacts, SMT DEF InUse, Positions
<1> QED BY <1>1, <1>2, SameMap

(* A tree just created is empty. *)
LEMMA CreateMap ==
  ASSUME IndInv, FoundInv, FoundInv', OpenCreate
  PROVE  Map' = Map
<1>1. ~Created /\ Created' /\ nodes' = [nodes EXCEPT ![0] = InitNode] /\ h'.last = 0
  BY DEF OpenCreate, Created
<1>2. Stored' = {}
  <2>1. nodes'[0] = InitNode /\ InUse' = {0}
    BY <1>1, IndInvFacts, Sizes, SMT DEF InUse
  <2>2. Live(InitNode) = {}
    BY SMT DEF Live, InitNode, Slots
  <2>3. Stored' = UNION {Held(nodes'[p]) : p \in InUse'}
    BY DEF Stored, Held, Live
  <2> QED BY <2>1, <2>2, <2>3 DEF Held
<1>3. \A k \in Keys : Map[k] = NoRecord /\ Map'[k] = NoRecord
  BY <1>1, <1>2 DEF FoundInv
<1>4. Map = [k \in Keys |-> Map[k]] /\ Map' = [k \in Keys |-> Map'[k]]
  BY DEF FoundInv
<1> QED BY ONLY <1>3, <1>4, Zenon

(* The split of a leaf: the root gains a record, the file none.            *)
LEMMA SplitMap ==
  ASSUME IndInv, ShallowInv, PlaceInv, IndInv', FoundInv, FoundInv', NEW i \in ChildSlots, InsertSplit(i)
  PROVE  Map' = Map
<1> DEFINE y == Child(i)
           par == WithChildAfter(cur, i, y.records[T - 1], h.last + 1)
<1>1. SplitIn(cur, i, y, h.last + 1) /\ pc = "insert" /\ ~cur.isLeaf /\ h'.root = h.root
  <2>1. pc = "insert" /\ ~cur.isLeaf
    BY DEF InsertSplit, InsertsBelow
  <2>2. h'.root = h.root
    BY IndInvFacts DEF InsertSplit, SplitChild, Header
  <2> QED BY <2>1, <2>2, SplitStepIn
<1>2. RootIsInner /\ cur = nodes[1] /\ cur.pos = 1 /\ h.root = 1
  BY <1>1, InnerCopyIsRoot DEF RootIsInner
<1>3. Created /\ Created' /\ Stored' = Stored
  <2>1. pc' = "insert"
    BY <1>1 DEF InsertSplit
  <2> QED BY <1>1, <2>1, SplitInRecords DEF Created
<1>4. nodes'[1] = par /\ Held(cur) \subseteq Held(par)
  BY <1>1, <1>2, SplitHeld DEF SplitIn
<1> HIDE DEF par
<1>5. Top = Held(cur) /\ Top' = Held(par)
  <2>1. Top' = Held(nodes'[h'.root])
    BY DEF Top, Held, Live
  <2> QED BY <1>1, <1>2, <1>4, <2>1 DEF Top
<1>6. h.root \in InUse
  BY IndInvFacts, SMT DEF InUse, Positions
<1>7. h'.root \in InUse'
  BY <1>1, <1>6 DEF SplitIn
<1> QED BY <1>3, <1>4, <1>5, <1>6, <1>7, SameMap

(* The growth of the root: all records were the root's.                    *)
LEMMA GrowMap ==
  ASSUME IndInv, ShallowInv, PlaceInv, FoundInv, FoundInv',
         NEW k \in Keys, NEW v \in Values, InsertGrow(k, v)
  PROVE  Map' = Map
<1> DEFINE old == nodes[h.root]
           new == NewRoot(old.pos, h.last + 1)
<1>1. SplitIn(new, 0, old, h.last + 2) /\ Created /\ Created' /\ h'.root = new.pos
      /\ IsFull(old) /\ ~NoBlockLeft(h)
  BY GrowStepIn DEF InsertGrow, SplitChild, Created
<1> HIDE DEF new
<1>2. Stored' = Stored /\ h'.root \in InUse'
  BY <1>1, SplitInRecords DEF SplitIn
<1>3. RootIsLeaf
  BY <1>1, RoomIsBlocksLeft DEF ShallowInv, RootIsInner
<1>4. InUse = {0} /\ h.root = 0
  BY <1>3, SMT DEF RootIsLeaf, InUse
<1>5. Top = Stored
  BY <1>4, StoredIs DEF Top
<1> QED BY <1>1, <1>2, <1>4, <1>5, SameMap

(* A record is stored when no record of its leaf has its key.              *)
LEMMA StoreNew ==
  ASSUME NEW x, WellFormed(x), Sorted(x), NEW k \in Int,
         NEW i, InsertScanStops(x, k, i), i >= 0 => x.records[i].key # k
  PROVE  \A r \in Held(x) : r.key # k
<1>1. i \in -1 .. x.n - 1 /\ x.n \in Int
  BY NodeInts DEF InsertScanStops, WellFormed
<1> SUFFICES ASSUME NEW j \in Live(x) PROVE x.records[j].key # k
  BY DEF Held
<1>2. j \in Slots /\ j < x.n /\ j \in Int /\ 0 <= j /\ x.records[j].key \in Int
  BY LiveKeys, SMT DEF Slots
<1>3. CASE i < j
  BY <1>1, <1>2, <1>3, SMT DEF InsertScanStops
<1>4. CASE i = j
  BY <1>1, <1>2, <1>4, SMT
<1>5. CASE j < i
  <2>1. i \in Live(x) /\ i >= 0
    <3>1. x.n <= MaxRecords /\ MaxRecords \in Nat
      <4>1. x.n \in 0 .. MaxRecords
        BY SMT DEF WellFormed, Node
      <4> QED BY <4>1, Sizes, SMT
    <3> QED BY <1>1, <1>2, <1>5, <3>1, SMT DEF Live, Slots
  <2>2. x.records[i].key \in Int /\ x.records[j].key < x.records[i].key /\ x.records[i].key <= k
    BY <1>5, <2>1, LiveKeys DEF Sorted, InsertScanStops
  <2> QED BY <1>2, <2>2, SMT
<1> QED BY <1>1, <1>2, <1>3, <1>4, <1>5, SMT

(* The key a call looks for in a leaf is in no other, unless in the root.  *)
LEMMA InThisLeaf ==
  ASSUME IndInv, ShallowInv, SearchOrder, pc \in {"insert", "search"}, cur.isLeaf, arg.key \in Int,
         \A i \in ChildSlots : IsChild(cur.pos, h.root, i) => Fits(arg.key, nodes[h.root], i),
         cur.pos # h.root => \A t \in Top : t.key # arg.key,
         NEW r \in Stored, r.key = arg.key
  PROVE  r \in Held(cur)
<1>1. cur = nodes[cur.pos] /\ cur.pos \in InUse /\ Created
  BY DEF ShallowInv, CopyIsCurrent, Created
<1>2. CASE RootIsLeaf
  <2>1. InUse = {0}
    BY <1>2, SMT DEF RootIsLeaf, InUse
  <2> QED BY <1>1, <2>1, StoredIs
<1>3. CASE RootIsInner
  <2>1. h.root = 1 /\ cur.pos # 1
    BY <1>1, <1>3 DEF RootIsInner
  <2>2. PICK j \in ChildSlots : OnlySlot(cur.pos, j)
    BY <1>1, <1>3, <2>1 DEF RootIsInner
  <2>3. IsChild(cur.pos, 1, j)
    BY <1>3, <2>2 DEF RootIsInner, OnlySlot, IsChild
  <2>4. Fits(arg.key, nodes[1], j) /\ \A t \in Top : t.key # arg.key
    BY <2>1, <2>3
  <2>5. r \in Held(nodes[cur.pos])
    BY <1>1, <1>3, <2>3, <2>4, LeafHoldsAll, Zenon
  <2> QED BY <1>1, <2>5
<1> QED BY <1>1, <1>2, <1>3 DEF ShallowInv

(* What is stored are records, with a value. *)
LEMMA StoredRecords == ASSUME IndInv PROVE \A r \in Stored : r \in Record /\ r.value_offset # NoRecord
<1>1. InUse \subseteq Positions
  BY InUseMore
<1>2. ASSUME NEW p \in InUse, NEW j \in Live(nodes[p]) PROVE nodes[p].records[j] \in Record
  BY <1>1, <1>2, IndInvFacts DEF WellFormed, Live
<1>3. Stored \subseteq Record
  BY <1>2 DEF Stored
<1>4. \A r \in Record : r.value_offset \in Values
  BY DEF Record
<1> QED BY <1>3, <1>4, NoRecordAssumption

(* A record stored appears in the map unless the root shadows it.          *)
LEMMA StoreMap ==
  ASSUME IndInv, ShallowInv, OrderInv, PlaceInv, FoundInv, FoundInv',
         NEW i \in -1 .. MaxRecords - 1, InsertStore(i)
  PROVE  Map' = IF Map[arg.key] = NoRecord THEN [Map EXCEPT ![arg.key] = arg.value_offset] ELSE Map
<1> DEFINE k == arg.key
           new == WithRecordAfter(cur, i, arg)
<1>1. /\ pc = "insert" /\ arg \in Record /\ cur.isLeaf
      /\ cur = nodes[cur.pos] /\ cur.pos \in InUse /\ WellFormed(cur) /\ ~IsFull(cur)
      /\ InsertScanStops(cur, k, i) /\ (i >= 0 => cur.records[i].key # k)
      /\ nodes'[cur.pos] = new /\ h' = h /\ pc' = "idle"
      /\ \A p \in InUse : p # cur.pos => nodes'[p] = nodes[p]
  BY StoreIs
<1>2. Created /\ Created' /\ k \in Keys /\ k \in Int
  BY <1>1, KeysAssumption DEF Created, Record
<1>3. Stored' = Stored \cup {arg}
  BY PlaceStore
<1>4. h.root \in InUse /\ InUse \subseteq Positions
  BY IndInvFacts, InUseMore, SMT DEF InUse, Positions
<1>5. Top' = IF cur.pos = h.root THEN Top \cup {arg} ELSE Top
  <2>1. Held(new) = Held(cur) \cup {arg}
    <3>1. i \in Int /\ -1 <= i /\ i < cur.n
      BY <1>1, IndInvFacts, NodeInts, Sizes, SMT DEF InsertScanStops
    <3> QED BY <1>1, <3>1, LeafHeld
  <2>2. Top' = Held(nodes'[h.root])
    BY <1>1 DEF Top, Held, Live
  <2> HIDE DEF new
  <2> QED BY <1>1, <1>4, <2>1, <2>2 DEF Top
<1>6. \A r \in Held(cur) : r.key # k
  <2>1. Sorted(cur)
    BY <1>1, SearchOrderIs DEF OrderInv
  <2> QED BY <1>1, <1>2, <2>1, StoreNew
<1>7. ASSUME \E r \in Stored : r.key = k
      PROVE  cur.pos # h.root /\ \E r \in Top : r.key = k
  <2>1. PICK r \in Stored : r.key = k
    BY <1>7
  <2>2. r \notin Held(cur)
    BY <1>6, <2>1
  <2>3. \A j \in ChildSlots : IsChild(cur.pos, h.root, j) => Fits(k, nodes[h.root], j)
    BY <1>1, <1>4 DEF OrderInv
  <2>4. SearchOrder
    BY DEF OrderInv
  <2> QED BY <1>1, <1>2, <2>1, <2>2, <2>3, <2>4, InThisLeaf
<1>8. \A r \in Stored : r.value_offset # NoRecord
  BY StoredRecords
<1>9. /\ Map = [m \in Keys |-> Map[m]] /\ Map' = [m \in Keys |-> Map'[m]]
  BY DEF FoundInv
<1>10. ASSUME NEW m \in Keys
       PROVE  Map'[m] = IF m = k /\ Map[k] = NoRecord THEN arg.value_offset ELSE Map[m]
  <2>1. /\ \A r \in Top : r.key = m => Map[m] = r.value_offset
        /\ (\A r \in Top : r.key # m) => \A r \in Stored : r.key = m => Map[m] = r.value_offset
        /\ (\A r \in Stored : r.key # m) => Map[m] = NoRecord
    BY <1>2 DEF FoundInv
  <2>2. /\ \A r \in Top' : r.key = m => Map'[m] = r.value_offset
        /\ (\A r \in Top' : r.key # m) => \A r \in Stored' : r.key = m => Map'[m] = r.value_offset
        /\ (\A r \in Stored' : r.key # m) => Map'[m] = NoRecord
    BY <1>2 DEF FoundInv
  <2>3. Top \subseteq Stored
    BY <1>4, StoredIs DEF Top
  <2>4. CASE m # k
    BY ONLY <1>3, <1>5, <2>1, <2>2, <2>3, <2>4, Zenon
  <2>5. CASE m = k /\ \E r \in Stored : r.key = k
    <3>1. PICK r \in Top : r.key = k
      BY <1>7, <2>5
    <3>2. Top' = Top /\ Map[k] = r.value_offset /\ Map[k] # NoRecord
      BY <1>5, <1>7, <1>8, <2>1, <2>3, <2>5, <3>1
    <3> QED BY <2>2, <2>5, <3>1, <3>2
  <2>6. CASE m = k /\ \A r \in Stored : r.key # k
    <3>1. Map[k] = NoRecord
      BY <2>1, <2>6
    <3>2. Map'[k] = arg.value_offset
      BY ONLY <1>3, <1>5, <2>2, <2>3, <2>6, Zenon
    <3> QED BY <2>6, <3>1, <3>2
  <2> QED BY <2>4, <2>5, <2>6
<1> HIDE DEF k
<1>11. CASE Map[k] = NoRecord
  <2>1. \A m \in Keys : Map'[m] = [Map EXCEPT ![k] = arg.value_offset][m]
    BY <1>2, <1>9, <1>10, <1>11
  <2>2. [Map EXCEPT ![k] = arg.value_offset] = [m \in Keys |-> [Map EXCEPT ![k] = arg.value_offset][m]]
    BY <1>9
  <2>3. Map' = [Map EXCEPT ![k] = arg.value_offset]
    BY <1>9, <2>1, <2>2
  <2> QED BY <1>11, <2>3 DEF k
<1>12. CASE Map[k] # NoRecord
  <2>1. Map' = Map
    BY <1>9, <1>10, <1>12
  <2> QED BY <1>12, <2>1 DEF k
<1> QED BY <1>11, <1>12

-----------------------------------------------------------------------------
(* The refinement, step by step. *)

(* The calls, as the map sees them. *)
LEMMA Begins ==
  ASSUME CallInv, pc = "idle", Map' = Map, ret' = ret,
         NEW k \in Keys, NEW v \in Values \cup {NoRecord}, arg' = Argument(k, v)
  PROVE  KV!Next
BY DEF CallInv, Argument, KV!Next, KV!Begin

LEMMA IsInsertion ==
  ASSUME IndInv, pc = "insert" PROVE KV!IsInsert /\ arg \in Record
<1>1. /\ arg \in [key : Keys, value_offset : Values]
      /\ arg \in [key : Keys, value_offset : Values \cup {NoRecord}]
  BY DEF IndInv, Record
<1>2. arg.value_offset \in Values
  BY <1>1
<1> QED BY <1>1, <1>2, NoRecordAssumption DEF KV!IsInsert, Record

LEMMA IsLookup ==
  ASSUME CallInv, pc = "search" PROVE KV!IsSearch /\ arg.key \in Keys /\ arg.key \in Int
<1>1. /\ arg \in [key : Keys, value_offset : {NoRecord}]
      /\ arg \in [key : Keys, value_offset : Values \cup {NoRecord}]
  BY DEF CallInv
<1>2. arg.value_offset = NoRecord /\ arg.key \in Keys
  BY <1>1
<1> QED BY <1>1, <1>2, NoRecordAssumption, KeysAssumption DEF KV!IsSearch

(* A search that finds the key returns the map's value, one that does not  *)
(* reach it finds the map without it.                                      *)
LEMMA FoundGet ==
  ASSUME IndInv, ShallowInv, MapInv, Map' = Map, NEW i \in ChildSlots, SearchFound(i)
  PROVE  KV!Get
<1> DEFINE r == cur.records[i]
<1>1. /\ pc = "search" /\ i < cur.n /\ r.key = arg.key /\ ret' = r.value_offset /\ arg' = NoRecord
      /\ Created
  BY DEF SearchFound, SearchesAt, HasKeyAt, Return, Created
<1>2. KV!IsSearch /\ arg.key \in Keys
  BY <1>1, IsLookup DEF MapInv
<1>3. cur = nodes[cur.pos] /\ cur.pos \in InUse
  BY <1>1 DEF ShallowInv, CopyIsCurrent
<1>4. r \in Held(cur)
  <2>1. i \in Live(cur)
    BY <1>1, IndInvFacts, Sizes, SMT DEF Live, Slots, ChildSlots, Node
  <2> QED BY <2>1 DEF Held
<1>5. r \in Stored
  BY <1>3, <1>4, StoredIs
<1> HIDE DEF r
<1>6. Map[arg.key] = r.value_offset
  <2>1. CASE cur.pos = h.root
    BY <1>1, <1>2, <1>3, <1>4, <2>1 DEF MapInv, FoundInv, Top
  <2>2. CASE cur.pos # h.root
    BY <1>1, <1>2, <1>5, <2>2 DEF MapInv, FoundInv, SearchInv
  <2> QED BY <2>1, <2>2
<1>7. r.value_offset # NoRecord
  BY <1>5, StoredRecords
<1> QED BY <1>1, <1>2, <1>6, <1>7 DEF KV!Get

LEMMA MissingGet ==
  ASSUME IndInv, ShallowInv, MapInv, Map' = Map, NEW i \in ChildSlots, SearchMissing(i)
  PROVE  KV!Get
<1>1. /\ pc = "search" /\ cur.isLeaf /\ SearchScanStops(cur, arg.key, i) /\ ~HasKeyAt(i)
      /\ ret' = "notfound" /\ arg' = NoRecord /\ Created
  BY DEF SearchMissing, SearchesAt, Return, Created
<1>2. KV!IsSearch /\ arg.key \in Keys /\ arg.key \in Int
  BY <1>1, IsLookup DEF MapInv
<1>3. cur = nodes[cur.pos] /\ cur.pos \in InUse /\ SearchOrder
  BY <1>1 DEF ShallowInv, CopyIsCurrent, MapInv, OrderInv
<1>4. \A r \in Held(cur) : r.key # arg.key
  <2>1. WellFormed(cur) /\ Sorted(cur)
    BY <1>3, IndInvFacts, SearchOrderIs
  <2> QED BY <1>1, <1>2, <2>1, ScanFinds DEF HasKeyAt
<1>5. /\ \A j \in ChildSlots : IsChild(cur.pos, h.root, j) => Fits(arg.key, nodes[h.root], j)
      /\ cur.pos # h.root => \A t \in Top : t.key # arg.key
  <2>1. CASE cur.pos = h.root
    BY <1>1, <1>3, <2>1 DEF IsChild
  <2>2. CASE cur.pos # h.root
    BY <1>1, <2>2 DEF MapInv, SearchInv
  <2> QED BY <2>1, <2>2
<1>6. \A r \in Stored : r.key # arg.key
  BY <1>1, <1>2, <1>3, <1>4, <1>5, InThisLeaf
<1>7. Map[arg.key] = NoRecord
  BY <1>1, <1>2, <1>6 DEF MapInv, FoundInv
<1> QED BY <1>1, <1>2, <1>7 DEF KV!Get

(* Every step of a shallow tree is a step of the map or leaves it alone.   *)
LEMMA MapNext ==
  ASSUME Shallow, IndInv, ShallowInv, MapInv, IndInv', MapInv', [Next]_vars
  PROVE  [KV!Next]_(KV!vars)
<1> DEFINE Stutters == Map' = Map /\ arg' = arg /\ ret' = ret
<1>1. Stutters => [KV!Next]_(KV!vars)
  BY DEF KV!vars
<1>2. FoundInv /\ FoundInv' /\ PlaceInv /\ OrderInv /\ CallInv
  BY DEF MapInv
<1>3. ASSUME OpenCreate PROVE Stutters
  BY <1>2, <1>3, CreateMap DEF OpenCreate
<1>4. ASSUME OpenExisting \/ Close PROVE Stutters
  <2>1. UNCHANGED <<nodes, h, arg, ret>> /\ Created /\ Created'
    BY <1>4 DEF OpenExisting, Close, Created, IndInv, HeaderIsCurrent
  <2> QED BY <1>2, <2>1, QuietMap
<1>5. ASSUME InsertRefused PROVE KV!Next
  <2>1. UNCHANGED <<nodes, h>> /\ Created /\ Created' /\ pc = "idle" /\ arg' = NoRecord /\ ret' = "full"
    BY <1>5 DEF InsertRefused, Return, Created
  <2>2. Map' = Map /\ arg = NoRecord
    BY <1>2, <2>1, QuietMap DEF CallInv
  <2> QED BY <2>1, <2>2 DEF KV!Next, KV!Full
<1>6. ASSUME NEW k \in Keys, SearchBegin(k) PROVE KV!Next
  <2>1. /\ UNCHANGED <<nodes, h>> /\ Created /\ Created' /\ pc = "idle" /\ ret' = ret
        /\ arg' = Argument(k, NoRecord)
    BY <1>6 DEF SearchBegin, Created
  <2> QED BY <1>2, <2>1, QuietMap, Begins
<1>7. ASSUME NEW k \in Keys, NEW v \in Values, InsertBegin(k, v) PROVE KV!Next
  <2>1. /\ UNCHANGED <<nodes, h>> /\ Created /\ Created' /\ pc = "idle" /\ ret' = ret
        /\ arg' = Argument(k, v)
    BY <1>7 DEF InsertBegin, Created
  <2> QED BY <1>2, <2>1, QuietMap, Begins
<1>8. ASSUME NEW k \in Keys, NEW v \in Values, InsertGrow(k, v) PROVE KV!Next
  <2>1. pc = "idle" /\ ret' = ret /\ arg' = Argument(k, v)
    BY <1>8 DEF InsertGrow
  <2> QED BY <1>2, <1>8, <2>1, GrowMap, Begins
<1>9. ASSUME NEW i \in ChildSlots, InsertDescend(i) \/ SearchDescend(i) PROVE Stutters
  <2>1. UNCHANGED <<nodes, h, arg, ret>> /\ Created /\ Created'
    BY <1>9 DEF InsertDescend, SearchDescend, InsertsBelow, SearchesAt, Created
  <2> QED BY <1>2, <2>1, QuietMap
<1>10. ASSUME NEW i \in ChildSlots, InsertSplit(i) PROVE Stutters
  BY <1>2, <1>10, SplitMap DEF InsertSplit
<1>11. ASSUME NEW i \in -1 .. MaxRecords - 1, InsertDuplicate(i) PROVE KV!Next
  <2>1. /\ UNCHANGED <<nodes, h>> /\ Created /\ Created' /\ pc = "insert" /\ arg' = NoRecord
        /\ ret' = "dup"
    BY <1>11 DEF InsertDuplicate, InsertsAfter, Return, Created
  <2>2. Map' = Map /\ KV!IsInsert
    BY <1>2, <2>1, QuietMap, IsInsertion
  <2> QED BY <2>1, <2>2 DEF KV!Next, KV!Refuse
<1>12. ASSUME NEW i \in -1 .. MaxRecords - 1, InsertStore(i) PROVE KV!Next
  <2>1. pc = "insert" /\ arg' = NoRecord /\ ret' = "done"
    BY <1>12 DEF InsertStore, InsertsAfter, Return
  <2>2. KV!IsInsert
    BY <2>1, IsInsertion
  <2>3. Map' = IF Map[arg.key] = NoRecord THEN [Map EXCEPT ![arg.key] = arg.value_offset] ELSE Map
    BY <1>2, <1>12, StoreMap
  <2> QED BY <2>1, <2>2, <2>3 DEF KV!Next, KV!Put
<1>13. ASSUME NEW i \in ChildSlots, SearchFound(i) \/ SearchMissing(i) PROVE KV!Next
  <2>1. UNCHANGED <<nodes, h>> /\ Created /\ Created'
    BY <1>13 DEF SearchFound, SearchMissing, SearchesAt, Return, Created
  <2>2. Map' = Map
    BY <1>2, <2>1, QuietMap
  <2> QED BY <1>13, <2>2, FoundGet, MissingGet DEF KV!Next
<1>14. ASSUME NEW i \in -1 .. MaxRecords - 1 PROVE ~InsertOverflows(i)
  BY DEF InsertOverflows, InsertsAfter, ShallowInv
<1>15. UNCHANGED vars => Stutters
  <2>1. ASSUME UNCHANGED vars PROVE Stutters
    <3>1. nodes' = nodes /\ h' = h /\ pc' = pc /\ arg' = arg /\ ret' = ret
      BY <2>1 DEF vars
    <3>2. CASE Created
      BY <1>2, <3>1, <3>2, QuietMap DEF Created
    <3>3. CASE ~Created
      <4>1. \A k \in Keys : Map[k] = NoRecord /\ Map'[k] = NoRecord
        BY <1>2, <3>1, <3>3 DEF FoundInv, Created
      <4>2. Map = [k \in Keys |-> Map[k]] /\ Map' = [k \in Keys |-> Map'[k]]
        BY <1>2 DEF FoundInv
      <4>3. Map' = Map
        BY ONLY <4>1, <4>2, Zenon
      <4> QED BY <3>1, <4>3
    <3> QED BY <3>2, <3>3
  <2> QED BY <2>1
<1> HIDE DEF Stutters
<1>16. CASE Call
  BY <1>1, <1>3, <1>4, <1>5, <1>6, <1>7, <1>8, <1>16, ShallowNoGrowLast, Zenon DEF Call
<1>17. CASE InsertStep
  BY <1>1, <1>9, <1>10, <1>11, <1>12, <1>14, <1>17, ShallowAlwaysSplits, Zenon DEF InsertStep
<1>18. CASE SearchStep
  BY <1>1, <1>9, <1>13, <1>18, ShallowAlwaysSplits, Zenon DEF SearchStep
<1> QED BY <1>1, <1>15, <1>16, <1>17, <1>18 DEF Next

(* In a tree of max_depth 0 or 1, of any node size, every behaviour of     *)
(* btree_insert and btree_search on a handle is one of a map: the first    *)
(* value stored under a key is the one every later search returns, through *)
(* splits, the growth of the root, shadowed duplicates and reopens.        *)
THEOREM ShallowImplementsMap == Shallow => (Spec => ImplementsMap)
<1> SUFFICES ASSUME Shallow PROVE Spec => ImplementsMap
  OBVIOUS
<1>1. Init => KV!Init
  <2>1. Init => Map = [k \in Keys |-> NoRecord]
    BY DEF Init, Map, Created
  <2> QED BY <2>1 DEF Init, KV!Init
<1>2. /\ IndInv /\ ShallowInv /\ MapInv /\ (IndInv /\ ShallowInv /\ MapInv)' /\ [Next]_vars
      => [KV!Next]_(KV!vars)
  BY MapNext
<1> QED
  BY <1>1, <1>2, MapInvariance, PTL DEF Spec, ImplementsMap, KV!Spec
=============================================================================
