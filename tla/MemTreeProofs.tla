---------------------------- MODULE MemTreeProofs ----------------------------
(***************************************************************************)
(* Proofs about the tree in memory, for every order, any set of addresses, *)
(* and any script.  Heaps are parameters here (hp: the nodes, us: the      *)
(* addresses in use, rt: the root), so that what an operation makes of one *)
(* is said once, without primes.                                           *)
(***************************************************************************)
EXTENDS MemTreeSafety, TLAPS, WellFoundedInduction

-----------------------------------------------------------------------------
(* Scans end at a slot up to n. *)

LEMMA OrderFacts ==
  /\ Order \in Nat /\ Order >= 2 /\ MaxKeys \in Nat /\ MaxKeys = 2 * Order - 1
  /\ Slots = 0 .. 2 * Order - 2 /\ ChildSlots = 0 .. 2 * Order - 1
  /\ Slots \subseteq Int /\ ChildSlots \subseteq Int
BY OrderAssumption, SMT DEF MaxKeys, Slots, ChildSlots

LEMMA NodeIs ==
  ASSUME NEW x \in Node
  PROVE  /\ x.leaf \in BOOLEAN /\ x.n \in Nat /\ x.n <= MaxKeys
         /\ x.n \in Int /\ x.n >= 0 /\ x.n \in ChildSlots
         /\ x.keys \in [Slots -> Keys \cup {0}]
         /\ \A j \in Slots : x.keys[j] \in Int
         /\ x.children \in [ChildSlots -> Addresses \cup {NULL}]
<1>1. /\ x.leaf \in BOOLEAN /\ x.n \in 0 .. MaxKeys
      /\ x.keys \in [Slots -> Keys \cup {0}]
      /\ x.children \in [ChildSlots -> Addresses \cup {NULL}]
  BY DEF Node
<1>2. ASSUME NEW j \in Slots PROVE x.keys[j] \in Int
  <2>1. x.keys[j] \in Keys \cup {0}
    BY <1>1
  <2>2. CASE x.keys[j] \in Keys
    BY <2>2, KeysAssumption
  <2> QED BY <2>1, <2>2, SMT
<1> QED BY <1>1, <1>2, OrderFacts, SMT DEF ChildSlots

(* A set of numbers that has a member has a least one.                     *)
LEMMA LeastIs ==
  ASSUME NEW S \in SUBSET Nat, NEW s \in S
  PROVE  \E m \in S : \A t \in S : m <= t
<1>1. IsWellFoundedOn(OpToRel(<, Nat), Nat)
  BY NatLessThanWellFounded
<1>2. PICK m \in S : \A t \in S : ~(<<t, m>> \in OpToRel(<, Nat))
  BY <1>1, WFMin
<1>3. ASSUME NEW t \in S PROVE m <= t
  <2>1. ~(t < m) \/ ~(t \in Nat /\ m \in Nat)
    BY <1>2 DEF OpToRel
  <2> QED BY <2>1, SMT
<1> QED BY <1>3

LEMMA ScanUpIs ==
  ASSUME NEW x \in Node, NEW k \in Int
  PROVE  ScanUp(x, k) \in 0 .. x.n
<1> DEFINE Stop == {s \in 0 .. x.n : s < x.n => k <= x.keys[s]}
           P(i) == /\ \A j \in 0 .. i - 1 : x.keys[j] < k
                   /\ i < x.n => k <= x.keys[i]
<1>1. Stop \subseteq Nat /\ x.n \in Stop
  BY NodeIs, SMT
<1>2. PICK i \in Stop : \A t \in Stop : i <= t
  BY <1>1, LeastIs
<1>3. ASSUME NEW j \in 0 .. i - 1 PROVE x.keys[j] < k
  <2>1. j \in Int /\ 0 <= j /\ j < i /\ i <= x.n /\ i \in Int /\ j \notin Stop
    BY <1>1, <1>2, <1>3, NodeIs, SMT
  <2>2. j \in 0 .. x.n /\ j < x.n /\ j \in Slots
    BY <2>1, NodeIs, OrderFacts, SMT
  <2>3. ~(k <= x.keys[j]) /\ x.keys[j] \in Int
    BY <2>1, <2>2, NodeIs
  <2> QED BY <2>3, SMT
<1>4. i \in 0 .. x.n /\ P(i)
  BY <1>2, <1>3
<1> QED BY <1>4 DEF ScanUp

LEMMA ScanDownIs ==
  ASSUME NEW x \in Node, NEW k \in Int
  PROVE  ScanDown(x, k) \in 0 .. x.n
<1> DEFINE Stop == {s \in 0 .. x.n : x.n - s > 0 => x.keys[x.n - s - 1] <= k}
           P(i) == /\ \A j \in i .. x.n - 1 : k < x.keys[j]
                   /\ i > 0 => x.keys[i - 1] <= k
<1>1. Stop \subseteq Nat /\ x.n \in Stop
  BY NodeIs, SMT
<1>2. PICK s \in Stop : \A t \in Stop : s <= t
  BY <1>1, LeastIs
<1> DEFINE i == x.n - s
<1>3. s \in 0 .. x.n /\ i \in 0 .. x.n /\ (i > 0 => x.keys[i - 1] <= k)
  BY <1>2, NodeIs, SMT
<1>4. ASSUME NEW j \in i .. x.n - 1 PROVE k < x.keys[j]
  <2>1. x.n - 1 - j \in 0 .. x.n /\ x.n - 1 - j < s /\ j \in Slots
    BY <1>3, <1>4, NodeIs, OrderFacts, SMT
  <2>2. x.n - 1 - j \notin Stop
    BY <1>1, <1>2, <2>1, SMT
  <2>3. x.n - (x.n - 1 - j) > 0 /\ x.n - (x.n - 1 - j) - 1 = j
    BY <1>3, <1>4, NodeIs, SMT
  <2>4. ~(x.keys[j] <= k) /\ x.keys[j] \in Int
    BY <2>1, <2>2, <2>3, NodeIs
  <2> QED BY <2>4, SMT
<1>5. i \in 0 .. x.n /\ P(i)
  BY <1>3, <1>4
<1> HIDE DEF i
<1> QED BY <1>5 DEF ScanDown

-----------------------------------------------------------------------------
(* What the operations make of a node. *)

LEMMA LowerHalfIs ==
  ASSUME NEW y \in Node
  PROVE  /\ LowerHalf(y) \in Node
         /\ LowerHalf(y).leaf = y.leaf /\ LowerHalf(y).n = Order - 1
         /\ LowerHalf(y).keys = y.keys /\ LowerHalf(y).children = y.children
<1>1. Order - 1 \in 0 .. MaxKeys
  BY OrderFacts, SMT
<1> QED BY <1>1 DEF LowerHalf, Node

LEMMA UpperHalfIs ==
  ASSUME NEW y \in Node
  PROVE  /\ UpperHalf(y) \in Node
         /\ UpperHalf(y).leaf = y.leaf /\ UpperHalf(y).n = Order - 1
         /\ \A j \in ChildSlots :
              UpperHalf(y).children[j] = IF ~y.leaf /\ j < Order THEN y.children[Order + j] ELSE NULL
<1>1. Order - 1 \in 0 .. MaxKeys
  BY OrderFacts, SMT
<1>2. [j \in Slots |-> IF j < Order - 1 THEN y.keys[Order + j] ELSE 0] \in [Slots -> Keys \cup {0}]
  <2>1. \A j \in Slots : j < Order - 1 => Order + j \in Slots
    BY OrderFacts, SMT
  <2> QED BY <2>1, NodeIs
<1>3. [j \in ChildSlots |-> IF ~y.leaf /\ j < Order THEN y.children[Order + j] ELSE NULL]
        \in [ChildSlots -> Addresses \cup {NULL}]
  <2>1. \A j \in ChildSlots : j < Order => Order + j \in ChildSlots
    BY OrderFacts, SMT
  <2> QED BY <2>1, NodeIs
<1> QED BY <1>1, <1>2, <1>3, NodeIs DEF UpperHalf, Node

LEMMA KeyAddedIs ==
  ASSUME NEW x \in Node, NEW i \in 0 .. MaxKeys, NEW k \in Keys \cup {0}
  PROVE  KeyAdded(x, i, k) \in [Slots -> Keys \cup {0}]
<1>1. \A j \in Slots : i < j => j - 1 \in Slots
  BY OrderFacts, SMT
<1> QED BY <1>1, NodeIs DEF KeyAdded

LEMMA KeyRemovedIs ==
  ASSUME NEW x \in Node, NEW i \in 0 .. MaxKeys
  PROVE  KeyRemoved(x, i) \in [Slots -> Keys \cup {0}]
<1>1. \A j \in Slots : i <= j /\ j < x.n - 1 => j + 1 \in Slots
  BY NodeIs, OrderFacts, SMT
<1> QED BY <1>1, NodeIs DEF KeyRemoved

LEMMA ChildAddedIs ==
  ASSUME NEW x \in Node, NEW i \in 0 .. MaxKeys, NEW a \in Addresses \cup {NULL}
  PROVE  /\ ChildAdded(x, i, a) \in [ChildSlots -> Addresses \cup {NULL}]
         /\ \A j \in ChildSlots : 
              /\ j < i => ChildAdded(x, i, a)[j] = x.children[j]
              /\ j = i => ChildAdded(x, i, a)[j] = a
              /\ i < j /\ j <= x.n + 1 => ChildAdded(x, i, a)[j] = x.children[j - 1]
<1>1. \A j \in ChildSlots : i < j => j - 1 \in ChildSlots
  BY OrderFacts, SMT
<1>2. ChildAdded(x, i, a) \in [ChildSlots -> Addresses \cup {NULL}]
  BY <1>1, NodeIs DEF ChildAdded
<1>3. \A j \in ChildSlots : ChildAdded(x, i, a)[j] =
        CASE j = i -> a [] i < j /\ j <= x.n + 1 -> x.children[j - 1] [] OTHER -> x.children[j]
  BY DEF ChildAdded
<1>4. i \in Int
  OBVIOUS
<1> QED BY <1>2, <1>3, <1>4, OrderFacts, SMT

LEMMA ChildRemovedIs ==
  ASSUME NEW x \in Node, NEW i \in 0 .. MaxKeys
  PROVE  /\ ChildRemoved(x, i) \in [ChildSlots -> Addresses \cup {NULL}]
         /\ \A j \in ChildSlots :
              ChildRemoved(x, i)[j] = IF i <= j /\ j < x.n THEN x.children[j + 1] ELSE x.children[j]
<1>1. \A j \in ChildSlots : j < x.n => j + 1 \in ChildSlots
  BY NodeIs, OrderFacts, SMT
<1> QED BY <1>1, NodeIs DEF ChildRemoved

LEMMA WithHalfIs ==
  ASSUME NEW x \in Node, NEW y \in Node, NEW i \in 0 .. x.n, NEW a \in Addresses, ~IsFull(x)
  PROVE  /\ WithHalf(x, i, y, a) \in Node
         /\ WithHalf(x, i, y, a).leaf = x.leaf /\ WithHalf(x, i, y, a).n = x.n + 1
         /\ WithHalf(x, i, y, a).children = ChildAdded(x, i + 1, a)
<1>0. x.n # MaxKeys /\ x.n \in Nat /\ x.n <= MaxKeys
  BY NodeIs DEF IsFull
<1>1. x.n + 1 \in 0 .. MaxKeys /\ i \in 0 .. MaxKeys /\ i + 1 \in 0 .. MaxKeys /\ Order - 1 \in Slots
  BY <1>0, OrderFacts, SMT
<1>2. y.keys[Order - 1] \in Keys \cup {0}
  BY <1>1, NodeIs
<1>3. /\ KeyAdded(x, i, y.keys[Order - 1]) \in [Slots -> Keys \cup {0}]
      /\ ChildAdded(x, i + 1, a) \in [ChildSlots -> Addresses \cup {NULL}]
  BY <1>1, <1>2, KeyAddedIs, ChildAddedIs
<1> QED BY <1>1, <1>3 DEF WithHalf, Node

LEMMA JoinedIs ==
  ASSUME NEW x \in Node, NEW i \in Slots, NEW l \in Node, NEW r \in Node
  PROVE  /\ Joined(x, i, l, r) \in Node
         /\ Joined(x, i, l, r).leaf = l.leaf /\ Joined(x, i, l, r).n = MaxKeys
         /\ \A j \in ChildSlots : Joined(x, i, l, r).children[j] =
              IF ~r.leaf /\ j >= Order THEN r.children[j - Order] ELSE l.children[j]
<1>1. MaxKeys \in 0 .. MaxKeys
  BY OrderFacts, SMT
<1>2. /\ \A j \in Slots : j > Order - 1 => j - Order \in Slots
      /\ \A j \in ChildSlots : j >= Order => j - Order \in ChildSlots
      /\ \A j \in Slots : j < Order - 1 \/ j = Order - 1 \/ j > Order - 1
  BY OrderFacts, SMT
<1>3. [j \in Slots |-> CASE j < Order - 1 -> l.keys[j]
                         [] j = Order - 1 -> x.keys[i]
                         [] j > Order - 1 -> r.keys[j - Order]] \in [Slots -> Keys \cup {0}]
  <2>1. /\ \A j \in Slots : l.keys[j] \in Keys \cup {0}
        /\ x.keys[i] \in Keys \cup {0}
        /\ \A j \in Slots : j > Order - 1 => r.keys[j - Order] \in Keys \cup {0}
    BY <1>2, NodeIs
  <2> QED BY <1>2, <2>1, OrderFacts, SMT
<1>4. [j \in ChildSlots |-> IF ~r.leaf /\ j >= Order THEN r.children[j - Order] ELSE l.children[j]]
        \in [ChildSlots -> Addresses \cup {NULL}]
  BY <1>2, NodeIs
<1> QED BY <1>1, <1>3, <1>4 DEF Joined, Node

LEMMA WithoutKeyIs ==
  ASSUME NEW x \in Node, NEW i \in 0 .. x.n - 1
  PROVE  /\ WithoutKey(x, i) \in Node
         /\ WithoutKey(x, i).leaf = x.leaf /\ WithoutKey(x, i).n = x.n - 1
         /\ WithoutKey(x, i).children = ChildRemoved(x, i + 1)
<1>1. x.n - 1 \in 0 .. MaxKeys /\ i \in 0 .. MaxKeys /\ i + 1 \in 0 .. MaxKeys
  BY NodeIs, OrderFacts, SMT
<1>2. KeyRemoved(x, i) \in [Slots -> Keys \cup {0}] /\ ChildRemoved(x, i + 1) \in [ChildSlots -> Addresses \cup {NULL}]
  BY <1>1, KeyRemovedIs, ChildRemovedIs
<1> QED BY <1>1, <1>2 DEF WithoutKey, Node

LEMMA GivenFirstIs ==
  ASSUME NEW x \in Node, NEW i \in Slots, NEW c \in Node, NEW l \in Node, ~IsFull(c)
  PROVE  /\ GivenFirst(x, i, c, l) \in Node
         /\ GivenFirst(x, i, c, l).leaf = c.leaf /\ GivenFirst(x, i, c, l).n = c.n + 1
         /\ l.leaf => GivenFirst(x, i, c, l).children = [c.children EXCEPT ![0] = l.children[l.n]]
         /\ ~l.leaf => GivenFirst(x, i, c, l).children = ChildAdded(c, 0, l.children[l.n])
<1>0. c.n # MaxKeys /\ c.n \in Nat /\ c.n <= MaxKeys /\ l.n \in ChildSlots
  BY NodeIs DEF IsFull
<1>1. c.n + 1 \in 0 .. MaxKeys /\ 0 \in 0 .. MaxKeys /\ 0 \in ChildSlots /\ l.n \in ChildSlots
  BY <1>0, OrderFacts, SMT
<1>2. l.children[l.n] \in Addresses \cup {NULL} /\ x.keys[i] \in Keys \cup {0}
  BY <1>1, NodeIs
<1>3. /\ KeyAdded(c, 0, x.keys[i]) \in [Slots -> Keys \cup {0}]
      /\ ChildAdded(c, 0, l.children[l.n]) \in [ChildSlots -> Addresses \cup {NULL}]
      /\ [c.children EXCEPT ![0] = l.children[l.n]] \in [ChildSlots -> Addresses \cup {NULL}]
  BY <1>1, <1>2, KeyAddedIs, ChildAddedIs, NodeIs
<1> QED BY <1>1, <1>3 DEF GivenFirst, Node

LEMMA WithoutLastIs ==
  ASSUME NEW l \in Node, l.n > 0
  PROVE  /\ WithoutLast(l) \in Node
         /\ WithoutLast(l).leaf = l.leaf /\ WithoutLast(l).n = l.n - 1
         /\ WithoutLast(l).keys = l.keys /\ WithoutLast(l).children = l.children
<1>1. l.n - 1 \in 0 .. MaxKeys
  BY NodeIs, OrderFacts, SMT
<1> QED BY <1>1 DEF WithoutLast, Node

LEMMA GivenLastIs ==
  ASSUME NEW x \in Node, NEW i \in Slots, NEW c \in Node, NEW r \in Node, ~IsFull(c)
  PROVE  /\ GivenLast(x, i, c, r) \in Node
         /\ GivenLast(x, i, c, r).leaf = c.leaf /\ GivenLast(x, i, c, r).n = c.n + 1
         /\ r.leaf => GivenLast(x, i, c, r).children = c.children
         /\ ~r.leaf => GivenLast(x, i, c, r).children = [c.children EXCEPT ![c.n + 1] = r.children[0]]
<1>0. c.n # MaxKeys /\ c.n \in Nat /\ c.n <= MaxKeys
  BY NodeIs DEF IsFull
<1>1. c.n + 1 \in 0 .. MaxKeys /\ 0 \in ChildSlots /\ c.n + 1 \in ChildSlots
  BY <1>0, OrderFacts, SMT
<1>2. r.children[0] \in Addresses \cup {NULL} /\ x.keys[i] \in Keys \cup {0}
  BY <1>1, NodeIs
<1>3. /\ [c.keys EXCEPT ![c.n] = x.keys[i]] \in [Slots -> Keys \cup {0}]
      /\ [c.children EXCEPT ![c.n + 1] = r.children[0]] \in [ChildSlots -> Addresses \cup {NULL}]
  BY <1>1, <1>2, NodeIs
<1> QED BY <1>1, <1>3 DEF GivenLast, Node

LEMMA WithoutFirstIs ==
  ASSUME NEW r \in Node, r.n > 0
  PROVE  /\ WithoutFirst(r) \in Node
         /\ WithoutFirst(r).leaf = r.leaf /\ WithoutFirst(r).n = r.n - 1
         /\ r.leaf => WithoutFirst(r).children = r.children
         /\ ~r.leaf => WithoutFirst(r).children = ChildRemoved(r, 0)
<1>1. r.n - 1 \in 0 .. MaxKeys /\ 0 \in 0 .. MaxKeys
  BY NodeIs, OrderFacts, SMT
<1>2. KeyRemoved(r, 0) \in [Slots -> Keys \cup {0}] /\ ChildRemoved(r, 0) \in [ChildSlots -> Addresses \cup {NULL}]
  BY <1>1, KeyRemovedIs, ChildRemovedIs
<1> QED BY <1>1, <1>2 DEF WithoutFirst, Node

-----------------------------------------------------------------------------
(* Heaps. *)

(* Live child slot i of node b holds a.                                    *)
IsKid(hp, us, a, b, i) ==
  b \in us /\ i \in ChildSlots /\ ~hp[b].leaf /\ i <= hp[b].n /\ hp[b].children[i] = a

(* The nodes of a tree, one by one: every node but the root is half full,  *)
(* a leaf has no children, and no key was ever in an empty one.            *)
Filled(hp, us, rt) ==
  /\ hp \in [Addresses -> Node]
  /\ us \subseteq Addresses
  /\ \A a \in us :
       /\ a # rt => hp[a].n >= Order - 1
       /\ hp[a].leaf => \A j \in ChildSlots : hp[a].children[j] = NULL
       /\ hp[a].leaf /\ hp[a].n = 0 => \A j \in Slots : hp[a].keys[j] = 0

(* How they hang together: every node but the root in one slot, the root   *)
(* in none.                                                                *)
Linked(hp, us, rt) ==
  /\ rt \in us
  /\ \A a, b, i : IsKid(hp, us, a, b, i) => a \in us /\ a # rt
  /\ \A a, b, c, i, j : IsKid(hp, us, a, b, i) /\ IsKid(hp, us, a, c, j) => b = c /\ i = j
  /\ \A a \in us : a # rt => \E b, i : IsKid(hp, us, a, b, i)

(* Every node is one level above its children, the leaves are at level 0   *)
(* and the root is above all others.                                       *)
IsLevel(f, hp, us, rt) ==
  /\ f \in [us -> Nat]
  /\ \A a \in us : hp[a].leaf <=> f[a] = 0
  /\ \A a \in us : a # rt => f[a] < f[rt]
  /\ \A a, b, i : IsKid(hp, us, a, b, i) => f[b] = f[a] + 1

Levelled(hp, us, rt) == \E f : IsLevel(f, hp, us, rt)

Sound(hp, us, rt) == Filled(hp, us, rt) /\ Linked(hp, us, rt) /\ Levelled(hp, us, rt)

(* A parent and its child are two nodes, and two children of one parent    *)
(* are leaves both or neither.                                             *)
LEMMA KidIs ==
  ASSUME NEW hp, NEW us, NEW rt, Sound(hp, us, rt),
         NEW a, NEW b, NEW i, IsKid(hp, us, a, b, i)
  PROVE  /\ a \in us /\ b \in us /\ a # b /\ a # rt /\ a \in Addresses /\ b \in Addresses
         /\ hp[a] \in Node /\ hp[b] \in Node
         /\ hp[a].n >= Order - 1 /\ hp[a].n \in Nat
         /\ i \in ChildSlots /\ i <= hp[b].n /\ ~hp[b].leaf /\ hp[b].children[i] = a
         /\ \A c, j : IsKid(hp, us, c, b, j) => (hp[c].leaf <=> hp[a].leaf)
         /\ \A c, j : IsKid(hp, us, c, b, j) /\ i # j => a # c
<1>1. /\ a \in us /\ a # rt /\ b \in us
      /\ i \in ChildSlots /\ i <= hp[b].n /\ ~hp[b].leaf /\ hp[b].children[i] = a
  BY DEF Sound, Linked, IsKid
<1>2. PICK f : IsLevel(f, hp, us, rt)
  BY DEF Sound, Levelled
<1>3. /\ f[a] \in Nat /\ f[b] = f[a] + 1
      /\ \A c, j : IsKid(hp, us, c, b, j) => c \in us /\ f[b] = f[c] + 1 /\ f[c] \in Nat
  BY <1>1, <1>2 DEF IsLevel, Sound, Linked
<1>4. a # b
  BY <1>3, SMT
<1>5. ASSUME NEW c, NEW j, IsKid(hp, us, c, b, j) PROVE hp[c].leaf <=> hp[a].leaf
  <2>1. c \in us /\ f[c] = f[a]
    BY <1>3, <1>5, SMT
  <2>2. (hp[c].leaf <=> f[c] = 0) /\ (hp[a].leaf <=> f[a] = 0)
    BY <1>1, <1>2, <2>1 DEF IsLevel
  <2> QED BY <2>1, <2>2
<1>6. ASSUME NEW c, NEW j, IsKid(hp, us, c, b, j), i # j PROVE a # c
  BY <1>6 DEF Sound, Linked
<1>7. /\ hp \in [Addresses -> Node] /\ a \in Addresses /\ b \in Addresses
      /\ hp[a].n >= Order - 1
  BY <1>1 DEF Sound, Filled
<1>8. hp[a] \in Node /\ hp[b] \in Node /\ hp[a].n \in Nat
  BY <1>7, NodeIs
<1> QED BY <1>1, <1>4, <1>5, <1>6, <1>7, <1>8

-----------------------------------------------------------------------------
(* A split. *)

(* The full child c, in slot i of a node x with room, is split; hq is the  *)
(* heap after it.                                                          *)
IsSplit(hp, us, rt, c, x, i, new, hq, vs) ==
  /\ Sound(hp, us, rt)
  /\ IsKid(hp, us, c, x, i) /\ ~IsFull(hp[x]) /\ IsFull(hp[c])
  /\ new \in Addresses /\ new \notin us
  /\ hq = [hp EXCEPT ![x] = WithHalf(hp[x], i, hp[c], new),
                     ![c] = LowerHalf(hp[c]), ![new] = UpperHalf(hp[c])]
  /\ vs = us \cup {new}

LEMMA SplitKids ==
  ASSUME NEW hp, NEW us, NEW rt, NEW c, NEW x, NEW i, NEW new, NEW hq, NEW vs,
         IsSplit(hp, us, rt, c, x, i, new, hq, vs)
  PROVE  /\ Filled(hq, vs, rt)
         /\ hq[new].leaf = hp[c].leaf /\ \A a \in us : hq[a].leaf = hp[a].leaf
         /\ \A a, b, j : IsKid(hq, vs, a, b, j) <=>
              \/ b \notin {x, c, new} /\ IsKid(hp, us, a, b, j)
              \/ b = x /\ j \in ChildSlots /\ j <= i /\ IsKid(hp, us, a, x, j)
              \/ b = x /\ j = i + 1 /\ a = new
              \/ b = x /\ j \in ChildSlots /\ j > i + 1 /\ IsKid(hp, us, a, x, j - 1)
              \/ b = c /\ j \in ChildSlots /\ j <= Order - 1 /\ IsKid(hp, us, a, c, j)
              \/ b = new /\ j \in ChildSlots /\ j <= Order - 1 /\ IsKid(hp, us, a, c, Order + j)
<1> USE DEF IsSplit
<1> DEFINE X == WithHalf(hp[x], i, hp[c], new)
           U == UpperHalf(hp[c])
           W == LowerHalf(hp[c])
<1>1. /\ x \in us /\ c \in us /\ c # x /\ c # rt /\ x \in Addresses /\ c \in Addresses
      /\ hp[x] \in Node /\ hp[c] \in Node
      /\ i \in ChildSlots /\ i <= hp[x].n /\ ~hp[x].leaf /\ hp[x].children[i] = c
  BY KidIs
<1>2. i \in 0 .. hp[x].n /\ hp[x].n < MaxKeys /\ hp[x].n \in Nat /\ i \in Nat
  <2>1. hp[x].n # MaxKeys /\ hp[x].n \in Nat /\ hp[x].n <= MaxKeys
    BY <1>1, NodeIs DEF IsFull
  <2> QED BY <1>1, <2>1, OrderFacts, SMT
<1>3. /\ X \in Node /\ X.leaf = hp[x].leaf /\ X.n = hp[x].n + 1
      /\ X.children = ChildAdded(hp[x], i + 1, new)
  BY <1>1, <1>2, WithHalfIs
<1>4. /\ U \in Node /\ U.leaf = hp[c].leaf /\ U.n = Order - 1
      /\ \A j \in ChildSlots :
           U.children[j] = IF ~hp[c].leaf /\ j < Order THEN hp[c].children[Order + j] ELSE NULL
  BY <1>1, UpperHalfIs
<1>5. /\ W \in Node /\ W.leaf = hp[c].leaf /\ W.n = Order - 1 /\ W.children = hp[c].children
  BY <1>1, LowerHalfIs
<1>6. hp \in [Addresses -> Node] /\ us \subseteq Addresses
  BY DEF Sound, Filled
<1>7. hq \in [Addresses -> Node] /\ hq = [hp EXCEPT ![x] = X, ![c] = W, ![new] = U]
  BY <1>3, <1>4, <1>5, <1>6
<1> HIDE DEF X, U, W
<1>8. /\ new # x /\ new # c /\ hq[x] = X /\ hq[c] = W /\ hq[new] = U
      /\ \A a \in Addresses : a \notin {x, c, new} => hq[a] = hp[a]
  BY <1>1, <1>6, <1>7
<1>9. Filled(hq, vs, rt)
  <2>1. ASSUME NEW a \in vs
        PROVE  /\ a # rt => hq[a].n >= Order - 1
               /\ hq[a].leaf => \A j \in ChildSlots : hq[a].children[j] = NULL
               /\ hq[a].leaf /\ hq[a].n = 0 => \A j \in Slots : hq[a].keys[j] = 0
    <3>0. /\ \A b \in us : /\ b # rt => hp[b].n >= Order - 1
                           /\ hp[b].leaf => \A j \in ChildSlots : hp[b].children[j] = NULL
                           /\ hp[b].leaf /\ hp[b].n = 0 => \A j \in Slots : hp[b].keys[j] = 0
          /\ Order - 1 >= 1 /\ Order \in Int
      BY OrderFacts, SMT DEF Sound, Filled
    <3>1. CASE a = x
      <4>1. a # rt => hp[x].n + 1 >= Order - 1
        BY <1>1, <1>2, <3>0, <3>1, SMT
      <4> QED BY <1>1, <1>3, <1>8, <3>1, <4>1
    <3>2. CASE a = c
      <4>1. hq[a].n >= Order - 1 /\ hq[a].n # 0
        BY <1>5, <1>8, <3>0, <3>2, SMT
      <4>2. hq[a].leaf = hp[c].leaf /\ hq[a].children = hp[c].children /\ a # rt
        BY <1>1, <1>5, <1>8, <3>2
      <4>3. hp[c].leaf => \A j \in ChildSlots : hp[c].children[j] = NULL
        BY <1>1, <3>0
      <4> QED BY ONLY <4>1, <4>2, <4>3, Zenon
    <3>3. CASE a = new
      <4>1. hq[a].n >= Order - 1 /\ hq[a].n # 0
        BY <1>4, <1>8, <3>0, <3>3, SMT
      <4> QED BY <1>4, <1>8, <3>3, <4>1
    <3>4. CASE a \notin {x, c, new}
      BY <1>6, <1>8, <3>0, <3>4
    <3> QED BY <3>1, <3>2, <3>3, <3>4
  <2> QED BY <1>6, <1>7, <2>1 DEF Filled
<1>10. hq[new].leaf = hp[c].leaf /\ \A a \in us : hq[a].leaf = hp[a].leaf
  BY <1>1, <1>3, <1>4, <1>5, <1>6, <1>8
<1>11. ASSUME NEW a, NEW b, NEW j
       PROVE  IsKid(hq, vs, a, b, j) <=>
              \/ b \notin {x, c, new} /\ IsKid(hp, us, a, b, j)
              \/ b = x /\ j \in ChildSlots /\ j <= i /\ IsKid(hp, us, a, x, j)
              \/ b = x /\ j = i + 1 /\ a = new
              \/ b = x /\ j \in ChildSlots /\ j > i + 1 /\ IsKid(hp, us, a, x, j - 1)
              \/ b = c /\ j \in ChildSlots /\ j <= Order - 1 /\ IsKid(hp, us, a, c, j)
              \/ b = new /\ j \in ChildSlots /\ j <= Order - 1 /\ IsKid(hp, us, a, c, Order + j)
  <2>1. CASE b = x
    <3>1. IsKid(hq, vs, a, x, j) <=> j \in ChildSlots /\ j <= hp[x].n + 1 /\ X.children[j] = a
      BY <1>1, <1>3, <1>8 DEF IsKid
    <3>2. i + 1 \in 0 .. MaxKeys /\ i + 1 \in ChildSlots
      BY <1>2, OrderFacts, SMT
    <3>3. \A m \in ChildSlots :
            /\ m < i + 1 => X.children[m] = hp[x].children[m]
            /\ m = i + 1 => X.children[m] = new
            /\ i + 1 < m /\ m <= hp[x].n + 1 => X.children[m] = hp[x].children[m - 1]
      BY <1>1, <1>3, <3>2, ChildAddedIs
    <3>4. \A m : IsKid(hp, us, a, x, m) <=> m \in ChildSlots /\ m <= hp[x].n /\ hp[x].children[m] = a
      BY <1>1 DEF IsKid
    <3>5. x # c /\ x # new
      BY <1>1, <1>8
    <3>6. CASE j \notin ChildSlots
      BY <2>1, <3>1, <3>2, <3>5, <3>6
    <3>7. CASE j \in ChildSlots /\ j < i + 1
      <4>1. j <= i /\ j # i + 1 /\ ~(j > i + 1) /\ j <= hp[x].n /\ j <= hp[x].n + 1
        BY <1>2, <3>7, OrderFacts, SMT
      <4> QED BY <2>1, <3>1, <3>3, <3>4, <3>5, <3>7, <4>1
    <3>8. CASE j = i + 1
      <4>1. ~(j <= i) /\ ~(j > i + 1) /\ j <= hp[x].n + 1
        BY <1>2, <3>8, OrderFacts, SMT
      <4> QED BY <2>1, <3>1, <3>2, <3>3, <3>5, <3>8, <4>1
    <3>9. CASE j \in ChildSlots /\ j > i + 1
      <4>1. /\ ~(j <= i) /\ j # i + 1 /\ i + 1 < j
            /\ j - 1 \in ChildSlots /\ (j - 1 <= hp[x].n <=> j <= hp[x].n + 1)
        BY <1>2, <3>9, OrderFacts, SMT
      <4> QED BY <2>1, <3>1, <3>3, <3>4, <3>5, <3>9, <4>1
    <3>10. j \in ChildSlots => j < i + 1 \/ j = i + 1 \/ j > i + 1
      BY <1>2, OrderFacts, SMT
    <3> QED BY <3>6, <3>7, <3>8, <3>9, <3>10
  <2>2. CASE b = c
    <3>1. IsKid(hq, vs, a, c, j) <=>
            j \in ChildSlots /\ ~hp[c].leaf /\ j <= Order - 1 /\ hp[c].children[j] = a
      BY <1>1, <1>5, <1>8 DEF IsKid
    <3>2. \A m : IsKid(hp, us, a, c, m) <=>
            m \in ChildSlots /\ ~hp[c].leaf /\ m <= hp[c].n /\ hp[c].children[m] = a
      BY <1>1 DEF IsKid
    <3>3. hp[c].n = MaxKeys /\ c # x /\ c # new
      BY <1>1, <1>8 DEF IsFull
    <3> QED BY <2>2, <3>1, <3>2, <3>3, OrderFacts, SMT
  <2>3. CASE b = new
    <3>1. IsKid(hq, vs, a, new, j) <=>
            j \in ChildSlots /\ ~hp[c].leaf /\ j <= Order - 1 /\ U.children[j] = a
      BY <1>4, <1>8 DEF IsKid
    <3>2. \A m : IsKid(hp, us, a, c, m) <=>
            m \in ChildSlots /\ ~hp[c].leaf /\ m <= hp[c].n /\ hp[c].children[m] = a
      BY <1>1 DEF IsKid
    <3>3. hp[c].n = MaxKeys /\ c # new /\ x # new
      BY <1>8 DEF IsFull
    <3>4. \A m \in ChildSlots : m <= Order - 1 /\ ~hp[c].leaf =>
            U.children[m] = hp[c].children[Order + m] /\ Order + m \in ChildSlots /\ Order + m <= MaxKeys
      BY <1>4, OrderFacts, SMT
    <3>5. IsKid(hq, vs, a, new, j) <=>
            j \in ChildSlots /\ j <= Order - 1 /\ IsKid(hp, us, a, c, Order + j)
      BY <3>1, <3>2, <3>3, <3>4
    <3> QED BY <2>3, <3>3, <3>5
  <2>4. CASE b \notin {x, c, new}
    <3>1. b \in us => hq[b] = hp[b]
      BY <1>6, <1>8, <2>4
    <3> QED BY <2>4, <3>1 DEF IsKid
  <2> QED BY <2>1, <2>2, <2>3, <2>4
<1> QED BY <1>9, <1>10, <1>11

LEMMA SplitSound ==
  ASSUME NEW hp, NEW us, NEW rt, NEW c, NEW x, NEW i, NEW new, NEW hq, NEW vs,
         IsSplit(hp, us, rt, c, x, i, new, hq, vs)
  PROVE  /\ Sound(hq, vs, rt)
         /\ hq[x].n = hp[x].n + 1 /\ ~hq[x].leaf
         /\ IsKid(hq, vs, c, x, i) /\ IsKid(hq, vs, new, x, i + 1)
         /\ ~IsFull(hq[c]) /\ ~IsFull(hq[new])
<1> USE DEF IsSplit
<1> DEFINE Old(a, b, j) == IsKid(hp, us, a, b, j)
           New(a, b, j) == IsKid(hq, vs, a, b, j)
           (* Where a child of before is now. *)
           ToNode(o, m) == IF o = c /\ m >= Order THEN new ELSE o
           ToSlot(o, m) == IF o = x /\ m > i THEN m + 1 ELSE IF o = c /\ m >= Order THEN m - Order ELSE m
<1>1. /\ x \in us /\ c \in us /\ c # x /\ c # rt /\ x \in Addresses /\ c \in Addresses
      /\ hp[x] \in Node /\ hp[c] \in Node
      /\ i \in ChildSlots /\ i <= hp[x].n /\ ~hp[x].leaf /\ hp[x].children[i] = c
  BY KidIs
<1>2. i \in 0 .. hp[x].n /\ hp[x].n < MaxKeys /\ hp[x].n \in Nat /\ i \in Nat
  <2>1. hp[x].n # MaxKeys /\ hp[x].n \in Nat /\ hp[x].n <= MaxKeys
    BY <1>1, NodeIs DEF IsFull
  <2> QED BY <1>1, <2>1, OrderFacts, SMT
<1>3. /\ Filled(hq, vs, rt)
      /\ hq[new].leaf = hp[c].leaf /\ \A a \in us : hq[a].leaf = hp[a].leaf
      /\ \A a, b, j : New(a, b, j) <=>
           \/ b \notin {x, c, new} /\ Old(a, b, j)
           \/ b = x /\ j \in ChildSlots /\ j <= i /\ Old(a, x, j)
           \/ b = x /\ j = i + 1 /\ a = new
           \/ b = x /\ j \in ChildSlots /\ j > i + 1 /\ Old(a, x, j - 1)
           \/ b = c /\ j \in ChildSlots /\ j <= Order - 1 /\ Old(a, c, j)
           \/ b = new /\ j \in ChildSlots /\ j <= Order - 1 /\ Old(a, c, Order + j)
  <2> HIDE DEF IsSplit
  <2> QED BY SplitKids
<1>4. /\ rt \in us
      /\ \A a, b, j : Old(a, b, j) => a \in us /\ a # rt /\ b \in us /\ j \in ChildSlots /\ j <= hp[b].n
      /\ \A a, b, d, j, m : Old(a, b, j) /\ Old(a, d, m) => b = d /\ j = m
      /\ \A a \in us : a # rt => \E b, j : Old(a, b, j)
  BY DEF Sound, Linked, IsKid
<1>5. x # new /\ c # new /\ rt # new /\ Old(c, x, i)
  BY <1>1, <1>4
<1> HIDE DEF Old, New
<1>6. ASSUME NEW a, NEW o, NEW m, Old(a, o, m) PROVE New(a, ToNode(o, m), ToSlot(o, m))
  <2>1. o \in us /\ o # new /\ m \in ChildSlots /\ m <= hp[o].n
    BY <1>4, <1>6
  <2>2. CASE o = x /\ m > i
    <3>1. m + 1 \in ChildSlots /\ m + 1 > i + 1 /\ (m + 1) - 1 = m
      BY <1>2, <2>1, <2>2, OrderFacts, SMT
    <3>2. New(a, x, m + 1)
      BY <1>3, <1>6, <2>2, <3>1
    <3> QED BY <1>1, <2>2, <3>2
  <2>3. CASE o = x /\ ~(m > i)
    <3>1. m <= i
      BY <1>2, <2>1, <2>3, OrderFacts, SMT
    <3>2. New(a, x, m)
      BY <1>3, <1>6, <2>1, <2>3, <3>1
    <3> QED BY <1>1, <2>3, <3>2
  <2>4. CASE o = c /\ m >= Order
    <3>1. m - Order \in ChildSlots /\ m - Order <= Order - 1 /\ Order + (m - Order) = m
      BY <2>1, <2>4, OrderFacts, SMT
    <3>2. New(a, new, m - Order)
      BY <1>3, <1>6, <2>4, <3>1
    <3> QED BY <1>1, <2>4, <3>2
  <2>5. CASE o = c /\ ~(m >= Order)
    <3>1. m <= Order - 1
      BY <2>1, <2>5, OrderFacts, SMT
    <3>2. New(a, c, m)
      BY <1>3, <1>6, <2>1, <2>5, <3>1
    <3> QED BY <1>1, <2>5, <3>2
  <2>6. CASE o \notin {x, c}
    BY <1>3, <1>6, <2>1, <2>6
  <2> QED BY <2>2, <2>3, <2>4, <2>5, <2>6
<1>7. ASSUME NEW a, NEW b, NEW j, New(a, b, j), a # new
      PROVE  \E o, m : Old(a, o, m) /\ b = ToNode(o, m) /\ j = ToSlot(o, m)
  <2>1. CASE b \notin {x, c, new} /\ Old(a, b, j)
    BY <2>1
  <2>2. CASE b = x /\ j \in ChildSlots /\ j <= i /\ Old(a, x, j)
    <3>1. ~(j > i)
      BY <1>2, <2>2, OrderFacts, SMT
    <3> QED BY <1>1, <2>2, <3>1
  <2>3. CASE b = x /\ j \in ChildSlots /\ j > i + 1 /\ Old(a, x, j - 1)
    <3>1. j - 1 > i /\ (j - 1) + 1 = j
      BY <1>2, <2>3, OrderFacts, SMT
    <3> QED BY <1>1, <2>3, <3>1
  <2>4. CASE b = c /\ j \in ChildSlots /\ j <= Order - 1 /\ Old(a, c, j)
    <3>1. ~(j >= Order)
      BY <2>4, OrderFacts, SMT
    <3> QED BY <1>1, <2>4, <3>1
  <2>5. CASE b = new /\ j \in ChildSlots /\ j <= Order - 1 /\ Old(a, c, Order + j)
    <3>1. Order + j >= Order /\ (Order + j) - Order = j
      BY <2>5, OrderFacts, SMT
    <3> QED BY <1>1, <2>5, <3>1
  <2> QED BY <1>3, <1>7, <2>1, <2>2, <2>3, <2>4, <2>5
<1>8. \A b, j : New(new, b, j) <=> b = x /\ j = i + 1
  <2>1. \A b, j : ~Old(new, b, j)
    BY <1>4
  <2> QED BY <1>1, <1>3, <1>5, <2>1
<1>9. Linked(hq, vs, rt)
  <2>1. \A a, b, j : New(a, b, j) => a \in vs /\ a # rt
    BY <1>4, <1>5, <1>7
  <2>2. ASSUME NEW a, NEW b, NEW d, NEW j, NEW m, New(a, b, j), New(a, d, m) PROVE b = d /\ j = m
    <3>1. CASE a = new
      BY <1>8, <2>2, <3>1
    <3>2. CASE a # new
      <4>1. PICK o, e : Old(a, o, e) /\ b = ToNode(o, e) /\ j = ToSlot(o, e)
        BY <1>7, <2>2, <3>2
      <4>2. PICK p, g : Old(a, p, g) /\ d = ToNode(p, g) /\ m = ToSlot(p, g)
        BY <1>7, <2>2, <3>2
      <4>3. o = p /\ e = g
        BY <1>4, <4>1, <4>2
      <4> QED BY <4>1, <4>2, <4>3
    <3> QED BY <3>1, <3>2
  <2>3. \A a \in vs : a # rt => \E b, j : New(a, b, j)
    BY <1>4, <1>6, <1>8
  <2> QED BY <1>4, <2>1, <2>2, <2>3 DEF Linked, New
<1>10. Levelled(hq, vs, rt)
  <2>1. PICK f : IsLevel(f, hp, us, rt)
    BY DEF Sound, Levelled
  <2>2. /\ f \in [us -> Nat]
        /\ \A a \in us : hp[a].leaf <=> f[a] = 0
        /\ \A a \in us : a # rt => f[a] < f[rt]
        /\ \A a, b, j : Old(a, b, j) => f[b] = f[a] + 1
    BY <2>1 DEF IsLevel, Old
  <2> DEFINE g == [a \in vs |-> IF a = new THEN f[c] ELSE f[a]]
  <2>3. g \in [vs -> Nat] /\ g[new] = f[c] /\ \A a \in us : g[a] = f[a]
    BY <1>1, <1>5, <2>2
  <2> HIDE DEF g
  <2>4. ASSUME NEW a \in vs PROVE hq[a].leaf <=> g[a] = 0
    <3>1. CASE a = new
      <4>1. hp[c].leaf <=> f[c] = 0
        BY <1>1, <2>2
      <4> QED BY <1>3, <2>3, <3>1, <4>1
    <3>2. CASE a \in us
      BY <1>3, <2>2, <2>3, <3>2
    <3> QED BY <3>1, <3>2
  <2>5. \A a \in vs : a # rt => g[a] < g[rt]
    BY <1>1, <1>4, <2>2, <2>3
  <2>6. ASSUME NEW a, NEW b, NEW j, New(a, b, j) PROVE g[b] = g[a] + 1
    <3>1. CASE a = new
      <4>1. b = x /\ f[x] = f[c] + 1
        BY <1>5, <1>8, <2>2, <2>6, <3>1
      <4> QED BY <1>1, <2>3, <3>1, <4>1
    <3>2. CASE a # new
      <4>1. PICK o, m : Old(a, o, m) /\ b = ToNode(o, m)
        BY <1>7, <2>6, <3>2
      <4>2. f[o] = f[a] + 1 /\ a \in us /\ o \in us
        BY <1>4, <2>2, <4>1
      <4>3. g[b] = f[o]
        BY <1>1, <2>3, <4>1, <4>2
      <4> QED BY <2>3, <4>2, <4>3
    <3> QED BY <3>1, <3>2
  <2>7. IsLevel(g, hq, vs, rt)
    BY <2>3, <2>4, <2>5, <2>6 DEF IsLevel, New
  <2> QED BY <2>7 DEF Levelled
<1>11. IsKid(hq, vs, c, x, i) /\ IsKid(hq, vs, new, x, i + 1)
  <2>1. i <= i
    BY <1>2, SMT
  <2> QED BY <1>1, <1>3, <1>5, <1>8, <2>1 DEF New
<1>12. hq[x].n = hp[x].n + 1 /\ ~hq[x].leaf /\ hq[c].n = Order - 1 /\ hq[new].n = Order - 1
  <2>1. hq[x] = WithHalf(hp[x], i, hp[c], new) /\ hq[c] = LowerHalf(hp[c]) /\ hq[new] = UpperHalf(hp[c])
    <3>1. hp \in [Addresses -> Node]
      BY DEF Sound, Filled
    <3> QED BY <1>1, <1>5, <3>1
  <2>2. WithHalf(hp[x], i, hp[c], new).n = hp[x].n + 1 /\ ~WithHalf(hp[x], i, hp[c], new).leaf
    BY <1>1, <1>2, WithHalfIs
  <2>3. LowerHalf(hp[c]).n = Order - 1 /\ UpperHalf(hp[c]).n = Order - 1
    BY <1>1, LowerHalfIs, UpperHalfIs
  <2> QED BY <2>1, <2>2, <2>3
<1>13. Order - 1 # MaxKeys
  BY OrderFacts, SMT
<1> QED BY <1>3, <1>9, <1>10, <1>11, <1>12, <1>13 DEF Sound, IsFull

-----------------------------------------------------------------------------
(* A step that leaves the links alone, and a new root above the full one.  *)

LEMMA SameLinks ==
  ASSUME NEW hp, NEW us, NEW rt, Sound(hp, us, rt), NEW hq, Filled(hq, us, rt),
         \A a \in us : /\ hq[a].leaf = hp[a].leaf
                       /\ ~hp[a].leaf => hq[a].n = hp[a].n /\ hq[a].children = hp[a].children
  PROVE  Sound(hq, us, rt)
<1>1. \A a, b, j : IsKid(hq, us, a, b, j) <=> IsKid(hp, us, a, b, j)
  BY DEF IsKid
<1>2. Linked(hq, us, rt)
  <2>1. Linked(hp, us, rt)
    BY DEF Sound
  <2> QED BY <1>1, <2>1 DEF Linked
<1>3. Levelled(hq, us, rt)
  <2>1. PICK f : IsLevel(f, hp, us, rt)
    BY DEF Sound, Levelled
  <2>2. IsLevel(f, hq, us, rt)
    BY <1>1, <2>1 DEF IsLevel
  <2> QED BY <2>2 DEF Levelled
<1> QED BY <1>2, <1>3 DEF Sound

TopNode(rt) == [NewNode EXCEPT !.leaf = FALSE, !.children[0] = rt]

LEMMA TopNodeIs ==
  ASSUME NEW rt \in Addresses
  PROVE  /\ TopNode(rt) \in Node /\ ~TopNode(rt).leaf /\ TopNode(rt).n = 0
         /\ TopNode(rt).children[0] = rt
         /\ NewNode \in Node /\ NewNode.leaf /\ NewNode.n = 0
         /\ \A j \in ChildSlots : NewNode.children[j] = NULL
         /\ \A j \in Slots : NewNode.keys[j] = 0
<1>1. 0 \in ChildSlots /\ 0 \in 0 .. MaxKeys
  BY OrderFacts, SMT
<1>2. /\ [j \in Slots |-> 0] \in [Slots -> Keys \cup {0}]
      /\ [j \in ChildSlots |-> NULL] \in [ChildSlots -> Addresses \cup {NULL}]
      /\ [[j \in ChildSlots |-> NULL] EXCEPT ![0] = rt] \in [ChildSlots -> Addresses \cup {NULL}]
  OBVIOUS
<1>3. /\ NewNode \in Node /\ NewNode.leaf /\ NewNode.n = 0
      /\ NewNode.keys = [j \in Slots |-> 0]
      /\ NewNode.children = [j \in ChildSlots |-> NULL]
  BY <1>1, <1>2 DEF NewNode, Node
<1>4. /\ TopNode(rt) \in Node /\ ~TopNode(rt).leaf /\ TopNode(rt).n = 0
      /\ TopNode(rt).children[0] = rt
  BY <1>1, <1>2, <1>3 DEF TopNode, Node
<1> QED BY <1>3, <1>4

IsTop(hp, us, rt, top, hq, vs) ==
  /\ Sound(hp, us, rt) /\ IsFull(hp[rt])
  /\ top \in Addresses /\ top \notin us
  /\ hq = [hp EXCEPT ![top] = TopNode(rt)]
  /\ vs = us \cup {top}

LEMMA TopSound ==
  ASSUME NEW hp, NEW us, NEW rt, NEW top, NEW hq, NEW vs, IsTop(hp, us, rt, top, hq, vs)
  PROVE  /\ Sound(hq, vs, top) /\ IsKid(hq, vs, rt, top, 0)
         /\ hq[top] = TopNode(rt) /\ hq[top].n = 0 /\ hq[rt] = hp[rt] /\ rt # top /\ rt \in Addresses
<1> USE DEF IsTop
<1> DEFINE Old(a, b, j) == IsKid(hp, us, a, b, j)
           New(a, b, j) == IsKid(hq, vs, a, b, j)
<1>1. /\ hp \in [Addresses -> Node] /\ us \subseteq Addresses /\ rt \in us /\ rt \in Addresses
      /\ \A a, b, j : Old(a, b, j) => a \in us /\ a # rt /\ b \in us
      /\ \A a, b, d, j, m : Old(a, b, j) /\ Old(a, d, m) => b = d /\ j = m
      /\ \A a \in us : a # rt => \E b, j : Old(a, b, j)
  BY DEF Sound, Filled, Linked, IsKid
<1>2. /\ TopNode(rt) \in Node /\ ~TopNode(rt).leaf /\ TopNode(rt).n = 0
      /\ TopNode(rt).children[0] = rt
  BY <1>1, TopNodeIs
<1>3. /\ hq \in [Addresses -> Node] /\ hq[top] = TopNode(rt)
      /\ top # rt /\ \A a \in us : hq[a] = hp[a] /\ a # top
  BY <1>1, <1>2
<1>4. \A a, b, j : New(a, b, j) <=> \/ b # top /\ Old(a, b, j)
                                    \/ b = top /\ j = 0 /\ a = rt
  <2>1. \A j \in ChildSlots : j <= 0 <=> j = 0
    BY OrderFacts, SMT
  <2>2. 0 \in ChildSlots
    BY OrderFacts, SMT
  <2> QED BY <1>2, <1>3, <2>1, <2>2 DEF IsKid
<1> HIDE DEF Old, New
<1>5. Filled(hq, vs, top)
  <2>1. MaxKeys >= Order - 1 /\ hp[rt].n = MaxKeys
    BY OrderFacts, SMT DEF IsFull
  <2>2. \A a \in us : hp[a].n >= Order - 1
    BY <2>1 DEF Sound, Filled
  <2>3. \A a \in us : /\ hp[a].leaf => \A j \in ChildSlots : hp[a].children[j] = NULL
                      /\ hp[a].leaf /\ hp[a].n = 0 => \A j \in Slots : hp[a].keys[j] = 0
    BY DEF Sound, Filled
  <2> QED BY <1>1, <1>2, <1>3, <2>2, <2>3 DEF Filled
<1>6. Linked(hq, vs, top)
  <2>1. \A a, b, j : New(a, b, j) => a \in vs /\ a # top
    BY <1>1, <1>3, <1>4
  <2>2. \A a, b, d, j, m : New(a, b, j) /\ New(a, d, m) => b = d /\ j = m
    BY <1>1, <1>4
  <2>3. ASSUME NEW a \in vs, a # top PROVE \E b, j : New(a, b, j)
    <3>1. CASE a = rt
      BY <1>4, <3>1
    <3>2. CASE a # rt
      <4>1. PICK b, j : Old(a, b, j)
        BY <1>1, <2>3, <3>2
      <4>2. b # top
        BY <1>1, <4>1
      <4> QED BY <1>4, <4>1, <4>2
    <3> QED BY <3>1, <3>2
  <2> QED BY <2>1, <2>2, <2>3 DEF Linked, New
<1>7. Levelled(hq, vs, top)
  <2>1. PICK f : IsLevel(f, hp, us, rt)
    BY DEF Sound, Levelled
  <2>2. /\ f \in [us -> Nat]
        /\ \A a \in us : hp[a].leaf <=> f[a] = 0
        /\ \A a \in us : a # rt => f[a] < f[rt]
        /\ \A a, b, j : Old(a, b, j) => f[b] = f[a] + 1
    BY <2>1 DEF IsLevel, Old
  <2> DEFINE g == [a \in vs |-> IF a = top THEN f[rt] + 1 ELSE f[a]]
  <2>3. g \in [vs -> Nat] /\ g[top] = f[rt] + 1 /\ \A a \in us : g[a] = f[a]
    <3>1. f[rt] + 1 \in Nat
      BY <1>1, <2>2
    <3> QED BY <1>1, <1>3, <2>2, <3>1
  <2> HIDE DEF g
  <2>4. ASSUME NEW a \in vs PROVE hq[a].leaf <=> g[a] = 0
    <3>1. CASE a = top
      <4>1. g[a] # 0
        BY <1>1, <2>2, <2>3, <3>1, SMT
      <4> QED BY <1>2, <1>3, <3>1, <4>1
    <3>2. CASE a \in us
      BY <1>3, <2>2, <2>3, <3>2
    <3> QED BY <3>1, <3>2
  <2>5. ASSUME NEW a \in vs, a # top PROVE g[a] < g[top]
    <3>1. a \in us /\ f[a] \in Nat /\ f[rt] \in Nat /\ (a = rt \/ f[a] < f[rt])
      BY <1>1, <2>2, <2>5
    <3> QED BY <2>3, <3>1, SMT
  <2>6. ASSUME NEW a, NEW b, NEW j, New(a, b, j) PROVE g[b] = g[a] + 1
    <3>1. CASE b = top
      BY <1>1, <1>4, <2>3, <2>6, <3>1
    <3>2. CASE b # top
      BY <1>1, <1>4, <2>2, <2>3, <2>6, <3>2
    <3> QED BY <3>1, <3>2
  <2>7. IsLevel(g, hq, vs, top)
    BY <2>3, <2>4, <2>5, <2>6 DEF IsLevel, New
  <2> QED BY <2>7 DEF Levelled
<1>8. New(rt, top, 0)
  BY <1>4
<1> QED BY <1>1, <1>2, <1>3, <1>5, <1>6, <1>7, <1>8 DEF Sound, New

-----------------------------------------------------------------------------
(* Two minimal children and the key between them become one node. *)

IsMerge(hp, us, rt, x, i, l, r, hq, vs) ==
  /\ Sound(hp, us, rt)
  /\ IsKid(hp, us, l, x, i) /\ IsKid(hp, us, r, x, i + 1)
  /\ hp[l].n = Order - 1 /\ hp[r].n = Order - 1
  /\ x = rt \/ hp[x].n >= Order
  /\ hq = Freed([hp EXCEPT ![x] = WithoutKey(hp[x], i), ![l] = Joined(hp[x], i, hp[l], hp[r])], r)
  /\ vs = us \ {r}

LEMMA MergeKids ==
  ASSUME NEW hp, NEW us, NEW rt, NEW x, NEW i, NEW l, NEW r, NEW hq, NEW vs,
         IsMerge(hp, us, rt, x, i, l, r, hq, vs)
  PROVE  /\ Filled(hq, vs, rt)
         /\ \A a \in vs : hq[a].leaf = hp[a].leaf
         /\ hq[l].n = MaxKeys
         /\ \A a, b, j : IsKid(hq, vs, a, b, j) <=>
              \/ b \notin {x, l, r} /\ IsKid(hp, us, a, b, j)
              \/ b = x /\ j \in ChildSlots /\ j <= i /\ IsKid(hp, us, a, x, j)
              \/ b = x /\ j \in ChildSlots /\ j >= i + 1 /\ IsKid(hp, us, a, x, j + 1)
              \/ b = l /\ j \in ChildSlots /\ j <= Order - 1 /\ IsKid(hp, us, a, l, j)
              \/ b = l /\ j \in ChildSlots /\ j >= Order /\ IsKid(hp, us, a, r, j - Order)
<1> USE DEF IsMerge
<1> DEFINE X == WithoutKey(hp[x], i)
           L == Joined(hp[x], i, hp[l], hp[r])
<1>1. /\ x \in us /\ l \in us /\ l # x /\ l # rt /\ x \in Addresses /\ l \in Addresses
      /\ hp[x] \in Node /\ hp[l] \in Node
      /\ i \in ChildSlots /\ i <= hp[x].n /\ ~hp[x].leaf
      /\ \A c, j : IsKid(hp, us, c, x, j) => (hp[c].leaf <=> hp[l].leaf)
  BY KidIs
<1>2. /\ r \in us /\ r # x /\ r # rt /\ r \in Addresses /\ hp[r] \in Node
      /\ i + 1 \in ChildSlots /\ i + 1 <= hp[x].n
  BY KidIs
<1>3. i \in 0 .. hp[x].n - 1 /\ hp[x].n \in Nat /\ i \in Nat /\ i \in Slots /\ hp[x].n <= MaxKeys
  <2>1. hp[x].n \in Nat /\ hp[x].n <= MaxKeys
    BY <1>1, NodeIs
  <2> QED BY <1>1, <1>2, <2>1, OrderFacts, SMT
<1>4. l # r /\ hp[r].leaf = hp[l].leaf
  <2>1. \A c, j : IsKid(hp, us, c, x, j) /\ i # j => l # c
    BY KidIs
  <2>2. i # i + 1
    BY <1>3, SMT
  <2>3. hp[r].leaf \in BOOLEAN /\ hp[l].leaf \in BOOLEAN
    BY <1>1, <1>2, NodeIs
  <2> QED BY <1>1, <2>1, <2>2, <2>3
<1>5. X \in Node /\ X.leaf = hp[x].leaf /\ X.n = hp[x].n - 1 /\ X.children = ChildRemoved(hp[x], i + 1)
  BY <1>1, <1>3, WithoutKeyIs
<1>6. /\ L \in Node /\ L.leaf = hp[l].leaf /\ L.n = MaxKeys
      /\ \A j \in ChildSlots : L.children[j] =
           IF ~hp[r].leaf /\ j >= Order THEN hp[r].children[j - Order] ELSE hp[l].children[j]
  <2>1. hp[x] \in Node /\ i \in Slots /\ hp[l] \in Node /\ hp[r] \in Node
    BY <1>1, <1>2, <1>3
  <2> DEFINE A == hp[x]
             B == hp[l]
             C == hp[r]
  <2>2. A \in Node /\ B \in Node /\ C \in Node
    BY <2>1
  <2> HIDE DEF A, B, C
  <2>3. /\ Joined(A, i, B, C) \in Node
        /\ Joined(A, i, B, C).leaf = B.leaf /\ Joined(A, i, B, C).n = MaxKeys
        /\ \A j \in ChildSlots : Joined(A, i, B, C).children[j] =
             IF ~C.leaf /\ j >= Order THEN C.children[j - Order] ELSE B.children[j]
    BY <2>1, <2>2, JoinedIs
  <2> QED BY <2>3 DEF A, B, C
<1>7. hp \in [Addresses -> Node] /\ us \subseteq Addresses
  BY DEF Sound, Filled
<1>8. NewNode \in Node
  BY <1>1, TopNodeIs
<1>9. hq = [[hp EXCEPT ![x] = X, ![l] = L] EXCEPT ![r] = NewNode]
  BY DEF Freed
<1> HIDE DEF X, L
<1>10. /\ hq \in [Addresses -> Node] /\ hq[x] = X /\ hq[l] = L
       /\ \A a \in Addresses : a \notin {x, l, r} => hq[a] = hp[a]
  BY <1>1, <1>2, <1>4, <1>5, <1>6, <1>7, <1>8, <1>9
<1>11. Filled(hq, vs, rt)
  <2>0. /\ \A b \in us : /\ b # rt => hp[b].n >= Order - 1
                         /\ hp[b].leaf => \A j \in ChildSlots : hp[b].children[j] = NULL
                         /\ hp[b].leaf /\ hp[b].n = 0 => \A j \in Slots : hp[b].keys[j] = 0
    BY DEF Sound, Filled
  <2>1. ASSUME NEW a \in vs
        PROVE  /\ a # rt => hq[a].n >= Order - 1
               /\ hq[a].leaf => \A j \in ChildSlots : hq[a].children[j] = NULL
               /\ hq[a].leaf /\ hq[a].n = 0 => \A j \in Slots : hq[a].keys[j] = 0
    <3>1. CASE a = x
      <4>1. x # rt => hp[x].n - 1 >= Order - 1
        BY <1>3, OrderFacts, SMT
      <4> QED BY <1>1, <1>5, <1>10, <3>1, <4>1
    <3>2. CASE a = l
      <4>1. hq[a].n >= Order - 1 /\ hq[a].n # 0
        BY <1>6, <1>10, <3>2, OrderFacts, SMT
      <4>2. hp[l].leaf => \A j \in ChildSlots : L.children[j] = NULL
        BY <1>1, <1>4, <1>6, <2>0
      <4> QED BY <1>6, <1>10, <3>2, <4>1, <4>2
    <3>3. CASE a \notin {x, l}
      <4>1. a \in us /\ a # r /\ hq[a] = hp[a]
        BY <1>7, <1>10, <3>3
      <4> QED BY <2>0, <4>1
    <3> QED BY <3>1, <3>2, <3>3
  <2> QED BY <1>7, <1>10, <2>1 DEF Filled
<1>12. \A a \in vs : hq[a].leaf = hp[a].leaf
  BY <1>1, <1>5, <1>6, <1>7, <1>10
<1>13. ASSUME NEW a, NEW b, NEW j
       PROVE  IsKid(hq, vs, a, b, j) <=>
              \/ b \notin {x, l, r} /\ IsKid(hp, us, a, b, j)
              \/ b = x /\ j \in ChildSlots /\ j <= i /\ IsKid(hp, us, a, x, j)
              \/ b = x /\ j \in ChildSlots /\ j >= i + 1 /\ IsKid(hp, us, a, x, j + 1)
              \/ b = l /\ j \in ChildSlots /\ j <= Order - 1 /\ IsKid(hp, us, a, l, j)
              \/ b = l /\ j \in ChildSlots /\ j >= Order /\ IsKid(hp, us, a, r, j - Order)
  <2>1. CASE b = x
    <3>1. IsKid(hq, vs, a, x, j) <=> j \in ChildSlots /\ j <= hp[x].n - 1 /\ X.children[j] = a
      BY <1>1, <1>2, <1>5, <1>10 DEF IsKid
    <3>2. i + 1 \in 0 .. MaxKeys
      BY <1>3, OrderFacts, SMT
    <3>3. \A m \in ChildSlots :
            X.children[m] = IF i + 1 <= m /\ m < hp[x].n THEN hp[x].children[m + 1] ELSE hp[x].children[m]
      BY <1>1, <1>5, <3>2, ChildRemovedIs
    <3>4. \A m : IsKid(hp, us, a, x, m) <=> m \in ChildSlots /\ m <= hp[x].n /\ hp[x].children[m] = a
      BY <1>1 DEF IsKid
    <3>5. CASE j \notin ChildSlots
      BY <1>1, <1>2, <2>1, <3>1, <3>5
    <3>6. CASE j \in ChildSlots /\ j <= i
      <4>1. j <= i /\ ~(j >= i + 1) /\ ~(i + 1 <= j) /\ j <= hp[x].n /\ j <= hp[x].n - 1
        BY <1>3, <3>6, OrderFacts, SMT
      <4> QED BY <1>1, <1>2, <2>1, <3>1, <3>3, <3>4, <3>6, <4>1
    <3>7. CASE j \in ChildSlots /\ j >= i + 1
      <4>1. /\ ~(j <= i) /\ i + 1 <= j
            /\ j <= hp[x].n - 1 => j < hp[x].n /\ j + 1 \in ChildSlots /\ j + 1 <= hp[x].n
            /\ j + 1 \in ChildSlots /\ j + 1 <= hp[x].n => j <= hp[x].n - 1
        BY <1>3, <3>7, OrderFacts, SMT
      <4> QED BY <1>1, <1>2, <2>1, <3>1, <3>3, <3>4, <3>7, <4>1
    <3>8. j \in ChildSlots => j <= i \/ j >= i + 1
      BY <1>3, OrderFacts, SMT
    <3> QED BY <3>5, <3>6, <3>7, <3>8
  <2>2. CASE b = l
    <3>1. IsKid(hq, vs, a, l, j) <=> j \in ChildSlots /\ ~hp[l].leaf /\ j <= MaxKeys /\ L.children[j] = a
      BY <1>1, <1>4, <1>6, <1>10 DEF IsKid
    <3>2. \A m : IsKid(hp, us, a, l, m) <=>
            m \in ChildSlots /\ ~hp[l].leaf /\ m <= Order - 1 /\ hp[l].children[m] = a
      BY <1>1 DEF IsKid
    <3>3. \A m : IsKid(hp, us, a, r, m) <=>
            m \in ChildSlots /\ ~hp[l].leaf /\ m <= Order - 1 /\ hp[r].children[m] = a
      BY <1>2, <1>4 DEF IsKid
    <3>4. CASE j \notin ChildSlots
      BY <1>1, <1>4, <2>2, <3>1, <3>4
    <3>5. CASE j \in ChildSlots /\ j <= Order - 1
      <4>1. ~(j >= Order) /\ j <= MaxKeys
        BY <3>5, OrderFacts, SMT
      <4> QED BY <1>1, <1>4, <1>6, <2>2, <3>1, <3>2, <3>5, <4>1
    <3>6. CASE j \in ChildSlots /\ j >= Order
      <4>1. ~(j <= Order - 1) /\ j <= MaxKeys /\ j - Order \in ChildSlots /\ j - Order <= Order - 1
        BY <3>6, OrderFacts, SMT
      <4> QED BY <1>1, <1>4, <1>6, <2>2, <3>1, <3>3, <3>6, <4>1
    <3>7. j \in ChildSlots => j <= Order - 1 \/ j >= Order
      BY OrderFacts, SMT
    <3> QED BY <3>4, <3>5, <3>6, <3>7
  <2>3. CASE b = r
    BY <1>2, <1>4, <2>3 DEF IsKid
  <2>4. CASE b \notin {x, l, r}
    <3>1. b \in us => hq[b] = hp[b]
      BY <1>7, <1>10, <2>4
    <3> QED BY <2>4, <3>1 DEF IsKid
  <2> QED BY <2>1, <2>2, <2>3, <2>4
<1> QED BY <1>6, <1>10, <1>11, <1>12, <1>13

LEMMA MergeSound ==
  ASSUME NEW hp, NEW us, NEW rt, NEW x, NEW i, NEW l, NEW r, NEW hq, NEW vs,
         IsMerge(hp, us, rt, x, i, l, r, hq, vs)
  PROVE  Sound(hq, vs, rt) /\ l \in vs /\ l # rt /\ hq[l].n = MaxKeys
<1> USE DEF IsMerge
<1> DEFINE Old(a, b, j) == IsKid(hp, us, a, b, j)
           New(a, b, j) == IsKid(hq, vs, a, b, j)
           (* Where a child of before is now. *)
           ToNode(o) == IF o = r THEN l ELSE o
           ToSlot(o, m) == IF o = x /\ m > i THEN m - 1 ELSE IF o = r THEN m + Order ELSE m
<1>1. /\ x \in us /\ l \in us /\ l # x /\ l # rt
      /\ i \in ChildSlots /\ i <= hp[x].n /\ hp[x] \in Node
      /\ \A c, j : IsKid(hp, us, c, x, j) => (hp[c].leaf <=> hp[l].leaf)
  BY KidIs
<1>2. /\ r \in us /\ r # x /\ r # rt /\ i + 1 \in ChildSlots /\ i + 1 <= hp[x].n
  BY KidIs
<1>3. i \in Nat /\ hp[x].n \in Nat /\ hp[x].n <= MaxKeys
  BY <1>1, NodeIs, OrderFacts, SMT
<1>4. /\ Filled(hq, vs, rt)
      /\ \A a \in vs : hq[a].leaf = hp[a].leaf
      /\ hq[l].n = MaxKeys
      /\ \A a, b, j : New(a, b, j) <=>
           \/ b \notin {x, l, r} /\ Old(a, b, j)
           \/ b = x /\ j \in ChildSlots /\ j <= i /\ Old(a, x, j)
           \/ b = x /\ j \in ChildSlots /\ j >= i + 1 /\ Old(a, x, j + 1)
           \/ b = l /\ j \in ChildSlots /\ j <= Order - 1 /\ Old(a, l, j)
           \/ b = l /\ j \in ChildSlots /\ j >= Order /\ Old(a, r, j - Order)
  <2> HIDE DEF IsMerge
  <2> QED BY MergeKids
<1>5. /\ rt \in us
      /\ \A a, b, j : Old(a, b, j) => a \in us /\ a # rt /\ b \in us /\ j \in ChildSlots /\ j <= hp[b].n
      /\ \A a, b, d, j, m : Old(a, b, j) /\ Old(a, d, m) => b = d /\ j = m
      /\ \A a, b, d, j : Old(a, b, j) /\ Old(d, b, j) => a = d
      /\ \A a \in us : a # rt => \E b, j : Old(a, b, j)
  BY DEF Sound, Linked, IsKid
<1>6. Old(l, x, i) /\ Old(r, x, i + 1) /\ l # r
  <2>1. i # i + 1
    BY <1>3, SMT
  <2> QED BY <1>5, <2>1
<1> HIDE DEF Old, New
<1>7. ASSUME NEW a, NEW o, NEW m, Old(a, o, m), a # r PROVE New(a, ToNode(o), ToSlot(o, m))
  <2>1. o \in us /\ m \in ChildSlots /\ m <= hp[o].n
    BY <1>5, <1>7
  <2>2. CASE o = x /\ m > i
    <3>1. m # i + 1
      BY <1>5, <1>6, <1>7, <2>2
    <3>2. m - 1 \in ChildSlots /\ m - 1 >= i + 1 /\ (m - 1) + 1 = m
      BY <1>3, <2>1, <2>2, <3>1, OrderFacts, SMT
    <3>3. New(a, x, m - 1)
      BY <1>4, <1>7, <2>2, <3>2
    <3> QED BY <1>1, <1>2, <2>2, <3>3
  <2>3. CASE o = x /\ ~(m > i)
    <3>1. m <= i
      BY <1>3, <2>1, <2>3, OrderFacts, SMT
    <3>2. New(a, x, m)
      BY <1>4, <1>7, <2>1, <2>3, <3>1
    <3> QED BY <1>1, <1>2, <2>3, <3>2
  <2>4. CASE o = r
    <3>1. m + Order \in ChildSlots /\ m + Order >= Order /\ (m + Order) - Order = m
      BY <2>1, <2>4, OrderFacts, SMT
    <3>2. New(a, l, m + Order)
      BY <1>4, <1>7, <2>4, <3>1
    <3> QED BY <1>2, <2>4, <3>2
  <2>5. CASE o = l
    <3>1. m <= Order - 1
      BY <2>1, <2>5
    <3>2. New(a, l, m)
      BY <1>4, <1>7, <2>1, <2>5, <3>1
    <3> QED BY <1>1, <1>6, <2>5, <3>2
  <2>6. CASE o \notin {x, l, r}
    BY <1>4, <1>7, <2>6
  <2> QED BY <2>2, <2>3, <2>4, <2>5, <2>6
<1>8. ASSUME NEW a, NEW b, NEW j, New(a, b, j)
      PROVE  /\ a # r
             /\ \E o, m : Old(a, o, m) /\ b = ToNode(o) /\ j = ToSlot(o, m)
  <2>1. CASE b \notin {x, l, r} /\ Old(a, b, j)
    BY <1>5, <1>6, <2>1
  <2>2. CASE b = x /\ j \in ChildSlots /\ j <= i /\ Old(a, x, j)
    <3>1. ~(j > i) /\ j # i + 1
      BY <1>3, <2>2, OrderFacts, SMT
    <3> QED BY <1>2, <1>5, <1>6, <2>2, <3>1
  <2>3. CASE b = x /\ j \in ChildSlots /\ j >= i + 1 /\ Old(a, x, j + 1)
    <3>1. j + 1 > i /\ (j + 1) - 1 = j /\ j + 1 # i + 1
      BY <1>3, <2>3, OrderFacts, SMT
    <3> QED BY <1>2, <1>5, <1>6, <2>3, <3>1
  <2>4. CASE b = l /\ j \in ChildSlots /\ j <= Order - 1 /\ Old(a, l, j)
    BY <1>1, <1>5, <1>6, <2>4
  <2>5. CASE b = l /\ j \in ChildSlots /\ j >= Order /\ Old(a, r, j - Order)
    <3>1. (j - Order) + Order = j
      BY <2>5, OrderFacts, SMT
    <3> QED BY <1>2, <1>5, <1>6, <2>5, <3>1
  <2> QED BY <1>4, <1>8, <2>1, <2>2, <2>3, <2>4, <2>5
<1>9. Linked(hq, vs, rt)
  <2>1. \A a, b, j : New(a, b, j) => a \in vs /\ a # rt
    BY <1>5, <1>8
  <2>2. ASSUME NEW a, NEW b, NEW d, NEW j, NEW m, New(a, b, j), New(a, d, m) PROVE b = d /\ j = m
    <3>1. PICK o, e : Old(a, o, e) /\ b = ToNode(o) /\ j = ToSlot(o, e)
      BY <1>8, <2>2
    <3>2. PICK p, g : Old(a, p, g) /\ d = ToNode(p) /\ m = ToSlot(p, g)
      BY <1>8, <2>2
    <3>3. o = p /\ e = g
      BY <1>5, <3>1, <3>2
    <3> QED BY <3>1, <3>2, <3>3
  <2>3. \A a \in vs : a # rt => \E b, j : New(a, b, j)
    BY <1>5, <1>7
  <2>4. rt \in vs
    BY <1>2, <1>5
  <2> QED BY <2>1, <2>2, <2>3, <2>4 DEF Linked, New
<1>10. Levelled(hq, vs, rt)
  <2>1. PICK f : IsLevel(f, hp, us, rt)
    BY DEF Sound, Levelled
  <2>2. /\ f \in [us -> Nat]
        /\ \A a \in us : hp[a].leaf <=> f[a] = 0
        /\ \A a \in us : a # rt => f[a] < f[rt]
        /\ \A a, b, j : Old(a, b, j) => f[b] = f[a] + 1
    BY <2>1 DEF IsLevel, Old
  <2> DEFINE g == [a \in vs |-> f[a]]
  <2>3. g \in [vs -> Nat] /\ \A a \in vs : g[a] = f[a] /\ a \in us
    BY <2>2
  <2> HIDE DEF g
  <2>4. \A a \in vs : hq[a].leaf <=> g[a] = 0
    BY <1>4, <2>2, <2>3
  <2>5. \A a \in vs : a # rt => g[a] < g[rt]
    BY <1>2, <1>5, <2>2, <2>3
  <2>6. ASSUME NEW a, NEW b, NEW j, New(a, b, j) PROVE g[b] = g[a] + 1
    <3>1. PICK o, m : Old(a, o, m) /\ b = ToNode(o) /\ a # r
      BY <1>8, <2>6
    <3>2. f[o] = f[a] + 1 /\ a \in vs /\ o \in us
      BY <1>5, <2>2, <3>1
    <3>3. f[x] = f[l] + 1 /\ f[x] = f[r] + 1 /\ f[l] \in Nat /\ f[r] \in Nat
      BY <1>1, <1>2, <1>6, <2>2
    <3>4. f[l] = f[r]
      BY <3>3, SMT
    <3>5. b \in vs /\ f[b] = f[o]
      BY <1>1, <1>6, <3>1, <3>2, <3>4
    <3> QED BY <2>3, <3>2, <3>5
  <2>7. IsLevel(g, hq, vs, rt)
    BY <2>3, <2>4, <2>5, <2>6 DEF IsLevel, New
  <2> QED BY <2>7 DEF Levelled
<1> QED BY <1>1, <1>4, <1>6, <1>9, <1>10 DEF Sound

-----------------------------------------------------------------------------
(* A minimal child borrows from its left or its right neighbour.  q and w  *)
(* are the nodes of borrower and lender after it.                          *)

(* The nodes of x, which keeps its children, of c and of d are replaced.   *)
Lends(hp, us, rt, x, i, m, c, d, hq) ==
  /\ Sound(hp, us, rt)
  /\ IsKid(hp, us, c, x, i) /\ IsKid(hp, us, d, x, m) /\ i # m
  /\ hp[c].n = Order - 1 /\ hp[d].n > Order - 1
  /\ hq \in [Addresses -> Node]
  /\ \A a \in Addresses : a \notin {x, c, d} => hq[a] = hp[a]
  /\ hq[x].leaf = hp[x].leaf /\ hq[x].n = hp[x].n /\ hq[x].children = hp[x].children
  /\ hq[c].leaf = hp[c].leaf /\ hq[c].n = Order
  /\ hq[d].leaf = hp[d].leaf /\ hq[d].n = hp[d].n - 1
  /\ hp[c].leaf => \A j \in ChildSlots : hq[c].children[j] = NULL /\ hq[d].children[j] = NULL

LEMMA LendsFilled ==
  ASSUME NEW hp, NEW us, NEW rt, NEW x, NEW i, NEW m, NEW c, NEW d, NEW hq,
         Lends(hp, us, rt, x, i, m, c, d, hq)
  PROVE  /\ Filled(hq, us, rt)
         /\ \A a \in us : hq[a].leaf = hp[a].leaf
         /\ \A a, b, j : b \notin {c, d} => (IsKid(hq, us, a, b, j) <=> IsKid(hp, us, a, b, j))
         /\ \A a, j : IsKid(hq, us, a, c, j) <=>
              j \in ChildSlots /\ ~hp[c].leaf /\ j <= Order /\ hq[c].children[j] = a
         /\ \A a, j : IsKid(hq, us, a, d, j) <=>
              j \in ChildSlots /\ ~hp[c].leaf /\ j <= hp[d].n - 1 /\ hq[d].children[j] = a
<1> USE DEF Lends
<1>1. /\ x \in us /\ c \in us /\ c # x /\ c # rt /\ ~hp[x].leaf
      /\ \A a, j : IsKid(hp, us, a, x, j) => (hp[a].leaf <=> hp[c].leaf)
      /\ \A a, j : IsKid(hp, us, a, x, j) /\ i # j => c # a
  BY KidIs
<1>2. d \in us /\ d # x /\ d # rt /\ hp[d] \in Node /\ hp[d].n \in Nat
  BY KidIs
<1>3. c # d /\ (hp[d].leaf <=> hp[c].leaf)
  BY <1>1
<1>4. us \subseteq Addresses /\ hp \in [Addresses -> Node]
  BY DEF Sound, Filled
<1>5. \A a \in us : a \notin {x, c, d} => hq[a] = hp[a]
  BY <1>4
<1>6. \A a \in us : /\ a # rt => hp[a].n >= Order - 1
                    /\ hp[a].leaf => \A j \in ChildSlots : hp[a].children[j] = NULL
                    /\ hp[a].leaf /\ hp[a].n = 0 => \A j \in Slots : hp[a].keys[j] = 0
  BY DEF Sound, Filled
<1>7. /\ Order >= Order - 1 /\ Order # 0
      /\ hp[d].n - 1 >= Order - 1 /\ hp[d].n - 1 # 0
  BY <1>2, OrderFacts, SMT
<1>8. ASSUME NEW a \in us
      PROVE  /\ a # rt => hq[a].n >= Order - 1
             /\ hq[a].leaf => \A j \in ChildSlots : hq[a].children[j] = NULL
             /\ hq[a].leaf /\ hq[a].n = 0 => \A j \in Slots : hq[a].keys[j] = 0
  <2>1. CASE a = x
    BY <1>1, <1>6, <2>1
  <2>2. CASE a = c
    BY <1>7, <2>2
  <2>3. CASE a = d
    BY <1>3, <1>7, <2>3
  <2>4. CASE a \notin {x, c, d}
    BY <1>5, <1>6, <2>4
  <2> QED BY <2>1, <2>2, <2>3, <2>4
<1>9. Filled(hq, us, rt)
  BY <1>4, <1>8 DEF Filled
<1>10. \A a \in us : hq[a].leaf = hp[a].leaf
  BY <1>5
<1>11. ASSUME NEW a, NEW b, NEW j, b \notin {c, d}
       PROVE  IsKid(hq, us, a, b, j) <=> IsKid(hp, us, a, b, j)
  <2>1. CASE b = x
    BY <2>1 DEF IsKid
  <2>2. CASE b # x
    BY <1>5, <1>11, <2>2 DEF IsKid
  <2> QED BY <2>1, <2>2
<1>12. ASSUME NEW a, NEW j
       PROVE  /\ IsKid(hq, us, a, c, j) <=>
                   j \in ChildSlots /\ ~hp[c].leaf /\ j <= Order /\ hq[c].children[j] = a
              /\ IsKid(hq, us, a, d, j) <=>
                   j \in ChildSlots /\ ~hp[c].leaf /\ j <= hp[d].n - 1 /\ hq[d].children[j] = a
  BY <1>1, <1>2, <1>3 DEF IsKid
<1> QED BY <1>9, <1>10, <1>11, <1>12

(* One child moves: from slot e of d to slot g of c; the other children of *)
(* c move by s slots, those of d by t.                                     *)
Moves(hp, us, c, d, e, g, s, t, hq) ==
  /\ e \in Int /\ g \in ChildSlots /\ s \in Int /\ t \in Int
  /\ \A a, m : IsKid(hp, us, a, c, m) => m + s \in ChildSlots /\ m + s # g
  /\ \A a, m : IsKid(hp, us, a, d, m) /\ m # e => m + t \in ChildSlots
  /\ \A a, j : IsKid(hq, us, a, c, j) <=>
       \/ j = g /\ IsKid(hp, us, a, d, e)
       \/ j \in ChildSlots /\ j # g /\ IsKid(hp, us, a, c, j - s)
  /\ \A a, j : IsKid(hq, us, a, d, j) <=>
       j \in ChildSlots /\ j - t # e /\ IsKid(hp, us, a, d, j - t)

LEMMA LendsSound ==
  ASSUME NEW hp, NEW us, NEW rt, NEW x, NEW i, NEW m, NEW c, NEW d, NEW hq,
         Lends(hp, us, rt, x, i, m, c, d, hq),
         NEW e, NEW g, NEW s, NEW t, Moves(hp, us, c, d, e, g, s, t, hq)
  PROVE  Sound(hq, us, rt) /\ c \in us /\ c # rt /\ hq[c].n = Order
<1> DEFINE Old(a, b, j) == IsKid(hp, us, a, b, j)
           New(a, b, j) == IsKid(hq, us, a, b, j)
           (* Where a child of before is now. *)
           ToNode(o, k) == IF o = d /\ k = e THEN c ELSE o
           ToSlot(o, k) == IF o = d /\ k = e THEN g
                           ELSE IF o = d THEN k + t ELSE IF o = c THEN k + s ELSE k
<1>1. Sound(hp, us, rt) /\ Old(c, x, i) /\ Old(d, x, m) /\ i # m /\ hq[c].n = Order
  BY DEF Lends
<1>2. /\ Filled(hq, us, rt)
      /\ \A a \in us : hq[a].leaf = hp[a].leaf
      /\ \A a, b, j : b \notin {c, d} => (New(a, b, j) <=> Old(a, b, j))
  BY LendsFilled
<1>3. /\ rt \in us
      /\ \A a, b, j : Old(a, b, j) => a \in us /\ a # rt /\ b \in us /\ j \in ChildSlots
      /\ \A a, b, p, j, k : Old(a, b, j) /\ Old(a, p, k) => b = p /\ j = k
      /\ \A a \in us : a # rt => \E b, j : Old(a, b, j)
  BY <1>1 DEF Sound, Linked, IsKid
<1>4. c # d /\ c \in us /\ d \in us /\ x \in us /\ c # rt
  BY <1>1, <1>3
<1>5. /\ e \in Int /\ g \in ChildSlots /\ s \in Int /\ t \in Int
      /\ \A a, k : Old(a, c, k) => k + s \in ChildSlots /\ k + s # g
      /\ \A a, k : Old(a, d, k) /\ k # e => k + t \in ChildSlots
      /\ \A a, j : New(a, c, j) <=>
           \/ j = g /\ Old(a, d, e)
           \/ j \in ChildSlots /\ j # g /\ Old(a, c, j - s)
      /\ \A a, j : New(a, d, j) <=> j \in ChildSlots /\ j - t # e /\ Old(a, d, j - t)
  BY DEF Moves
<1> HIDE DEF Old, New
<1>6. ASSUME NEW a, NEW o, NEW k, Old(a, o, k) PROVE New(a, ToNode(o, k), ToSlot(o, k))
  <2>1. k \in ChildSlots /\ k \in Int
    BY <1>3, <1>6, OrderFacts
  <2>2. CASE o = d /\ k = e
    BY <1>4, <1>5, <1>6, <2>2
  <2>3. CASE o = d /\ k # e
    <3>1. (k + t) - t = k
      BY <1>5, <2>1, SMT
    <3>2. New(a, d, k + t)
      BY <1>5, <1>6, <2>3, <3>1
    <3> QED BY <2>3, <3>2
  <2>4. CASE o = c
    <3>1. (k + s) - s = k
      BY <1>5, <2>1, SMT
    <3>2. New(a, c, k + s)
      BY <1>5, <1>6, <2>4, <3>1
    <3> QED BY <1>4, <2>4, <3>2
  <2>5. CASE o \notin {c, d}
    BY <1>2, <1>6, <2>5
  <2> QED BY <2>2, <2>3, <2>4, <2>5
<1>7. ASSUME NEW a, NEW b, NEW j, New(a, b, j)
      PROVE  \E o, k : Old(a, o, k) /\ b = ToNode(o, k) /\ j = ToSlot(o, k)
  <2>1. CASE b = c /\ j = g /\ Old(a, d, e)
    BY <2>1
  <2>2. CASE b = c /\ j \in ChildSlots /\ Old(a, c, j - s)
    <3>1. (j - s) + s = j
      BY <1>5, <2>2, OrderFacts, SMT
    <3> QED BY <1>4, <2>2, <3>1
  <2>3. CASE b = d /\ j \in ChildSlots /\ j - t # e /\ Old(a, d, j - t)
    <3>1. (j - t) + t = j
      BY <1>5, <2>3, OrderFacts, SMT
    <3> QED BY <1>4, <2>3, <3>1
  <2>4. CASE b \notin {c, d}
    BY <1>2, <1>7, <2>4
  <2> QED BY <1>5, <1>7, <2>1, <2>2, <2>3, <2>4
<1>8. Linked(hq, us, rt)
  <2>1. \A a, b, j : New(a, b, j) => a \in us /\ a # rt
    BY <1>3, <1>7
  <2>2. ASSUME NEW a, NEW b, NEW p, NEW j, NEW k, New(a, b, j), New(a, p, k) PROVE b = p /\ j = k
    <3>1. PICK o1, k1 : Old(a, o1, k1) /\ b = ToNode(o1, k1) /\ j = ToSlot(o1, k1)
      BY <1>7, <2>2
    <3>2. PICK o2, k2 : Old(a, o2, k2) /\ p = ToNode(o2, k2) /\ k = ToSlot(o2, k2)
      BY <1>7, <2>2
    <3>3. o1 = o2 /\ k1 = k2
      BY <1>3, <3>1, <3>2
    <3> QED BY <3>1, <3>2, <3>3
  <2>3. \A a \in us : a # rt => \E b, j : New(a, b, j)
    BY <1>3, <1>6
  <2> QED BY <1>3, <2>1, <2>2, <2>3 DEF Linked, New
<1>9. Levelled(hq, us, rt)
  <2>1. PICK f : IsLevel(f, hp, us, rt)
    BY <1>1 DEF Sound, Levelled
  <2>2. /\ f \in [us -> Nat]
        /\ \A a \in us : hp[a].leaf <=> f[a] = 0
        /\ \A a \in us : a # rt => f[a] < f[rt]
        /\ \A a, b, j : Old(a, b, j) => f[b] = f[a] + 1
    BY <2>1 DEF IsLevel, Old
  <2>3. f[c] = f[d]
    <3>1. f[x] = f[c] + 1 /\ f[x] = f[d] + 1 /\ f[c] \in Nat /\ f[d] \in Nat
      BY <1>1, <1>4, <2>2
    <3> QED BY <3>1, SMT
  <2>4. ASSUME NEW a, NEW b, NEW j, New(a, b, j) PROVE f[b] = f[a] + 1
    <3>1. PICK o, k : Old(a, o, k) /\ b = ToNode(o, k)
      BY <1>7, <2>4
    <3>2. f[b] = f[o]
      BY <2>3, <3>1
    <3> QED BY <2>2, <3>1, <3>2
  <2>5. IsLevel(f, hq, us, rt)
    BY <1>2, <2>2, <2>4 DEF IsLevel, New
  <2> QED BY <2>5 DEF Levelled
<1> QED BY <1>1, <1>2, <1>4, <1>8, <1>9 DEF Sound

LEMMA BorrowLeftSound ==
  ASSUME NEW hp, NEW us, NEW rt, NEW x, NEW i, NEW m, NEW c, NEW d, NEW hq,
         Lends(hp, us, rt, x, i, m, c, d, hq),
         ~hp[c].leaf => /\ hq[c].children = ChildAdded(hp[c], 0, hp[d].children[hp[d].n])
                        /\ hq[d].children = hp[d].children
  PROVE  Sound(hq, us, rt) /\ c \in us /\ c # rt /\ hq[c].n = Order
<1> DEFINE e == hp[d].n
<1>1. /\ Sound(hp, us, rt) /\ IsKid(hp, us, c, x, i) /\ IsKid(hp, us, d, x, m)
      /\ hp[c].n = Order - 1 /\ hp[d].n > Order - 1
  BY DEF Lends
<1>2. /\ c \in us /\ hp[c] \in Node
      /\ \A a, j : IsKid(hp, us, a, x, j) => (hp[a].leaf <=> hp[c].leaf)
  BY <1>1, KidIs
<1>3. d \in us /\ hp[d] \in Node /\ hp[d].n \in Nat /\ (hp[d].leaf <=> hp[c].leaf)
  BY <1>1, <1>2, KidIs
<1>4. /\ \A a, j : IsKid(hq, us, a, c, j) <=>
           j \in ChildSlots /\ ~hp[c].leaf /\ j <= Order /\ hq[c].children[j] = a
      /\ \A a, j : IsKid(hq, us, a, d, j) <=>
           j \in ChildSlots /\ ~hp[c].leaf /\ j <= hp[d].n - 1 /\ hq[d].children[j] = a
  BY LendsFilled
<1>5. /\ \A a, j : IsKid(hp, us, a, c, j) <=>
           j \in ChildSlots /\ ~hp[c].leaf /\ j <= Order - 1 /\ hp[c].children[j] = a
      /\ \A a, j : IsKid(hp, us, a, d, j) <=>
           j \in ChildSlots /\ ~hp[c].leaf /\ j <= hp[d].n /\ hp[d].children[j] = a
  BY <1>1, <1>2, <1>3 DEF IsKid
<1>6. /\ e \in ChildSlots /\ e \in Int /\ 0 \in ChildSlots /\ 0 \in Int /\ 1 \in Int
      /\ 0 \in 0 .. MaxKeys
  BY <1>3, NodeIs, OrderFacts, SMT
<1>7. hp[d].children[e] \in Addresses \cup {NULL}
  BY <1>3, <1>6, NodeIs
<1>8. ~hp[c].leaf => \A j \in ChildSlots :
        /\ j = 0 => hq[c].children[j] = hp[d].children[e]
        /\ 0 < j /\ j <= Order => hq[c].children[j] = hp[c].children[j - 1]
  <2>1. \A j \in ChildSlots :
          /\ j = 0 => ChildAdded(hp[c], 0, hp[d].children[e])[j] = hp[d].children[e]
          /\ 0 < j /\ j <= hp[c].n + 1 =>
               ChildAdded(hp[c], 0, hp[d].children[e])[j] = hp[c].children[j - 1]
    BY <1>2, <1>6, <1>7, ChildAddedIs
  <2>2. hp[c].n + 1 = Order
    BY <1>1, OrderFacts, SMT
  <2> QED BY <2>1, <2>2
<1>9. /\ \A a, k : IsKid(hp, us, a, c, k) => k + 1 \in ChildSlots /\ k + 1 # 0
      /\ \A a, k : IsKid(hp, us, a, d, k) /\ k # e => k + 0 \in ChildSlots
  BY <1>5, OrderFacts, SMT
<1>10. ASSUME NEW a, NEW j
       PROVE  /\ IsKid(hq, us, a, c, j) <=>
                   \/ j = 0 /\ IsKid(hp, us, a, d, e)
                   \/ j \in ChildSlots /\ j # 0 /\ IsKid(hp, us, a, c, j - 1)
              /\ IsKid(hq, us, a, d, j) <=>
                   j \in ChildSlots /\ j - 0 # e /\ IsKid(hp, us, a, d, j - 0)
  <2>1. CASE j \notin ChildSlots
    BY <1>4, <1>6, <2>1
  <2>2. CASE j = 0
    <3>1. j <= Order /\ 0 <= e /\ e <= hp[d].n /\ j - 0 = j /\ (j - 0 # e /\ j <= hp[d].n <=> j <= hp[d].n - 1)
      BY <1>3, <2>2, OrderFacts, SMT
    <3> QED BY <1>4, <1>5, <1>6, <1>8, <2>2, <3>1
  <2>3. CASE j \in ChildSlots /\ j # 0
    <3>1. /\ 0 < j /\ (j <= Order <=> j - 1 <= Order - 1) /\ j - 1 \in ChildSlots
          /\ j - 0 = j /\ (j - 0 # e /\ j <= hp[d].n <=> j <= hp[d].n - 1)
      BY <1>3, <2>3, OrderFacts, SMT
    <3> QED BY <1>4, <1>5, <1>8, <2>3, <3>1
  <2> QED BY <2>1, <2>2, <2>3
<1>11. Moves(hp, us, c, d, e, 0, 1, 0, hq)
  BY <1>6, <1>9, <1>10 DEF Moves
<1> HIDE DEF e
<1> QED BY <1>11, LendsSound

LEMMA BorrowRightSound ==
  ASSUME NEW hp, NEW us, NEW rt, NEW x, NEW i, NEW m, NEW c, NEW d, NEW hq,
         Lends(hp, us, rt, x, i, m, c, d, hq),
         ~hp[c].leaf => /\ hq[c].children = [hp[c].children EXCEPT ![Order] = hp[d].children[0]]
                        /\ hq[d].children = ChildRemoved(hp[d], 0)
  PROVE  Sound(hq, us, rt) /\ c \in us /\ c # rt /\ hq[c].n = Order
<1>1. /\ Sound(hp, us, rt) /\ IsKid(hp, us, c, x, i) /\ IsKid(hp, us, d, x, m)
      /\ hp[c].n = Order - 1 /\ hp[d].n > Order - 1
  BY DEF Lends
<1>2. /\ c \in us /\ hp[c] \in Node
      /\ \A a, j : IsKid(hp, us, a, x, j) => (hp[a].leaf <=> hp[c].leaf)
  BY <1>1, KidIs
<1>3. d \in us /\ hp[d] \in Node /\ hp[d].n \in Nat /\ (hp[d].leaf <=> hp[c].leaf)
  BY <1>1, <1>2, KidIs
<1>4. /\ \A a, j : IsKid(hq, us, a, c, j) <=>
           j \in ChildSlots /\ ~hp[c].leaf /\ j <= Order /\ hq[c].children[j] = a
      /\ \A a, j : IsKid(hq, us, a, d, j) <=>
           j \in ChildSlots /\ ~hp[c].leaf /\ j <= hp[d].n - 1 /\ hq[d].children[j] = a
  BY LendsFilled
<1>5. /\ \A a, j : IsKid(hp, us, a, c, j) <=>
           j \in ChildSlots /\ ~hp[c].leaf /\ j <= Order - 1 /\ hp[c].children[j] = a
      /\ \A a, j : IsKid(hp, us, a, d, j) <=>
           j \in ChildSlots /\ ~hp[c].leaf /\ j <= hp[d].n /\ hp[d].children[j] = a
  BY <1>1, <1>2, <1>3 DEF IsKid
<1>6. /\ Order \in ChildSlots /\ Order \in Int /\ 0 \in Int /\ -1 \in Int /\ 0 \in ChildSlots
      /\ 0 \in 0 .. MaxKeys /\ hp[d].n <= MaxKeys /\ 0 <= hp[d].n
  BY <1>3, NodeIs, OrderFacts, SMT
<1>7. ~hp[c].leaf => \A j \in ChildSlots :
        /\ j = Order => hq[c].children[j] = hp[d].children[0]
        /\ j # Order => hq[c].children[j] = hp[c].children[j]
        /\ j < hp[d].n => hq[d].children[j] = hp[d].children[j + 1]
  <2>1. hp[c].children \in [ChildSlots -> Addresses \cup {NULL}]
    BY <1>2, NodeIs
  <2>2. \A j \in ChildSlots : ChildRemoved(hp[d], 0)[j] =
          IF 0 <= j /\ j < hp[d].n THEN hp[d].children[j + 1] ELSE hp[d].children[j]
    BY <1>3, <1>6, ChildRemovedIs
  <2>3. \A j \in ChildSlots : 0 <= j
    BY OrderFacts, SMT
  <2> QED BY <1>6, <2>1, <2>2, <2>3
<1>8. /\ \A a, k : IsKid(hp, us, a, c, k) => k + 0 \in ChildSlots /\ k + 0 # Order
      /\ \A a, k : IsKid(hp, us, a, d, k) /\ k # 0 => k + (-1) \in ChildSlots
  BY <1>5, OrderFacts, SMT
<1>9. ASSUME NEW a, NEW j
       PROVE  /\ IsKid(hq, us, a, c, j) <=>
                   \/ j = Order /\ IsKid(hp, us, a, d, 0)
                   \/ j \in ChildSlots /\ j # Order /\ IsKid(hp, us, a, c, j - 0)
              /\ IsKid(hq, us, a, d, j) <=>
                   j \in ChildSlots /\ j - (-1) # 0 /\ IsKid(hp, us, a, d, j - (-1))
  <2>1. CASE j \notin ChildSlots
    BY <1>4, <1>6, <2>1
  <2>2. CASE j \in ChildSlots
    <3>1. /\ j - 0 = j /\ (j # Order => (j <= Order <=> j <= Order - 1))
          /\ j - (-1) = j + 1 /\ j + 1 # 0
          /\ (j <= hp[d].n - 1 <=> j + 1 <= hp[d].n) /\ (j <= hp[d].n - 1 <=> j < hp[d].n)
          /\ (j + 1 <= hp[d].n => j + 1 \in ChildSlots) /\ (j = Order => j <= Order)
      BY <1>3, <1>6, <2>2, OrderFacts, SMT
    <3>2. IsKid(hq, us, a, c, j) <=>
                   \/ j = Order /\ IsKid(hp, us, a, d, 0)
                   \/ j \in ChildSlots /\ j # Order /\ IsKid(hp, us, a, c, j)
      BY <1>4, <1>5, <1>6, <1>7, <2>2, <3>1
    <3>3. IsKid(hq, us, a, d, j) <=> IsKid(hp, us, a, d, j + 1)
      BY <1>4, <1>5, <1>7, <2>2, <3>1
    <3> QED BY <2>2, <3>1, <3>2, <3>3
  <2> QED BY <2>1, <2>2
<1>10. Moves(hp, us, c, d, 0, Order, 0, -1, hq)
  BY <1>6, <1>8, <1>9 DEF Moves
<1> QED BY <1>10, LendsSound

-----------------------------------------------------------------------------
(* The inductive invariant.                                                *)

(* The tree is sound between any two calls, and the next one is prepared.  *)
IInv == TypeOK /\ Sound(heap, used, root) /\ CallsPrepared

(* Where a live child slot leads.                                          *)
LEMMA KidOf ==
  ASSUME NEW hp, NEW us, NEW rt, Sound(hp, us, rt),
         NEW b \in us, ~hp[b].leaf, NEW i \in ChildSlots, i <= hp[b].n,
         NEW a, a = hp[b].children[i]
  PROVE  /\ IsKid(hp, us, a, b, i) /\ a \in us /\ a # rt /\ a # b /\ a \in Addresses
         /\ hp[a] \in Node /\ hp[a].n \in Nat /\ hp[a].n >= Order - 1
<1>1. IsKid(hp, us, a, b, i)
  BY DEF IsKid
<1> QED BY <1>1, KidIs

LEMMA NodesAre ==
  ASSUME IInv, NEW a \in used
  PROVE  a \in Addresses /\ heap[a] \in Node /\ key \in Int /\ (a # root => heap[a].n >= Order - 1)
<1>1. heap \in [Addresses -> Node] /\ used \subseteq Addresses /\ key \in Keys \cup {0}
  BY DEF IInv, TypeOK
<1>2. key \in Int
  BY <1>1, KeysAssumption, SMT
<1>3. a # root => heap[a].n >= Order - 1
  BY DEF IInv, Sound, Filled
<1> QED BY <1>1, <1>2, <1>3

LEMMA RootIs ==
  ASSUME IInv
  PROVE  root \in used
BY DEF IInv, Sound, Linked

LEMMA NullIs == NULL \notin Addresses
BY AddressesAssumption DEF NULL

(* A step keeps the variables' types if it keeps the tree sound.           *)
LEMMA TypeStep ==
  ASSUME TypeOK, Sound(heap', used', root'),
         lock' \in BOOLEAN, typed' \in 0 .. MaxCalls, call'.number \in Keys \cup {0},
         pc' \in Functions \cup {"exited", "undefined"},
         cur' \in Addresses \cup {NULL}, key' \in Keys \cup {0}, walk' \in Addresses \cup {NULL},
         found' \in BOOLEAN
  PROVE  TypeOK'
<1>1. heap' \in [Addresses -> Node] /\ used' \subseteq Addresses /\ root' \in used'
  BY DEF Sound, Filled, Linked
<1> QED BY <1>1 DEF TypeOK

LEMMA InitSound ==
  ASSUME Init
  PROVE  IInv
<1>1. /\ heap = [a \in Addresses |-> NewNode] /\ used = {root} /\ root \in Addresses
      /\ lock = FALSE /\ typed = 0 /\ call = NoCall /\ pc = "main"
      /\ cur = NULL /\ key = 0 /\ walk = NULL /\ found = FALSE
  BY DEF Init
<1>2. /\ NewNode \in Node /\ NewNode.leaf /\ NewNode.n = 0
      /\ \A j \in ChildSlots : NewNode.children[j] = NULL
      /\ \A j \in Slots : NewNode.keys[j] = 0
  BY <1>1, TopNodeIs
<1>3. heap \in [Addresses -> Node] /\ heap[root] = NewNode
  BY <1>1, <1>2
<1>4. Filled(heap, used, root)
  BY <1>1, <1>2, <1>3 DEF Filled
<1>5. \A a, b, i : ~IsKid(heap, used, a, b, i)
  BY <1>1, <1>2, <1>3 DEF IsKid
<1>6. Linked(heap, used, root)
  BY <1>1, <1>5 DEF Linked
<1>7. IsLevel([a \in used |-> 0], heap, used, root)
  BY <1>1, <1>2, <1>3, <1>5 DEF IsLevel
<1>8. Sound(heap, used, root)
  BY <1>4, <1>6, <1>7 DEF Sound, Levelled
<1>9. TypeOK
  <2>1. call.number = 0 /\ typed \in 0 .. MaxCalls
    BY <1>1, MaxCallsAssumption DEF NoCall
  <2> QED BY <1>1, <1>3, <2>1 DEF TypeOK, Functions
<1>10. CallsPrepared
  BY <1>1 DEF CallsPrepared
<1> QED BY <1>8, <1>9, <1>10 DEF IInv

-----------------------------------------------------------------------------
(* Steps that leave the tree as it is. *)

LEMMA AskedStep ==
  ASSUME IInv, [Next]_vars,
         \/ \E k \in Keys : Add(k) \/ Del(k) \/ Find(k)
         \/ \E to \in BOOLEAN : SetLock(to)
         \/ Exit
  PROVE  IInv'
<1>1. TypeOK /\ Sound(heap, used, root) /\ CallsPrepared /\ root \in used
  BY RootIs DEF IInv
<1>2. typed' \in 0 .. MaxCalls
  <2>1. (typed' = typed + 1 /\ typed < MaxCalls) \/ typed' = typed
    BY DEF Add, Del, Find, Starts, SetLock, Exit, Asked, Typed, Scripted
  <2>2. typed \in 0 .. MaxCalls
    BY <1>1 DEF TypeOK
  <2> QED BY <2>1, <2>2, MaxCallsAssumption, SMT
<1>3. ASSUME NEW k \in Keys, NEW name, NEW f \in {"insert", "delete", "search"}, Starts(name, f, k)
      PROVE  IInv'
  <2>1. /\ call' = [name |-> name, number |-> k] /\ pc' = f /\ cur' = root /\ key' = k
        /\ heap' = heap /\ used' = used /\ root' = root /\ lock' = lock
        /\ walk' = walk /\ found' = found
    BY <1>3 DEF Starts, tree
  <2>2. TypeOK'
    <3>1. /\ call'.number \in Keys \cup {0} /\ pc' \in Functions /\ cur' \in Addresses
          /\ lock' \in BOOLEAN /\ walk' \in Addresses \cup {NULL} /\ found' \in BOOLEAN
          /\ key' \in Keys \cup {0}
      BY <1>1, <2>1 DEF TypeOK, Functions
    <3> QED BY <1>1, <1>2, <2>1, <3>1, TypeStep
  <2>3. CallsPrepared'
    BY <1>1, <2>1 DEF CallsPrepared
  <2> QED BY <1>1, <2>1, <2>2, <2>3 DEF IInv
<1>4. ASSUME NEW to \in BOOLEAN, SetLock(to)
      PROVE  IInv'
  <2>1. /\ lock' = to /\ pc' = pc /\ pc = "main" /\ call' = call /\ cur' = cur /\ key' = key
        /\ heap' = heap /\ used' = used /\ root' = root /\ walk' = walk /\ found' = found
    BY <1>4 DEF SetLock, Asked, args
  <2>2. TypeOK'
    <3>1. /\ call'.number \in Keys \cup {0} /\ pc' \in Functions /\ cur' \in Addresses \cup {NULL}
          /\ lock' \in BOOLEAN /\ walk' \in Addresses \cup {NULL} /\ found' \in BOOLEAN
          /\ key' \in Keys \cup {0}
      BY <1>1, <2>1 DEF TypeOK, Functions
    <3> QED BY <1>1, <1>2, <2>1, <3>1, TypeStep
  <2>3. CallsPrepared'
    BY <1>1, <2>1 DEF CallsPrepared
  <2> QED BY <1>1, <2>1, <2>2, <2>3 DEF IInv
<1>5. ASSUME Exit
      PROVE  IInv'
  <2>1. /\ lock' = lock /\ pc' = "exited" /\ call' = call /\ cur' = cur /\ key' = key
        /\ heap' = heap /\ used' = used /\ root' = root /\ walk' = walk /\ found' = found
    BY <1>5 DEF Exit, args, tree
  <2>2. TypeOK'
    <3>1. /\ call'.number \in Keys \cup {0} /\ cur' \in Addresses \cup {NULL}
          /\ lock' \in BOOLEAN /\ walk' \in Addresses \cup {NULL} /\ found' \in BOOLEAN
          /\ key' \in Keys \cup {0}
      BY <1>1, <2>1 DEF TypeOK
    <3> QED BY <1>1, <1>2, <2>1, <3>1, TypeStep
  <2>3. CallsPrepared'
    BY <1>1, <2>1 DEF CallsPrepared
  <2> QED BY <1>1, <2>1, <2>2, <2>3 DEF IInv
<1> QED BY <1>3, <1>4, <1>5 DEF Add, Del, Find

(* How a step ends: with a return to main, with the end of the program,    *)
(* with a call, or with the next node of a walk.                           *)
LEMMA ReturnsStep ==
  ASSUME IInv, Returns, found' \in BOOLEAN, Sound(heap', used', root')
  PROVE  IInv'
<1>1. /\ TypeOK
      /\ pc' = "main" /\ call' = NoCall /\ cur' = NULL /\ key' = 0 /\ walk' = NULL
      /\ lock' = lock /\ typed' = typed
  BY DEF IInv, Returns, input
<1>2. TypeOK'
  <2>1. /\ call'.number \in Keys \cup {0} /\ pc' \in Functions
        /\ lock' \in BOOLEAN /\ typed' \in 0 .. MaxCalls
    BY <1>1 DEF TypeOK, Functions, NoCall
  <2> QED BY <1>1, <2>1, TypeStep
<1>3. CallsPrepared'
  BY <1>1 DEF CallsPrepared
<1> QED BY <1>2, <1>3 DEF IInv

LEMMA StopsStep ==
  ASSUME IInv, pc' \in {"exited", "undefined"}, UNCHANGED <<tree, args, input, call, found>>
  PROVE  IInv'
<1>1. /\ TypeOK /\ Sound(heap, used, root)
      /\ heap' = heap /\ used' = used /\ root' = root /\ lock' = lock
      /\ cur' = cur /\ key' = key /\ walk' = walk /\ typed' = typed
      /\ call' = call /\ found' = found
  BY DEF IInv, tree, args, input
<1>2. TypeOK'
  BY <1>1 DEF TypeOK
<1>3. CallsPrepared'
  BY DEF CallsPrepared
<1> QED BY <1>1, <1>2, <1>3 DEF IInv

LEMMA CallsStep ==
  ASSUME IInv, NEW f, NEW c, Calls(f, c, key), Sound(heap', used', root'), c \in used',
         \/ f = "search"
         \/ f = "insert_nonfull" /\ ~IsFull(heap'[c])
         \/ /\ f = "BTreeDeleteNoNone"
            /\ c = root' => key \in Keys /\ (heap'[c].leaf => heap'[c].n # 1)
            /\ c # root' => heap'[c].n >= Order
  PROVE  IInv'
<1>1. /\ TypeOK
      /\ pc' = f /\ cur' = c /\ key' = key
      /\ lock' = lock /\ walk' = walk /\ typed' = typed /\ call' = call /\ found' = found
  BY DEF IInv, Calls, input
<1>2. TypeOK'
  <2>1. /\ call'.number \in Keys \cup {0} /\ pc' \in Functions
        /\ lock' \in BOOLEAN /\ typed' \in 0 .. MaxCalls
        /\ key' \in Keys \cup {0} /\ walk' \in Addresses \cup {NULL} /\ found' \in BOOLEAN
    BY <1>1 DEF TypeOK, Functions
  <2>2. cur' \in Addresses
    BY <1>1 DEF Sound, Filled
  <2> QED BY <1>1, <2>1, <2>2, TypeStep
<1>3. CallsPrepared'
  <2>1. CASE f = "search"
    BY <1>1, <2>1 DEF CallsPrepared
  <2>2. CASE f = "insert_nonfull" /\ ~IsFull(heap'[c])
    BY <1>1, <2>2 DEF CallsPrepared
  <2>3. CASE /\ f = "BTreeDeleteNoNone"
             /\ c = root' => key \in Keys /\ (heap'[c].leaf => heap'[c].n # 1)
             /\ c # root' => heap'[c].n >= Order
    <3>1. CanGive'
      BY <1>1, <2>3 DEF CanGive
    <3> QED BY <1>1, <2>3, <3>1 DEF CallsPrepared
  <2> QED BY <2>1, <2>2, <2>3
<1> QED BY <1>2, <1>3 DEF IInv

LEMMA SeeksStep ==
  ASSUME IInv, CanGive, NEW f, NEW c, Seeks(f, c), c \in used, c # root,
         ~heap[cur].leaf, Slot < heap[cur].n,
         \/ f = "BTreeGetLeftMax" /\ HasSpare(heap[heap[cur].children[Slot]])
         \/ f = "BTreeGetRightMin" /\ HasSpare(heap[heap[cur].children[Slot + 1]])
  PROVE  IInv'
<1>1. /\ TypeOK /\ Sound(heap, used, root)
      /\ heap' = heap /\ used' = used /\ root' = root /\ lock' = lock
      /\ pc' = f /\ cur' = cur /\ key' = key /\ walk' = c
      /\ typed' = typed /\ call' = call /\ found' = found
  BY DEF IInv, Seeks, tree, input
<1>2. TypeOK'
  BY <1>1 DEF TypeOK, Functions
<1>3. Slot' = Slot
  BY <1>1 DEF Slot
<1>4. CanGive'
  BY <1>1 DEF CanGive
<1>5. CallsPrepared'
  <2>1. \/ f = "BTreeGetLeftMax" /\ Seeking(Slot)'
        \/ f = "BTreeGetRightMin" /\ Seeking(Slot + 1)'
    BY <1>1, <1>3 DEF Seeking
  <2> QED BY <1>1, <1>4, <2>1 DEF CallsPrepared
<1> QED BY <1>1, <1>2, <1>5 DEF IInv

LEMMA SearchAndInsertKeep ==
  ASSUME IInv,
         \/ Refused \/ \E hit \in BOOLEAN : SearchEnds(hit)
         \/ SearchDescend \/ InsertRoot \/ InsertDescend \/ OutOfMemory
  PROVE  IInv'
<1>1. TypeOK /\ Sound(heap, used, root) /\ CallsPrepared /\ root \in used
  BY RootIs DEF IInv
<1>2. CASE Refused
  <2>1. Returns /\ heap' = heap /\ used' = used /\ root' = root /\ found' = found
    BY <1>2 DEF Refused
  <2> QED BY <1>1, <2>1, ReturnsStep DEF TypeOK
<1>3. ASSUME NEW hit \in BOOLEAN, SearchEnds(hit) PROVE IInv'
  <2>1. Returns /\ heap' = heap /\ used' = used /\ root' = root /\ found' = hit
    BY <1>3 DEF SearchEnds
  <2> QED BY <1>1, <2>1, ReturnsStep
<1>4. CASE SearchDescend
  <2> DEFINE i == SearchSlot(heap[cur], key)
             c == heap[cur].children[i]
  <2>1. /\ pc = "search" /\ ~heap[cur].leaf /\ Calls("search", c, key)
        /\ heap' = heap /\ used' = used /\ root' = root
    BY <1>4 DEF SearchDescend
  <2>2. cur \in used
    BY <1>1, <2>1 DEF CallsPrepared
  <2>3. heap[cur] \in Node /\ key \in Int
    BY <2>2, NodesAre
  <2>4. i \in 0 .. heap[cur].n
    <3>1. ScanUp(heap[cur], key) \in 0 .. heap[cur].n /\ heap[cur].n \in Nat
      BY <2>3, ScanUpIs, NodeIs
    <3> QED BY <3>1, SMT DEF SearchSlot
  <2>5. i \in ChildSlots /\ i <= heap[cur].n
    BY <2>3, <2>4, NodeIs, OrderFacts, SMT
  <2> HIDE DEF i
  <2>6. c \in used
    BY <1>1, <2>1, <2>2, <2>5, KidOf
  <2> QED BY <1>1, <2>1, <2>6, CallsStep
<1>5. CASE InsertRoot
  <2>1. /\ Calls("insert_nonfull", root, key) /\ ~IsFull(heap[root])
        /\ heap' = heap /\ used' = used /\ root' = root
    BY <1>5 DEF InsertRoot
  <2> QED BY <1>1, <2>1, CallsStep
<1>6. CASE InsertDescend
  <2> DEFINE i == ScanDown(heap[cur], key)
             c == heap[cur].children[i]
  <2>1. /\ pc = "insert_nonfull" /\ ~heap[cur].leaf /\ ~IsFull(heap[c])
        /\ Calls("insert_nonfull", c, key)
        /\ heap' = heap /\ used' = used /\ root' = root
    BY <1>6 DEF InsertDescend
  <2>2. cur \in used
    BY <1>1, <2>1 DEF CallsPrepared
  <2>3. heap[cur] \in Node /\ key \in Int
    BY <2>2, NodesAre
  <2>4. i \in 0 .. heap[cur].n
    BY <2>3, ScanDownIs
  <2>5. i \in ChildSlots /\ i <= heap[cur].n
    BY <2>3, <2>4, NodeIs, OrderFacts, SMT
  <2> HIDE DEF i
  <2>6. c \in used
    BY <1>1, <2>1, <2>2, <2>5, KidOf
  <2> QED BY <1>1, <2>1, <2>6, CallsStep
<1>7. CASE OutOfMemory
  <2>1. pc' = "exited" /\ UNCHANGED <<tree, args, input, call, found>>
    BY <1>7 DEF OutOfMemory
  <2> QED BY <2>1, StopsStep
<1> QED BY <1>2, <1>3, <1>4, <1>5, <1>6, <1>7

(* Where delete is in an inner node.                                       *)
LEMMA DeleteAt ==
  ASSUME IInv, NEW i, At(i)
  PROVE  /\ CanGive /\ Sound(heap, used, root) /\ cur \in used /\ ~heap[cur].leaf
         /\ heap[cur] \in Node /\ heap[cur].n \in Nat /\ heap[cur].n <= MaxKeys
         /\ i \in ChildSlots /\ i \in Nat /\ i <= heap[cur].n /\ i = ScanUp(heap[cur], key)
         /\ cur = root \/ heap[cur].n >= Order
<1>1. /\ pc = "BTreeDeleteNoNone" /\ ~heap[cur].leaf /\ i \in ChildSlots
      /\ i = ScanUp(heap[cur], key)
  BY DEF At
<1>2. CanGive /\ cur \in used /\ (cur = root \/ heap[cur].n >= Order)
  BY <1>1 DEF IInv, CallsPrepared, CanGive
<1>3. heap[cur] \in Node /\ key \in Int
  BY <1>2, NodesAre
<1>4. ScanUp(heap[cur], key) \in 0 .. heap[cur].n
  BY <1>3, ScanUpIs
<1>5. i \in Nat /\ i <= heap[cur].n /\ heap[cur].n \in Nat /\ heap[cur].n <= MaxKeys
  BY <1>1, <1>3, <1>4, NodeIs, SMT
<1> QED BY <1>1, <1>2, <1>3, <1>5 DEF IInv

(* The children of that node.                                              *)
LEMMA KidAt ==
  ASSUME IInv, NEW i, At(i), NEW j \in ChildSlots, j <= heap[cur].n
  PROVE  /\ IsKid(heap, used, Kid(j), cur, j) /\ Kid(j) \in used /\ Kid(j) # root
         /\ Kid(j) # cur /\ Kid(j) \in Addresses
         /\ heap[Kid(j)] \in Node /\ heap[Kid(j)].n \in Nat /\ heap[Kid(j)].n >= Order - 1
<1> DEFINE a == heap[cur].children[j]
<1>1. Sound(heap, used, root) /\ cur \in used /\ ~heap[cur].leaf
  BY DeleteAt
<1>2. a = heap[cur].children[j]
  OBVIOUS
<1> HIDE DEF a
<1>3. /\ IsKid(heap, used, a, cur, j) /\ a \in used /\ a # root
      /\ a # cur /\ a \in Addresses
      /\ heap[a] \in Node /\ heap[a].n \in Nat /\ heap[a].n >= Order - 1
  BY <1>1, <1>2, KidOf
<1> QED BY <1>2, <1>3 DEF Kid

LEMMA DeleteKeeps ==
  ASSUME IInv,
         \/ DeleteRoot \/ DeleteUndefined \/ LeftMaxDescend \/ RightMinDescend
         \/ \E i \in ChildSlots :
              SeekLeftMax(i) \/ SeekRightMin(i) \/ DeleteDescend(i) \/ MergeNull(i)
  PROVE  IInv'
<1>1. TypeOK /\ Sound(heap, used, root) /\ CallsPrepared /\ root \in used
  BY RootIs DEF IInv
<1>2. CASE DeleteRoot
  <2>1. /\ pc = "delete" /\ Calls("BTreeDeleteNoNone", root, key) /\ ~LooksAtNull(heap[root])
        /\ heap' = heap /\ used' = used /\ root' = root
    BY <1>2 DEF DeleteRoot
  <2>2. key \in Keys
    BY <1>1, <2>1 DEF CallsPrepared
  <2>3. heap[root].leaf => heap[root].n # 1
    <3>1. heap[root].leaf => \A j \in ChildSlots : heap[root].children[j] = NULL
      BY <1>1 DEF Sound, Filled
    <3>2. 0 \in ChildSlots /\ 1 \in ChildSlots
      BY OrderFacts, SMT
    <3> QED BY <2>1, <3>1, <3>2 DEF LooksAtNull
  <2> QED BY <1>1, <2>1, <2>2, <2>3, CallsStep
<1>3. CASE DeleteUndefined
  <2>1. pc' = "undefined" /\ UNCHANGED <<tree, args, input, call, found>>
    BY <1>3 DEF DeleteUndefined, Undefined
  <2> QED BY <2>1, StopsStep
<1>4. CASE LeftMaxDescend
  <2> DEFINE c == heap[walk].children[heap[walk].n]
  <2>1. pc = "BTreeGetLeftMax" /\ ~heap[walk].leaf /\ Seeks("BTreeGetLeftMax", c)
    BY <1>4 DEF LeftMaxDescend
  <2>2. Seeking(Slot) /\ CanGive
    BY <1>1, <2>1 DEF CallsPrepared
  <2>3. /\ walk \in used /\ ~heap[cur].leaf /\ Slot < heap[cur].n
        /\ HasSpare(heap[heap[cur].children[Slot]])
    BY <2>2 DEF Seeking
  <2>4. heap[walk] \in Node
    BY <2>3, NodesAre
  <2>5. heap[walk].n \in ChildSlots /\ heap[walk].n <= heap[walk].n
    BY <2>4, NodeIs
  <2>6. c \in used /\ c # root
    BY <1>1, <2>1, <2>3, <2>5, KidOf
  <2> QED BY <2>1, <2>2, <2>3, <2>6, SeeksStep
<1>5. CASE RightMinDescend
  <2> DEFINE c == heap[walk].children[0]
  <2>1. pc = "BTreeGetRightMin" /\ ~heap[walk].leaf /\ Seeks("BTreeGetRightMin", c)
    BY <1>5 DEF RightMinDescend
  <2>2. Seeking(Slot + 1) /\ CanGive
    BY <1>1, <2>1 DEF CallsPrepared
  <2>3. /\ walk \in used /\ ~heap[cur].leaf /\ Slot < heap[cur].n
        /\ HasSpare(heap[heap[cur].children[Slot + 1]])
    BY <2>2 DEF Seeking
  <2>4. heap[walk] \in Node
    BY <2>3, NodesAre
  <2>5. 0 \in ChildSlots /\ 0 <= heap[walk].n
    BY <2>4, NodeIs, OrderFacts, SMT
  <2>6. c \in used /\ c # root
    BY <1>1, <2>1, <2>3, <2>5, KidOf
  <2> QED BY <2>1, <2>2, <2>3, <2>6, SeeksStep
<1>6. ASSUME NEW i \in ChildSlots, SeekLeftMax(i) PROVE IInv'
  <2>1. At(i) /\ i < heap[cur].n /\ HasSpare(heap[Kid(i)]) /\ Seeks("BTreeGetLeftMax", Kid(i))
    BY <1>6 DEF SeekLeftMax, Here
  <2>2. CanGive /\ ~heap[cur].leaf /\ i <= heap[cur].n /\ i = ScanUp(heap[cur], key) /\ i \in Nat
    BY <2>1, DeleteAt
  <2>3. Kid(i) \in used /\ Kid(i) # root
    BY <2>1, <2>2, KidAt
  <2>4. Slot < heap[cur].n /\ HasSpare(heap[heap[cur].children[Slot]])
    BY <2>1, <2>2 DEF Kid, Slot
  <2> QED BY <2>1, <2>2, <2>3, <2>4, SeeksStep
<1>7. ASSUME NEW i \in ChildSlots, SeekRightMin(i) PROVE IInv'
  <2>1. /\ At(i) /\ i < heap[cur].n /\ HasSpare(heap[Kid(i + 1)])
        /\ Seeks("BTreeGetRightMin", Kid(i + 1))
    BY <1>7 DEF SeekRightMin, Here
  <2>2. /\ CanGive /\ ~heap[cur].leaf /\ i = ScanUp(heap[cur], key) /\ i \in Nat
        /\ heap[cur].n \in Nat /\ heap[cur].n <= MaxKeys
    BY <2>1, DeleteAt
  <2>3. i + 1 \in ChildSlots /\ i + 1 <= heap[cur].n
    BY <2>1, <2>2, OrderFacts, SMT
  <2>4. Kid(i + 1) \in used /\ Kid(i + 1) # root
    BY <2>1, <2>3, KidAt
  <2>5. Slot < heap[cur].n /\ HasSpare(heap[heap[cur].children[Slot + 1]])
    BY <2>1, <2>2 DEF Kid, Slot
  <2> QED BY <2>1, <2>2, <2>4, <2>5, SeeksStep
<1>8. ASSUME NEW i \in ChildSlots, DeleteDescend(i) PROVE IInv'
  <2>1. /\ At(i) /\ ~IsMinimal(heap[Kid(i)]) /\ Calls("BTreeDeleteNoNone", Kid(i), key)
        /\ heap' = heap /\ used' = used /\ root' = root
    BY <1>8 DEF DeleteDescend, Below
  <2>2. i <= heap[cur].n
    BY <2>1, DeleteAt
  <2>3. Kid(i) \in used /\ Kid(i) # root /\ heap[Kid(i)].n \in Nat /\ heap[Kid(i)].n >= Order - 1
    BY <2>1, <2>2, KidAt
  <2>4. heap[Kid(i)].n >= Order
    BY <2>1, <2>3, OrderFacts, SMT DEF IsMinimal
  <2> QED BY <1>1, <2>1, <2>3, <2>4, CallsStep
<1>9. ASSUME NEW i \in ChildSlots, MergeNull(i) PROVE IInv'
  <2>1. pc' = "undefined" /\ UNCHANGED <<tree, args, input, call, found>>
    BY <1>9 DEF MergeNull, Undefined
  <2> QED BY <2>1, StopsStep
<1> QED BY <1>2, <1>3, <1>4, <1>5, <1>6, <1>7, <1>8, <1>9

-----------------------------------------------------------------------------
(* Steps that change the tree. *)

(* One node is replaced by q, which has the same children.                 *)
LEMMA NodeChanged ==
  ASSUME NEW hp, NEW us, NEW rt, Sound(hp, us, rt), NEW b \in us, NEW q \in Node, NEW hq,
         hq = [hp EXCEPT ![b] = q],
         q.leaf = hp[b].leaf, q.children = hp[b].children,
         ~hp[b].leaf => q.n = hp[b].n,
         hp[b].leaf => q.n # 0 /\ (b # rt => q.n >= Order - 1)
  PROVE  Sound(hq, us, rt) /\ hq[b] = q /\ \A a \in us : a # b => hq[a] = hp[a]
<1>1. /\ hp \in [Addresses -> Node] /\ us \subseteq Addresses
      /\ \A a \in us : /\ a # rt => hp[a].n >= Order - 1
                       /\ hp[a].leaf => \A j \in ChildSlots : hp[a].children[j] = NULL
                       /\ hp[a].leaf /\ hp[a].n = 0 => \A j \in Slots : hp[a].keys[j] = 0
  BY DEF Sound, Filled
<1>2. hq \in [Addresses -> Node] /\ hq[b] = q /\ \A a \in us : a # b => hq[a] = hp[a]
  BY <1>1
<1>3. ASSUME NEW a \in us
      PROVE  /\ a # rt => hq[a].n >= Order - 1
             /\ hq[a].leaf => \A j \in ChildSlots : hq[a].children[j] = NULL
             /\ hq[a].leaf /\ hq[a].n = 0 => \A j \in Slots : hq[a].keys[j] = 0
  <2>1. CASE a = b
    BY <1>1, <1>2, <2>1
  <2>2. CASE a # b
    BY <1>1, <1>2, <2>2
  <2> QED BY <2>1, <2>2
<1>4. Filled(hq, us, rt)
  BY <1>1, <1>2, <1>3 DEF Filled
<1>5. \A a \in us : /\ hq[a].leaf = hp[a].leaf
                    /\ ~hp[a].leaf => hq[a].n = hp[a].n /\ hq[a].children = hp[a].children
  BY <1>2
<1> QED BY <1>2, <1>4, <1>5, SameLinks

LEMMA InsertLeafKeeps ==
  ASSUME IInv, InsertLeaf
  PROVE  IInv'
<1> DEFINE x == heap[cur]
           i == ScanDown(x, key)
           q == [x EXCEPT !.n = @ + 1, !.keys = KeyAdded(x, i, key)]
<1>1. /\ pc = "insert_nonfull" /\ x.leaf /\ heap' = [heap EXCEPT ![cur] = q]
      /\ used' = used /\ root' = root /\ found' = found /\ Returns
  BY DEF InsertLeaf
<1>2. TypeOK /\ Sound(heap, used, root) /\ cur \in used /\ ~IsFull(x)
  BY <1>1 DEF IInv, CallsPrepared
<1>3. x \in Node /\ key \in Int /\ key \in Keys \cup {0} /\ (cur # root => x.n >= Order - 1)
  BY <1>2, NodesAre DEF TypeOK
<1>4. x.n \in Nat /\ x.n <= MaxKeys /\ x.n # MaxKeys
  BY <1>2, <1>3, NodeIs DEF IsFull
<1>5. i \in 0 .. x.n
  BY <1>3, ScanDownIs
<1>6. i \in 0 .. MaxKeys /\ x.n + 1 \in 0 .. MaxKeys /\ x.n + 1 # 0 /\ (cur # root => x.n + 1 >= Order - 1)
  BY <1>3, <1>4, <1>5, OrderFacts, SMT
<1>7. KeyAdded(x, i, key) \in [Slots -> Keys \cup {0}]
  BY <1>3, <1>6, KeyAddedIs
<1> HIDE DEF i
<1>8. q \in Node /\ q.leaf = x.leaf /\ q.children = x.children /\ q.n = x.n + 1
  BY <1>3, <1>6, <1>7 DEF Node
<1>9. Sound(heap', used, root)
  <2>1. /\ q \in Node /\ q.leaf = heap[cur].leaf /\ q.children = heap[cur].children
        /\ heap[cur].leaf /\ q.n # 0 /\ (cur # root => q.n >= Order - 1)
        /\ heap' = [heap EXCEPT ![cur] = q]
    BY <1>1, <1>6, <1>8
  <2> HIDE DEF q
  <2> QED BY <1>2, <2>1, NodeChanged
<1>10. found' \in BOOLEAN
  BY <1>1, <1>2 DEF TypeOK
<1> QED BY <1>1, <1>9, <1>10, ReturnsStep

LEMMA InsertSplitKeeps ==
  ASSUME IInv, NEW new \in Addresses, InsertSplit(new)
  PROVE  IInv'
<1> DEFINE x == heap[cur]
           i == ScanDown(x, key)
           c == x.children[i]
           p == WithHalf(x, i, heap[c], new)
           d == p.children[IF key > p.keys[i] THEN i + 1 ELSE i]
<1>1. /\ pc = "insert_nonfull" /\ ~x.leaf /\ IsFull(heap[c]) /\ new \notin used
      /\ heap' = [heap EXCEPT ![cur] = p, ![c] = LowerHalf(heap[c]), ![new] = UpperHalf(heap[c])]
      /\ used' = used \cup {new} /\ root' = root
      /\ Calls("insert_nonfull", d, key)
  BY DEF InsertSplit, Allocates
<1>2. Sound(heap, used, root) /\ cur \in used /\ ~IsFull(x)
  BY <1>1 DEF IInv, CallsPrepared
<1>3. x \in Node /\ key \in Int /\ heap \in [Addresses -> Node] /\ cur \in Addresses
  BY <1>2, NodesAre DEF IInv, TypeOK
<1>4. i \in 0 .. x.n
  BY <1>3, ScanDownIs
<1>5. i \in ChildSlots /\ i <= x.n
  BY <1>3, <1>4, NodeIs, OrderFacts, SMT
<1> HIDE DEF i
<1>6. IsKid(heap, used, c, cur, i) /\ c # cur /\ c \in used
  BY <1>1, <1>2, <1>5, KidOf
<1>7. IsSplit(heap, used, root, c, cur, i, new, heap', used')
  BY <1>1, <1>2, <1>6 DEF IsSplit
<1>8. /\ Sound(heap', used', root)
      /\ IsKid(heap', used', c, cur, i) /\ IsKid(heap', used', new, cur, i + 1)
      /\ ~IsFull(heap'[c]) /\ ~IsFull(heap'[new])
  BY <1>7, SplitSound
<1>9. heap'[cur] = p
  BY <1>1, <1>2, <1>3, <1>6
<1>10. d = c \/ d = new
  BY <1>8, <1>9 DEF IsKid
<1>11. d \in used' /\ ~IsFull(heap'[d])
  BY <1>1, <1>6, <1>8, <1>10
<1> HIDE DEF d
<1> QED BY <1>1, <1>8, <1>11, CallsStep

LEMMA InsertGrowKeeps ==
  ASSUME IInv, NEW top \in Addresses, NEW new \in Addresses, InsertGrow(top, new)
  PROVE  IInv'
<1> DEFINE y == heap[root]
           x == TopNode(root)
           hp == [heap EXCEPT ![top] = x]
           us == used \cup {top}
<1>1. /\ IsFull(y) /\ top \notin used /\ new \notin used /\ new # top
      /\ heap' = [heap EXCEPT ![root] = LowerHalf(y), ![top] = WithHalf(x, 0, y, new),
                              ![new] = UpperHalf(y)]
      /\ used' = used \cup {top, new} /\ root' = top
      /\ Calls("insert_nonfull", top, key)
  BY DEF InsertGrow, Allocates, TopNode
<1>2. Sound(heap, used, root) /\ heap \in [Addresses -> Node] /\ root \in used /\ root \in Addresses
  BY RootIs DEF IInv, TypeOK
<1>3. IsTop(heap, used, root, top, hp, us)
  BY <1>1, <1>2 DEF IsTop
<1>4. /\ Sound(hp, us, top) /\ IsKid(hp, us, root, top, 0)
      /\ hp[top] = x /\ hp[top].n = 0 /\ hp[root] = y /\ root # top
  <2> HIDE DEF hp, us
  <2> QED BY <1>3, TopSound
<1>5. ~IsFull(x) /\ new \notin us
  <2>1. 0 # MaxKeys
    BY OrderFacts, SMT
  <2> QED BY <1>1, <1>4, <2>1 DEF IsFull
<1>6. heap' = [hp EXCEPT ![top] = WithHalf(x, 0, y, new), ![root] = LowerHalf(y),
                         ![new] = UpperHalf(y)]
  <2>1. new # root
    BY <1>1, <1>2
  <2> HIDE DEF x, y
  <2> QED BY <1>1, <1>2, <1>4, <2>1
<1>7. used' = us \cup {new}
  BY <1>1
<1> HIDE DEF hp, us, x, y
<1>8. IsSplit(hp, us, top, root, top, 0, new, heap', used')
  BY <1>1, <1>4, <1>5, <1>6, <1>7 DEF IsSplit
<1>9. Sound(heap', used', top) /\ heap'[top].n = 0 + 1
  BY <1>4, <1>8, SplitSound
<1>10. ~IsFull(heap'[top])
  <2>1. 0 + 1 # MaxKeys
    BY OrderFacts, SMT
  <2> QED BY <1>9, <2>1 DEF IsFull
<1> QED BY <1>1, <1>9, <1>10, CallsStep

LEMMA DeleteLeafKeeps ==
  ASSUME IInv, NEW hit \in BOOLEAN, DeleteLeaf(hit)
  PROVE  IInv'
<1> DEFINE x == heap[cur]
           i == ScanUp(x, key)
           q == [x EXCEPT !.n = @ - 1, !.keys = KeyRemoved(x, i)]
<1>1. /\ pc = "BTreeDeleteNoNone" /\ x.leaf /\ hit \in Matches(x, i, key)
      /\ heap' = IF hit THEN [heap EXCEPT ![cur] = q] ELSE heap
      /\ used' = used /\ root' = root /\ found' = found /\ Returns
  BY DEF DeleteLeaf
<1>2. TypeOK /\ Sound(heap, used, root) /\ CanGive
  BY <1>1 DEF IInv, CallsPrepared
<1>3. cur \in used /\ (cur = root => key \in Keys /\ x.n # 1) /\ (cur # root => x.n >= Order)
  BY <1>1, <1>2 DEF CanGive
<1>4. x \in Node /\ key \in Int
  BY <1>3, NodesAre
<1>5. i \in 0 .. x.n /\ x.n \in Nat /\ x.n <= MaxKeys
  BY <1>4, ScanUpIs, NodeIs
<1>6. found' \in BOOLEAN
  BY <1>1, <1>2 DEF TypeOK
<1>7. CASE ~hit
  BY <1>1, <1>2, <1>6, <1>7, ReturnsStep
<1>8. CASE hit
  <2>1. x.n # 0
    <3>1. CASE cur = root
      <4>1. SUFFICES ASSUME x.n = 0 PROVE FALSE
        OBVIOUS
      <4>2. i = 0 /\ 0 \in Slots
        BY <1>5, <4>1, OrderFacts, SMT
      <4>3. key = x.keys[0]
        BY <1>1, <1>8, <4>2 DEF Matches
      <4>4. x.keys[0] = 0
        BY <1>1, <1>2, <1>3, <4>1, <4>2 DEF Sound, Filled
      <4> QED BY <1>3, <3>1, <4>3, <4>4, KeysAssumption
    <3>2. CASE cur # root
      BY <1>3, <3>2, OrderFacts, SMT
    <3> QED BY <3>1, <3>2
  <2>2. /\ i \in 0 .. MaxKeys /\ x.n - 1 \in 0 .. MaxKeys
        /\ (cur # root => x.n - 1 >= Order - 1) /\ x.n - 1 # 0
    <3>1. cur # root => x.n # 1
      BY <1>3, OrderFacts, SMT
    <3>2. x.n # 1
      BY <1>3, <3>1
    <3> QED BY <1>3, <1>5, <2>1, <3>2, OrderFacts, SMT
  <2>3. KeyRemoved(x, i) \in [Slots -> Keys \cup {0}]
    BY <1>4, <2>2, KeyRemovedIs
  <2> HIDE DEF i
  <2>4. q \in Node /\ q.leaf = x.leaf /\ q.children = x.children /\ q.n = x.n - 1
    BY <1>4, <2>2, <2>3 DEF Node
  <2>5. /\ q \in Node /\ q.leaf = heap[cur].leaf /\ q.children = heap[cur].children
        /\ heap[cur].leaf /\ q.n # 0 /\ (cur # root => q.n >= Order - 1)
        /\ heap' = [heap EXCEPT ![cur] = q]
    BY <1>1, <1>8, <2>2, <2>4
  <2> HIDE DEF q
  <2>6. Sound(heap', used, root)
    BY <1>2, <1>3, <2>5, NodeChanged
  <2> QED BY <1>1, <1>6, <2>6, ReturnsStep
<1> QED BY <1>7, <1>8

(* The key the walk has found takes the place of key i; child c is next.   *)
LEMMA ReplacesKeeps ==
  ASSUME IInv, CanGive, ~heap[cur].leaf, NEW i \in Slots, NEW k \in Keys \cup {0},
         NEW c \in ChildSlots, c <= heap[cur].n, HasSpare(heap[Kid(c)]), Replaces(k, i, c)
  PROVE  IInv'
<1> DEFINE x == heap[cur]
           q == [x EXCEPT !.keys[i] = k]
           a == x.children[c]
<1>1. /\ heap' = [heap EXCEPT ![cur].keys[i] = k] /\ used' = used /\ root' = root
      /\ pc' = "BTreeDeleteNoNone" /\ cur' = a /\ key' = k /\ walk' = NULL
      /\ lock' = lock /\ typed' = typed /\ call' = call /\ found' = found
  BY DEF Replaces, Kid, input
<1>2. TypeOK /\ Sound(heap, used, root) /\ cur \in used
  BY DEF IInv, CanGive
<1>3. x \in Node /\ heap \in [Addresses -> Node] /\ cur \in Addresses
  BY <1>2, NodesAre DEF TypeOK
<1>4. a \in used /\ a # root /\ a # cur /\ a \in Addresses /\ heap[a].n \in Nat
  BY <1>2, KidOf
<1>5. heap[a].n >= Order
  <2>1. HasSpare(heap[a])
    BY DEF Kid
  <2> QED BY <1>4, <2>1, OrderFacts, SMT DEF HasSpare
<1>6. q \in Node /\ q.leaf = x.leaf /\ q.children = x.children /\ q.n = x.n
  <2>1. x.keys \in [Slots -> Keys \cup {0}]
    BY <1>3, NodeIs
  <2>2. [x.keys EXCEPT ![i] = k] \in [Slots -> Keys \cup {0}]
    BY <2>1
  <2> QED BY <1>3, <2>2 DEF Node
<1>7. heap' = [heap EXCEPT ![cur] = q]
  BY <1>1, <1>3
<1>8. Sound(heap', used, root) /\ \A b \in used : b # cur => heap'[b] = heap[b]
  <2>1. /\ q \in Node /\ q.leaf = heap[cur].leaf /\ q.children = heap[cur].children
        /\ ~heap[cur].leaf /\ q.n = heap[cur].n
        /\ heap' = [heap EXCEPT ![cur] = q]
    BY <1>6, <1>7
  <2> HIDE DEF q
  <2>2. Sound(heap', used, root)
    BY <1>2, <2>1, NodeChanged
  <2>3. \A b \in used : b # cur => heap'[b] = heap[b]
    BY <1>2, <1>3, <2>1 DEF TypeOK
  <2> QED BY <2>2, <2>3
<1>9. CanGive'
  BY <1>1, <1>4, <1>5, <1>8 DEF CanGive
<1>10. CallsPrepared'
  BY <1>1, <1>9 DEF CallsPrepared
<1>11. TypeOK'
  <2>1. /\ call'.number \in Keys \cup {0} /\ pc' \in Functions /\ typed' \in 0 .. MaxCalls
        /\ lock' \in BOOLEAN /\ walk' \in Addresses \cup {NULL} /\ found' \in BOOLEAN
        /\ key' \in Keys \cup {0} /\ cur' \in Addresses
    BY <1>1, <1>2, <1>4 DEF TypeOK, Functions
  <2> QED BY <1>1, <1>2, <1>8, <2>1, TypeStep
<1> QED BY <1>1, <1>8, <1>10, <1>11 DEF IInv

LEMMA WalkEndsKeeps ==
  ASSUME IInv, LeftMaxEnds \/ RightMinEnds
  PROVE  IInv'
<1>1. ASSUME Seeking(Slot) \/ Seeking(Slot + 1), CanGive
      PROVE  /\ ~heap[cur].leaf /\ Slot \in Slots
             /\ Slot \in ChildSlots /\ Slot <= heap[cur].n
             /\ Slot + 1 \in ChildSlots /\ Slot + 1 <= heap[cur].n
             /\ heap[walk] \in Node /\ heap[walk].n >= 1 /\ heap[walk].n \in Nat
             /\ heap[walk].n - 1 \in Slots /\ 0 \in Slots
  <2>1. cur \in used /\ ~heap[cur].leaf /\ Slot < heap[cur].n /\ walk \in used /\ walk # root
    BY <1>1 DEF Seeking, CanGive
  <2>2. /\ heap[cur] \in Node /\ key \in Int
        /\ heap[walk] \in Node /\ heap[walk].n >= Order - 1
    BY <2>1, NodesAre
  <2>3. Slot \in 0 .. heap[cur].n
    BY <2>2, ScanUpIs DEF Slot
  <2>4. /\ heap[cur].n \in Nat /\ heap[cur].n <= MaxKeys
        /\ heap[walk].n \in Nat /\ heap[walk].n <= MaxKeys
    BY <2>2, NodeIs
  <2>5. /\ Slot \in Slots /\ Slot \in ChildSlots /\ Slot <= heap[cur].n
        /\ Slot + 1 \in ChildSlots /\ Slot + 1 <= heap[cur].n
    BY <2>1, <2>3, <2>4, OrderFacts, SMT
  <2>6. heap[walk].n >= 1 /\ heap[walk].n - 1 \in Slots /\ 0 \in Slots
    BY <2>2, <2>4, OrderFacts, SMT
  <2> QED BY <2>1, <2>2, <2>4, <2>5, <2>6
<1>2. CASE LeftMaxEnds
  <2>1. /\ pc = "BTreeGetLeftMax"
        /\ Replaces(heap[walk].keys[heap[walk].n - 1], Slot, Slot)
    BY <1>2 DEF LeftMaxEnds, Slot
  <2>2. Seeking(Slot) /\ CanGive
    BY <2>1 DEF IInv, CallsPrepared
  <2>3. HasSpare(heap[Kid(Slot)])
    BY <2>2 DEF Seeking, Kid
  <2>4. heap[walk].keys[heap[walk].n - 1] \in Keys \cup {0}
    BY <1>1, <2>2, NodeIs
  <2> QED BY <1>1, <2>1, <2>2, <2>3, <2>4, ReplacesKeeps
<1>3. CASE RightMinEnds
  <2>1. pc = "BTreeGetRightMin" /\ Replaces(heap[walk].keys[0], Slot, Slot + 1)
    BY <1>3 DEF RightMinEnds, Slot
  <2>2. Seeking(Slot + 1) /\ CanGive
    BY <2>1 DEF IInv, CallsPrepared
  <2>3. HasSpare(heap[Kid(Slot + 1)])
    BY <2>2 DEF Seeking, Kid
  <2>4. heap[walk].keys[0] \in Keys \cup {0}
    BY <1>1, <2>2, NodeIs
  <2> QED BY <1>1, <2>1, <2>2, <2>3, <2>4, ReplacesKeeps
<1> QED BY <1>2, <1>3

LEMMA BorrowFromLeftKeeps ==
  ASSUME IInv, NEW i \in ChildSlots, BorrowFromLeft(i)
  PROVE  IInv'
<1> DEFINE x == heap[cur]
           d == Kid(i - 1)
           c == Kid(i)
           C == GivenFirst(x, i - 1, heap[c], heap[d])
           D == WithoutLast(heap[d])
<1>1. /\ At(i) /\ IsMinimal(heap[c]) /\ i > 0 /\ HasSpare(heap[d])
      /\ heap' = [heap EXCEPT ![cur].keys[i - 1] = heap[d].keys[heap[d].n - 1], ![d] = D, ![c] = C]
      /\ used' = used /\ root' = root
      /\ Calls("BTreeDeleteNoNone", c, key)
  BY DEF BorrowFromLeft, Below, LeftLends
<1>2. /\ Sound(heap, used, root) /\ cur \in used /\ ~x.leaf /\ x \in Node
      /\ x.n \in Nat /\ x.n <= MaxKeys /\ i \in Nat /\ i <= x.n
  BY <1>1, DeleteAt
<1>3. /\ i - 1 \in ChildSlots /\ i - 1 <= x.n /\ i - 1 \in Slots /\ i # i - 1
  BY <1>1, <1>2, OrderFacts, SMT
<1>4. /\ IsKid(heap, used, c, cur, i) /\ c \in used /\ c # root /\ c # cur /\ c \in Addresses
      /\ heap[c] \in Node /\ heap[c].n \in Nat
  BY <1>1, <1>2, KidAt
<1>5. /\ IsKid(heap, used, d, cur, i - 1) /\ d \in used /\ d # cur /\ d \in Addresses
      /\ heap[d] \in Node /\ heap[d].n \in Nat
  BY <1>1, <1>3, KidAt
<1>6. /\ heap[c].n = Order - 1 /\ heap[d].n > Order - 1 /\ heap[d].n > 0 /\ ~IsFull(heap[c])
      /\ heap[d].n - 1 \in Slots /\ heap[c].n + 1 = Order
  <2>1. heap[c].n = Order - 1 /\ heap[d].n > Order - 1
    BY <1>1 DEF IsMinimal, HasSpare
  <2>2. heap[d].n > 0 /\ heap[c].n # MaxKeys /\ heap[c].n + 1 = Order
    BY <2>1, <1>5, OrderFacts, SMT
  <2>3. heap[d].n <= MaxKeys
    BY <1>5, NodeIs
  <2>4. heap[d].n - 1 \in Slots
    BY <1>5, <2>1, <2>3, OrderFacts, SMT
  <2> QED BY <2>1, <2>2, <2>4 DEF IsFull
<1>7. c # d /\ (heap[d].leaf <=> heap[c].leaf)
  BY <1>2, <1>3, <1>4, <1>5, KidIs
<1>8. heap[d].keys[heap[d].n - 1] \in Keys \cup {0}
  BY <1>5, <1>6, NodeIs
<1> DEFINE P == heap[c]
           R == heap[d]
<1>9. /\ C \in Node /\ C.leaf = P.leaf /\ C.n = P.n + 1
      /\ R.leaf => C.children = [P.children EXCEPT ![0] = R.children[R.n]]
      /\ ~R.leaf => C.children = ChildAdded(P, 0, R.children[R.n])
  <2>1. x \in Node /\ i - 1 \in Slots /\ P \in Node /\ R \in Node /\ ~IsFull(P)
    BY <1>2, <1>3, <1>4, <1>5, <1>6
  <2>2. C = GivenFirst(x, i - 1, P, R)
    OBVIOUS
  <2> HIDE DEF x, P, R, C, c, d
  <2> QED BY <2>1, <2>2, GivenFirstIs
<1>10. D \in Node /\ D.leaf = R.leaf /\ D.n = R.n - 1 /\ D.children = R.children
  <2>1. R \in Node /\ R.n > 0 /\ D = WithoutLast(R)
    BY <1>5, <1>6
  <2> HIDE DEF R, D
  <2> QED BY <2>1, WithoutLastIs
<1>11. P.leaf => \A j \in ChildSlots : C.children[j] = NULL /\ D.children[j] = NULL
  <2>1. P.leaf => \A j \in ChildSlots : P.children[j] = NULL /\ R.children[j] = NULL
    BY <1>2, <1>4, <1>5, <1>7 DEF Sound, Filled
  <2>2. P.children \in [ChildSlots -> Addresses \cup {NULL}] /\ R.n \in ChildSlots
    BY <1>4, <1>5, NodeIs
  <2>3. R.leaf <=> P.leaf
    BY <1>7
  <2> HIDE DEF P, R, C, D
  <2> QED BY <1>9, <1>10, <2>1, <2>2, <2>3
<1>12. heap \in [Addresses -> Node] /\ cur \in Addresses /\ used \subseteq Addresses
  BY <1>2 DEF Sound, Filled
<1> DEFINE X == [x EXCEPT !.keys[i - 1] = heap[d].keys[heap[d].n - 1]]
<1>13. X \in Node /\ X.leaf = x.leaf /\ X.n = x.n /\ X.children = x.children
  <2>1. x.keys \in [Slots -> Keys \cup {0}]
    BY <1>2, NodeIs
  <2>2. [x.keys EXCEPT ![i - 1] = heap[d].keys[heap[d].n - 1]] \in [Slots -> Keys \cup {0}]
    BY <1>8, <2>1
  <2> QED BY <1>2, <2>2 DEF Node
<1>14. heap' = [heap EXCEPT ![cur] = X, ![d] = D, ![c] = C]
  <2> HIDE DEF C, D, c, d
  <2> QED BY <1>1, <1>12
<1> HIDE DEF X, D, C
<1>15. /\ heap' \in [Addresses -> Node] /\ heap'[cur] = X /\ heap'[d] = D /\ heap'[c] = C
       /\ \A a \in Addresses : a \notin {cur, c, d} => heap'[a] = heap[a]
  <2> HIDE DEF c, d
  <2> QED BY <1>4, <1>5, <1>7, <1>9, <1>10, <1>12, <1>13, <1>14
<1>16. Lends(heap, used, root, cur, i, i - 1, c, d, heap')
  BY <1>2, <1>3, <1>4, <1>5, <1>6, <1>9, <1>10, <1>11, <1>13, <1>15 DEF Lends
<1>17. ~heap[c].leaf => /\ heap'[c].children = ChildAdded(heap[c], 0, heap[d].children[heap[d].n])
                        /\ heap'[d].children = heap[d].children
  BY <1>7, <1>9, <1>10, <1>15
<1> HIDE DEF c, d
<1>18. Sound(heap', used, root) /\ heap'[c].n = Order
  BY <1>16, <1>17, BorrowLeftSound
<1>19. heap'[c].n >= Order
  BY <1>18, OrderFacts, SMT
<1> QED BY <1>1, <1>4, <1>18, <1>19, CallsStep

LEMMA BorrowFromRightKeeps ==
  ASSUME IInv, NEW i \in ChildSlots, BorrowFromRight(i)
  PROVE  IInv'
<1> DEFINE x == heap[cur]
           d == Kid(i + 1)
           c == Kid(i)
           C == GivenLast(x, i, heap[c], heap[d])
           D == WithoutFirst(heap[d])
<1>1. /\ At(i) /\ IsMinimal(heap[c]) /\ i < x.n /\ HasSpare(heap[d])
      /\ heap' = [heap EXCEPT ![cur].keys[i] = heap[d].keys[0], ![d] = D, ![c] = C]
      /\ used' = used /\ root' = root
      /\ Calls("BTreeDeleteNoNone", c, key)
  BY DEF BorrowFromRight, Below, RightLends
<1>2. /\ Sound(heap, used, root) /\ cur \in used /\ ~x.leaf /\ x \in Node
      /\ x.n \in Nat /\ x.n <= MaxKeys /\ i \in Nat /\ i <= x.n
  BY <1>1, DeleteAt
<1>3. i + 1 \in ChildSlots /\ i + 1 <= x.n /\ i \in Slots /\ i # i + 1
  BY <1>1, <1>2, OrderFacts, SMT
<1>4. /\ IsKid(heap, used, c, cur, i) /\ c \in used /\ c # root /\ c # cur /\ c \in Addresses
      /\ heap[c] \in Node /\ heap[c].n \in Nat
  BY <1>1, <1>2, KidAt
<1>5. /\ IsKid(heap, used, d, cur, i + 1) /\ d \in used /\ d # cur /\ d \in Addresses
      /\ heap[d] \in Node /\ heap[d].n \in Nat
  BY <1>1, <1>3, KidAt
<1>6. /\ heap[c].n = Order - 1 /\ heap[d].n > Order - 1 /\ heap[d].n > 0 /\ ~IsFull(heap[c])
      /\ 0 \in Slots /\ heap[c].n + 1 = Order
  <2>1. heap[c].n = Order - 1 /\ heap[d].n > Order - 1
    BY <1>1 DEF IsMinimal, HasSpare
  <2>2. heap[d].n > 0 /\ heap[c].n # MaxKeys /\ heap[c].n + 1 = Order /\ 0 \in Slots
    BY <2>1, <1>5, OrderFacts, SMT
  <2> QED BY <2>1, <2>2 DEF IsFull
<1>7. c # d /\ (heap[d].leaf <=> heap[c].leaf)
  BY <1>2, <1>3, <1>4, <1>5, KidIs
<1>8. heap[d].keys[0] \in Keys \cup {0}
  BY <1>5, <1>6, NodeIs
<1> DEFINE P == heap[c]
           R == heap[d]
<1>9. /\ C \in Node /\ C.leaf = P.leaf /\ C.n = P.n + 1
      /\ R.leaf => C.children = P.children
      /\ ~R.leaf => C.children = [P.children EXCEPT ![P.n + 1] = R.children[0]]
  <2>1. x \in Node /\ i \in Slots /\ P \in Node /\ R \in Node /\ ~IsFull(P)
    BY <1>2, <1>3, <1>4, <1>5, <1>6
  <2>2. C = GivenLast(x, i, P, R)
    OBVIOUS
  <2> HIDE DEF x, P, R, C, c, d
  <2> QED BY <2>1, <2>2, GivenLastIs
<1>10. /\ D \in Node /\ D.leaf = R.leaf /\ D.n = R.n - 1
       /\ R.leaf => D.children = R.children
       /\ ~R.leaf => D.children = ChildRemoved(R, 0)
  <2>1. R \in Node /\ R.n > 0 /\ D = WithoutFirst(R)
    BY <1>5, <1>6
  <2> HIDE DEF R, D
  <2> QED BY <2>1, WithoutFirstIs
<1>11. P.leaf => \A j \in ChildSlots : C.children[j] = NULL /\ D.children[j] = NULL
  <2>1. P.leaf => \A j \in ChildSlots : P.children[j] = NULL /\ R.children[j] = NULL
    BY <1>2, <1>4, <1>5, <1>7 DEF Sound, Filled
  <2>2. R.leaf <=> P.leaf
    BY <1>7
  <2> HIDE DEF P, R, C, D
  <2> QED BY <1>9, <1>10, <2>1, <2>2
<1>12. heap \in [Addresses -> Node] /\ cur \in Addresses /\ used \subseteq Addresses
  BY <1>2 DEF Sound, Filled
<1> DEFINE X == [x EXCEPT !.keys[i] = heap[d].keys[0]]
<1>13. X \in Node /\ X.leaf = x.leaf /\ X.n = x.n /\ X.children = x.children
  <2>1. x.keys \in [Slots -> Keys \cup {0}]
    BY <1>2, NodeIs
  <2>2. [x.keys EXCEPT ![i] = heap[d].keys[0]] \in [Slots -> Keys \cup {0}]
    BY <1>8, <2>1
  <2> QED BY <1>2, <2>2 DEF Node
<1>14. heap' = [heap EXCEPT ![cur] = X, ![d] = D, ![c] = C]
  <2> HIDE DEF C, D, c, d
  <2> QED BY <1>1, <1>12
<1> HIDE DEF X, D, C
<1>15. /\ heap' \in [Addresses -> Node] /\ heap'[cur] = X /\ heap'[d] = D /\ heap'[c] = C
       /\ \A a \in Addresses : a \notin {cur, c, d} => heap'[a] = heap[a]
  <2> HIDE DEF c, d
  <2> QED BY <1>4, <1>5, <1>7, <1>9, <1>10, <1>12, <1>13, <1>14
<1>16. Lends(heap, used, root, cur, i, i + 1, c, d, heap')
  BY <1>2, <1>3, <1>4, <1>5, <1>6, <1>9, <1>10, <1>11, <1>13, <1>15 DEF Lends
<1>17. ~heap[c].leaf => /\ heap'[c].children = [heap[c].children EXCEPT ![Order] = heap[d].children[0]]
                        /\ heap'[d].children = ChildRemoved(heap[d], 0)
  BY <1>6, <1>7, <1>9, <1>10, <1>15
<1> HIDE DEF c, d
<1>18. Sound(heap', used, root) /\ heap'[c].n = Order
  BY <1>16, <1>17, BorrowRightSound
<1>19. heap'[c].n >= Order
  BY <1>18, OrderFacts, SMT
<1> QED BY <1>1, <1>4, <1>18, <1>19, CallsStep

LEMMA MergesKeeps ==
  ASSUME IInv, NEW k, At(k), NEW i \in Nat, i < heap[cur].n, Merges(i),
         ~HasSpare(heap[Kid(i)]), ~HasSpare(heap[Kid(i + 1)])
  PROVE  IInv'
<1> DEFINE l == Kid(i)
           r == Kid(i + 1)
<1>1. /\ heap' = Freed([heap EXCEPT ![cur] = WithoutKey(heap[cur], i),
                                    ![l]   = Joined(heap[cur], i, heap[l], heap[r])], r)
      /\ used' = used \ {r} /\ root' = root
      /\ Calls("BTreeDeleteNoNone", l, key)
  BY DEF Merges
<1>2. /\ Sound(heap, used, root) /\ heap[cur].n \in Nat /\ heap[cur].n <= MaxKeys
      /\ (cur = root \/ heap[cur].n >= Order)
  BY DeleteAt
<1>3. i \in ChildSlots /\ i <= heap[cur].n /\ i + 1 \in ChildSlots /\ i + 1 <= heap[cur].n
  BY <1>2, OrderFacts, SMT
<1>4. IsKid(heap, used, l, cur, i) /\ heap[l].n \in Nat /\ heap[l].n >= Order - 1
  BY <1>3, KidAt
<1>5. IsKid(heap, used, r, cur, i + 1) /\ heap[r].n \in Nat /\ heap[r].n >= Order - 1
  BY <1>3, KidAt
<1>6. heap[l].n = Order - 1 /\ heap[r].n = Order - 1
  BY <1>4, <1>5, OrderFacts, SMT DEF HasSpare
<1> HIDE DEF l, r
<1>7. IsMerge(heap, used, root, cur, i, l, r, heap', used')
  BY <1>1, <1>2, <1>4, <1>5, <1>6 DEF IsMerge
<1>8. Sound(heap', used', root) /\ l \in used' /\ l # root /\ heap'[l].n = MaxKeys
  BY <1>7, MergeSound
<1>9. heap'[l].n >= Order
  BY <1>8, OrderFacts, SMT
<1> QED BY <1>1, <1>8, <1>9, CallsStep

LEMMA MergeKeeps ==
  ASSUME IInv, NEW i \in ChildSlots, MergeHere(i) \/ MergeLeft(i) \/ MergeRight(i)
  PROVE  IInv'
<1>1. At(i) /\ i \in Nat /\ i <= heap[cur].n /\ heap[cur].n \in Nat
  <2>1. At(i)
    BY DEF MergeHere, MergeLeft, MergeRight, Alone, Here, Below
  <2> QED BY <2>1, DeleteAt
<1>2. CASE MergeHere(i)
  BY <1>1, <1>2, MergesKeeps DEF MergeHere, Here
<1>3. ASSUME IsMinimal(heap[Kid(i)]) PROVE ~HasSpare(heap[Kid(i)])
  BY <1>3, OrderFacts, SMT DEF IsMinimal, HasSpare
<1>4. CASE MergeRight(i)
  <2>1. i < heap[cur].n /\ Merges(i) /\ ~HasSpare(heap[Kid(i)]) /\ ~HasSpare(heap[Kid(i + 1)])
    BY <1>3, <1>4 DEF MergeRight, Alone, RightLends
  <2> QED BY <1>1, <2>1, MergesKeeps
<1>5. CASE MergeLeft(i)
  <2>1. /\ i > 0 /\ Merges(i - 1) /\ ~HasSpare(heap[Kid(i)]) /\ ~HasSpare(heap[Kid(i - 1)])
    BY <1>3, <1>5 DEF MergeLeft, Alone, LeftLends
  <2>2. i - 1 \in Nat /\ i - 1 < heap[cur].n /\ (i - 1) + 1 = i
    BY <1>1, <2>1, SMT
  <2> DEFINE j == i - 1
  <2>3. j \in Nat /\ j < heap[cur].n /\ Merges(j) /\ ~HasSpare(heap[Kid(j)]) /\ ~HasSpare(heap[Kid(j + 1)])
    BY <2>1, <2>2
  <2> HIDE DEF j
  <2> QED BY <1>1, <2>3, MergesKeeps
<1> QED BY <1>2, <1>4, <1>5

LEMMA StepKeeps ==
  ASSUME IInv, [Next]_vars
  PROVE  IInv'
<1>1. CASE UNCHANGED vars
  <2>1. /\ heap' = heap /\ used' = used /\ root' = root /\ lock' = lock
        /\ cur' = cur /\ key' = key /\ walk' = walk /\ typed' = typed
        /\ call' = call /\ pc' = pc /\ found' = found
    BY <1>1 DEF vars, tree, args, input
  <2>2. TypeOK /\ Sound(heap, used, root) /\ CallsPrepared
    BY DEF IInv
  <2>3. TypeOK'
    BY <2>1, <2>2 DEF TypeOK
  <2>4. CanGive' = CanGive /\ Seeking(Slot)' = Seeking(Slot) /\ Seeking(Slot + 1)' = Seeking(Slot + 1)
    BY <2>1 DEF CanGive, Seeking, Slot
  <2>5. CallsPrepared'
    BY <2>1, <2>2, <2>4 DEF CallsPrepared
  <2> QED BY <2>1, <2>2, <2>3, <2>5 DEF IInv
<1>2. CASE \/ \E k \in Keys : Add(k) \/ Del(k) \/ Find(k)
           \/ \E to \in BOOLEAN : SetLock(to)
           \/ Exit
  BY <1>2, AskedStep
<1>3. CASE \/ Refused \/ \E hit \in BOOLEAN : SearchEnds(hit)
           \/ SearchDescend \/ InsertRoot \/ InsertDescend \/ OutOfMemory
  BY <1>3, SearchAndInsertKeep
<1>4. CASE InsertLeaf \/ (\E new \in Addresses : InsertSplit(new))
           \/ \E top, new \in Addresses : InsertGrow(top, new)
  BY <1>4, InsertLeafKeeps, InsertSplitKeeps, InsertGrowKeeps
<1>5. CASE \/ DeleteRoot \/ DeleteUndefined \/ LeftMaxDescend \/ RightMinDescend
           \/ \E i \in ChildSlots :
                SeekLeftMax(i) \/ SeekRightMin(i) \/ DeleteDescend(i) \/ MergeNull(i)
  BY <1>5, DeleteKeeps
<1>6. CASE LeftMaxEnds \/ RightMinEnds \/ \E hit \in BOOLEAN : DeleteLeaf(hit)
  BY <1>6, WalkEndsKeeps, DeleteLeafKeeps
<1>7. CASE \E i \in ChildSlots : BorrowFromLeft(i) \/ BorrowFromRight(i)
  BY <1>7, BorrowFromLeftKeeps, BorrowFromRightKeeps
<1>8. CASE \E i \in ChildSlots : MergeHere(i) \/ MergeLeft(i) \/ MergeRight(i)
  BY <1>8, MergeKeeps
<1> QED BY <1>1, <1>2, <1>3, <1>4, <1>5, <1>6, <1>7, <1>8 DEF Next

LEMMA AlwaysSound == Spec => []IInv
<1>1. Init => IInv
  BY InitSound
<1>2. IInv /\ [Next]_vars => IInv'
  BY StepKeeps
<1> QED BY <1>1, <1>2, PTL DEF Spec

-----------------------------------------------------------------------------
(* What follows from it. *)

LEMMA OneParent ==
  ASSUME Sound(heap, used, root)
  PROVE  EveryNodeHasOneParent
<1>1. \A a, b, i : IsKid(heap, used, a, b, i) <=> b \in used /\ i \in ChildSlots /\ IsChild(a, b, i)
  BY DEF IsKid, IsChild
<1>2. /\ root \in used
      /\ \A a, b, i : IsKid(heap, used, a, b, i) => a \in used /\ a # root
      /\ \A a, b, c, i, j :
           IsKid(heap, used, a, b, i) /\ IsKid(heap, used, a, c, j) => b = c /\ i = j
      /\ \A a \in used : a # root => \E b, i : IsKid(heap, used, a, b, i)
  BY DEF Sound, Linked
<1>3. \A b \in used, i \in ChildSlots :
        ~heap[b].leaf /\ i <= heap[b].n => heap[b].children[i] \in used
  BY <1>2 DEF IsKid
<1>4. ASSUME NEW a \in used, a # root
      PROVE  \E b \in used, i \in ChildSlots :
               /\ IsChild(a, b, i)
               /\ \A b2 \in used, i2 \in ChildSlots : IsChild(a, b2, i2) => b2 = b /\ i2 = i
  <2>1. PICK b, i : IsKid(heap, used, a, b, i)
    BY <1>2, <1>4
  <2>2. \A b2, i2 : IsKid(heap, used, a, b2, i2) => b2 = b /\ i2 = i
    BY <1>2, <2>1
  <2> QED BY <1>1, <2>1, <2>2
<1> QED BY <1>1, <1>2, <1>3, <1>4 DEF EveryNodeHasOneParent

(* The nodes at depth d are at the level of the root less d.               *)
LEMMA LevelIs ==
  ASSUME NEW f, IsLevel(f, heap, used, root), Linked(heap, used, root), NEW d \in Nat
  PROVE  \A a \in Level[d] : a \in used /\ f[a] + d = f[root]
<1> DEFINE Depth(e) == {a \in used : f[a] + e = f[root]}
           Rows == [e \in Nat |-> Depth(e)]
           RowOf(F, e) == IF e = 0 THEN {root} ELSE UNION {ChildrenOf(b) : b \in F[e - 1]}
<1>1. /\ root \in used
      /\ \A a \in used : f[a] \in Nat /\ (a # root => f[a] < f[root])
      /\ \A b \in used : \A a : a \in ChildrenOf(b) => a \in used /\ f[b] = f[a] + 1
      /\ \A a \in used : a # root => \E b \in used : a \in ChildrenOf(b)
  BY DEF IsLevel, Linked, IsKid, ChildrenOf
<1>2. Depth(0) = {root}
  <2>1. \A a \in used : f[a] + 0 = f[root] <=> a = root
    BY <1>1, SMT
  <2> QED BY <1>1, <2>1
<1>3. ASSUME NEW e \in Nat, e # 0
      PROVE  Depth(e) = UNION {ChildrenOf(b) : b \in Depth(e - 1)}
  <2>1. ASSUME NEW a \in Depth(e) PROVE \E b \in Depth(e - 1) : a \in ChildrenOf(b)
    <3>1. a # root
      BY <1>1, <1>3, <2>1, SMT
    <3>2. PICK b \in used : a \in ChildrenOf(b)
      BY <1>1, <3>1
    <3>3. f[b] + (e - 1) = f[root]
      BY <1>1, <1>3, <2>1, <3>2, SMT
    <3> QED BY <3>2, <3>3
  <2>2. ASSUME NEW b \in Depth(e - 1), NEW a \in ChildrenOf(b) PROVE a \in Depth(e)
    <3>1. a \in used /\ f[b] = f[a] + 1
      BY <1>1
    <3>2. f[a] + e = f[root]
      BY <1>1, <1>3, <3>1, SMT
    <3> QED BY <3>1, <3>2
  <2> HIDE DEF Depth
  <2> QED BY <2>1, <2>2
<1> HIDE DEF Depth
<1>4. Rows = [e \in Nat |-> RowOf(Rows, e)]
  <2>1. \A e \in Nat : e # 0 => e - 1 \in Nat
    BY SMT
  <2> QED BY <1>2, <1>3, <2>1
<1>5. Level = [e \in Nat |-> RowOf(Level, e)]
  <2> HIDE DEF Rows
  <2> QED BY <1>4 DEF Level
<1> DEFINE Bad == {e \in Nat : ~(Level[e] \subseteq Depth(e))}
<1>6. Bad = {}
  <2>1. SUFFICES ASSUME NEW e0 \in Bad PROVE FALSE
    OBVIOUS
  <2>2. PICK m \in Bad : \A t \in Bad : m <= t
    <3>1. Bad \in SUBSET Nat
      OBVIOUS
    <3> HIDE DEF Bad
    <3> QED BY <2>1, <3>1, LeastIs
  <2>3. CASE m = 0
    BY <1>2, <1>5, <2>2, <2>3
  <2>4. CASE m # 0
    <3>1. m - 1 \in Nat /\ ~(m <= m - 1)
      BY <2>4, SMT
    <3>2. Level[m - 1] \subseteq Depth(m - 1)
      BY <2>2, <3>1
    <3>3. Level[m] = UNION {ChildrenOf(b) : b \in Level[m - 1]}
      BY <1>5, <2>4
    <3>4. Level[m] \subseteq Depth(m)
      BY <1>3, <2>4, <3>2, <3>3
    <3> QED BY <2>2, <3>4
  <2> QED BY <2>3, <2>4
<1>7. Level[d] \subseteq Depth(d)
  BY <1>6
<1> QED BY <1>7 DEF Depth

LEMMA OneLevel ==
  ASSUME Sound(heap, used, root)
  PROVE  LeavesAtOneLevel
<1>1. PICK f : IsLevel(f, heap, used, root)
  BY DEF Sound, Levelled
<1>2. /\ f[root] \in Nat
      /\ \A a \in used : f[a] \in Nat /\ (heap[a].leaf <=> f[a] = 0)
  BY <1>1 DEF IsLevel, Sound, Linked
<1>3. ASSUME NEW d \in Nat, NEW a \in Level[d], NEW b \in Level[d]
      PROVE  heap[a].leaf => heap[b].leaf
  <2>1. a \in used /\ b \in used /\ f[a] + d = f[root] /\ f[b] + d = f[root]
    BY <1>1, <1>3, LevelIs DEF Sound
  <2>2. f[a] = f[b]
    BY <1>2, <2>1, SMT
  <2> QED BY <1>2, <2>1, <2>2
<1>4. \A d \in 0 .. Cardinality(used) : d \in Nat
  BY SMT
<1> QED BY <1>3, <1>4 DEF LeavesAtOneLevel

(* Undefined behaviour is met at a root that has too few keys only.        *)
LEMMA UndefinedStep ==
  ASSUME IInv, Next, pc' = "undefined"
  PROVE  heap[root].n = IF heap[root].leaf THEN 1 ELSE 0
<1>1. Sound(heap, used, root) /\ root \in used /\ heap \in [Addresses -> Node]
  BY RootIs DEF IInv, TypeOK
<1>2. heap[root].leaf \in BOOLEAN
  BY <1>1, NodesAre, NodeIs
<1>3. DeleteUndefined \/ \E i \in ChildSlots : MergeNull(i)
  BY DEF Next, Add, Del, Find, Starts, SetLock, Exit, Asked, Refused, Returns, Calls, Seeks,
         SearchEnds, SearchDescend, InsertRoot, InsertGrow, InsertLeaf, InsertDescend, InsertSplit,
         OutOfMemory, DeleteRoot, DeleteLeaf, SeekLeftMax, SeekRightMin, LeftMaxDescend, LeftMaxEnds,
         RightMinDescend, RightMinEnds, Replaces, Merges, MergeHere, DeleteDescend, BorrowFromLeft,
         BorrowFromRight, MergeLeft, MergeRight
<1>4. CASE DeleteUndefined
  <2>1. heap[root].n = 1 /\ heap[root].children[0] = NULL
    BY <1>4 DEF DeleteUndefined, LooksAtNull
  <2>2. SUFFICES ASSUME ~heap[root].leaf PROVE FALSE
    BY <1>2, <2>1
  <2>3. 0 \in ChildSlots /\ 0 <= heap[root].n
    BY <2>1, OrderFacts, SMT
  <2>4. heap[root].children[0] \in Addresses
    BY <1>1, <2>2, <2>3, KidOf
  <2> QED BY <2>1, <2>4, NullIs
<1>5. ASSUME NEW i \in ChildSlots, MergeNull(i) PROVE heap[root].n = 0 /\ ~heap[root].leaf
  <2>1. At(i) /\ i = 0 /\ i >= heap[cur].n
    BY <1>5 DEF MergeNull, Alone, Below
  <2>2. heap[cur].n \in Nat /\ ~heap[cur].leaf /\ (cur = root \/ heap[cur].n >= Order)
    BY <2>1, DeleteAt
  <2>3. heap[cur].n = 0 /\ cur = root
    BY <2>1, <2>2, OrderFacts, SMT
  <2> QED BY <2>2, <2>3
<1> QED BY <1>2, <1>3, <1>4, <1>5

(* No array of a node is written behind its end, and every node, link and  *)
(* count is one of its type, whatever is added and deleted.                *)
THEOREM MemTypeCorrect == Spec => []TypeOK
<1>1. IInv => TypeOK
  BY DEF IInv
<1> QED BY <1>1, AlwaysSound, PTL

(* Split, merge and borrow leave every allocated node but the root in one  *)
(* child slot, and no slot at a node that merge_children has freed.        *)
THEOREM MemOneParent == Spec => []EveryNodeHasOneParent
<1>1. IInv => EveryNodeHasOneParent
  BY OneParent DEF IInv
<1> QED BY <1>1, AlwaysSound, PTL

(* Every leaf is at the same depth, at any depth: a subtree that moves to  *)
(* a neighbour or into a merged node stays at its level.                   *)
THEOREM MemLeavesAtOneLevel == Spec => []LeavesAtOneLevel
<1>1. IInv => LeavesAtOneLevel
  BY OneLevel DEF IInv
<1> QED BY <1>1, AlwaysSound, PTL

(* Deletion leaves no node but the root with fewer than Order - 1 keys.    *)
THEOREM MemHalfFull == Spec => []HalfFull
<1>1. IInv => HalfFull
  BY DEF IInv, Sound, Filled, HalfFull
<1> QED BY <1>1, AlwaysSound, PTL

(* Every function is called with a node it can work on without backtrack.  *)
THEOREM MemCallsPrepared == Spec => []CallsPrepared
<1>1. IInv => CallsPrepared
  BY DEF IInv
<1> QED BY <1>1, AlwaysSound, PTL

(* No node below the root makes the program dereference NULL: merging with *)
(* a neighbour that is not there happens under a root without keys only.   *)
THEOREM MemUndefinedAtSmallRootOnly == Spec => UndefinedAtSmallRootOnly
<1>1. IInv /\ [Next]_vars =>
        [pc' = "undefined" => heap[root].n = IF heap[root].leaf THEN 1 ELSE 0]_vars
  BY UndefinedStep
<1> QED BY <1>1, AlwaysSound, PTL DEF Spec, UndefinedAtSmallRootOnly
=============================================================================
