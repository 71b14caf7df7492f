-------------------------- MODULE BlockFileProofs ---------------------------
(***************************************************************************)
(* As long as an int can count the bytes of the file, the trees and blocks *)
(* are aligned and disjoint, and the file implements an array of cells for *)
(* each of them, for every block size and every size of the trees.         *)
(***************************************************************************)
EXTENDS BlockFile, SequenceTheorems, TLAPS

USE BlockSizeAssumption

(* The layout of a file an int suffices for: beside the two properties it  *)
(* says that the bytes behind the end of the file are zeros, which is what *)
(* the nodes of a new tree are read as, and that every part ends within    *)
(* the bound.                                                              *)
LayoutInv ==
  /\ length \in 0 .. IntMax
  /\ parts \in Seq(Part)
  /\ \A k \in DOMAIN parts : End(parts[k]) <= MaxLength
  /\ PartsAligned
  /\ PartsDisjoint
  /\ file \in [Starts -> Contents]
  /\ \A a \in Starts : a >= length => file[a] = Zero

(* The inductive invariant.                                                *)
FileInv == TypeOK /\ (IntsSuffice => LayoutInv)

-----------------------------------------------------------------------------
(* Arithmetic on multiples of the block size. *)

(* A number is its quotient times the block size plus its remainder.       *)
LEMMA DivMod ==
  ASSUME NEW x \in Int
  PROVE  /\ x \div BlockSize \in Int /\ x % BlockSize \in 0 .. BlockSize - 1
         /\ x = (x \div BlockSize) * BlockSize + (x % BlockSize)
BY SMT

(* A multiple of the block size leaves no remainder.                       *)
LEMMA ModMul == ASSUME NEW b \in Int PROVE (b * BlockSize) % BlockSize = 0
BY SMT

(* Different multiples of the block size are a block apart.                *)
LEMMA MulMono ==
  ASSUME NEW a \in Int, NEW b \in Int, a < b
  PROVE  a * BlockSize + BlockSize <= b * BlockSize
BY SMT

(* A positive multiple is at least a block.                                *)
LEMMA MulAtLeast ==
  ASSUME NEW b \in Int, 0 < b PROVE BlockSize <= b * BlockSize
BY SMT

(* Multiples add up to multiples.                                          *)
LEMMA MulAdd ==
  ASSUME NEW a \in Int, NEW b \in Int
  PROVE  a * BlockSize + b * BlockSize = (a + b) * BlockSize
BY SMT

(* A multiple is an integer.                                               *)
LEMMA MulInt == ASSUME NEW a \in Int PROVE a * BlockSize \in Int
BY SMT

(* An int holds every number up to IntMax.                                 *)
LEMMA ToIntIs == ASSUME NEW x \in 0 .. IntMax PROVE ToInt(x) = x
BY IntMaxAssumption, SMT DEF ToInt

(* Rounding up to a block, where the result fits an int, and where it      *)
(* wraps around.                                                           *)
LEMMA NextBlockIs ==
  ASSUME NEW x \in 0 .. IntMax
  PROVE  \/ /\ NextBlock(x) \in Nat /\ NextBlock(x) >= x
            /\ NextBlock(x) % BlockSize = 0
         \/ /\ NextBlock(x) \in Int /\ NextBlock(x) < 0
            /\ x + BlockSize > IntMax
<1> DEFINE q == x \div BlockSize
           up == q * BlockSize + BlockSize
<1>1. /\ q \in Int /\ x % BlockSize \in 0 .. BlockSize - 1
      /\ x = q * BlockSize + (x % BlockSize)
  BY DivMod
<1>2. IntMax \in Nat /\ BlockSize <= IntMax /\ x \in Nat /\ x <= IntMax
  BY IntMaxAssumption, SMT
<1>3. CASE x % BlockSize = 0
  BY <1>2, <1>3 DEF NextBlock
<1>4. CASE x % BlockSize # 0
  <2>1. NextBlock(x) = ToInt(up)
    BY <1>2, <1>4 DEF NextBlock, Quotient
  <2>2. q * BlockSize \in Int
    BY <1>1, MulInt
  <2>3. up = (q + 1) * BlockSize
    BY <1>1, SMT
  <2>4. up % BlockSize = 0
    BY <1>1, <2>3, ModMul
  <2> DEFINE m == q * BlockSize
  <2>5. up \in Nat /\ up >= x /\ up <= x + BlockSize
    <3>1. m \in Int /\ x = m + (x % BlockSize) /\ up = m + BlockSize
      BY <1>1, <2>2
    <3> HIDE DEF m, up, q
    <3> QED BY <1>1, <1>2, <3>1, SMT
  <2> HIDE DEF up, q
  <2>6. CASE up <= IntMax
    <3>1. ToInt(up) = up
      BY <2>5, <2>6, <1>2, ToIntIs, SMT
    <3> QED BY <2>1, <2>4, <2>5, <3>1
  <2>7. CASE up > IntMax
    <3>1. ToInt(up) = up - (2 * IntMax + 2)
      BY <1>2, <2>5, <2>7, SMT DEF ToInt
    <3> QED BY <1>2, <2>1, <2>5, <2>7, <3>1, SMT
  <2> QED BY <1>2, <2>5, <2>6, <2>7, SMT
<1> QED BY <1>3, <1>4

(* The starts of blocks are the multiples of the block size.               *)
LEMMA StartsAre ==
  ASSUME NEW a \in Nat, a % BlockSize = 0, a <= MaxLength
  PROVE  a \in Starts
<1>1. /\ a \div BlockSize \in Int /\ a = (a \div BlockSize) * BlockSize
  BY DivMod, SMT
<1>2. /\ MaxLength \div BlockSize \in Int /\ MaxLength % BlockSize \in 0 .. BlockSize - 1
      /\ MaxLength = (MaxLength \div BlockSize) * BlockSize + (MaxLength % BlockSize)
  BY MaxLengthAssumption, DivMod, SMT
<1>3. 0 <= a \div BlockSize
  <2> SUFFICES ASSUME a \div BlockSize < 0 PROVE FALSE
    BY <1>1, SMT
  <2>1. (a \div BlockSize) * BlockSize + BlockSize <= 0 * BlockSize
    BY <1>1, MulMono
  <2> QED BY <1>1, <2>1, SMT
<1>4. a \div BlockSize <= MaxLength \div BlockSize
  <2> SUFFICES ASSUME MaxLength \div BlockSize < a \div BlockSize PROVE FALSE
    BY <1>1, <1>2, SMT
  <2>1. (MaxLength \div BlockSize) * BlockSize + BlockSize <= (a \div BlockSize) * BlockSize
    BY <1>1, <1>2, MulMono
  <2>2. (MaxLength \div BlockSize) * BlockSize \in Int
    BY <1>2, MulInt
  <2> QED BY <1>1, <1>2, <2>1, <2>2, MaxLengthAssumption, SMT
<1> QED BY <1>1, <1>2, <1>3, <1>4, SMT DEF Starts

(* A node with its header data fits a block.                               *)
THEOREM NodeFitsBlock == NodeFits
<1> DEFINE m == (BlockSize - 24) \div 24
<1>1. m \in Int /\ m >= 3 /\ 24 * m <= BlockSize - 24
  BY SMT
<1>2. /\ ElementsPerNode \in Int /\ ElementsPerNode <= m /\ ElementsPerNode >= 3
      /\ ElementsPerNode % 2 = 1
  BY <1>1, SMT DEF ElementsPerNode
<1>3. T \in Int /\ T >= 2 /\ 2 * T - 1 = ElementsPerNode
  BY <1>2, SMT DEF T
<1> QED
  BY <1>1, <1>2, <1>3, SMT DEF NodeFits, NodeBytes, HeaderBytes

-----------------------------------------------------------------------------
(* Where a cell is. *)

(* The layout is that of a file an int suffices for.                       *)
LEMMA IntsSufficeIs == LayoutInv => IntsSuffice
BY IntMaxAssumption, SMT DEF LayoutInv, IntsSuffice

(* What the layout says of one part.                                       *)
LEMMA PartIs ==
  ASSUME LayoutInv, NEW k \in DOMAIN parts
  PROVE  /\ k \in 1 .. Len(parts) /\ parts[k] \in Part
         /\ parts[k].offset \in Nat /\ parts[k].nodes \in Nat
         /\ parts[k].offset % BlockSize = 0
         /\ End(parts[k]) <= length /\ End(parts[k]) <= MaxLength
         /\ End(parts[k]) <= IntMax
<1>1. parts \in Seq(Part) /\ IntsSuffice /\ length \in Nat
  BY SMT DEF LayoutInv, IntsSuffice
<1>2. k \in 1 .. Len(parts) /\ parts[k] \in Part
  BY <1>1, SMT
<1>3. parts[k].offset \in Nat /\ parts[k].nodes \in Nat
  BY <1>2, SMT DEF Part
<1>4. (parts[k].nodes + 1) * BlockSize \in Int
  BY <1>3, MulInt, SMT
<1>5. End(parts[k]) \in Int
  BY <1>3, <1>4, SMT DEF End
<1>6. /\ parts[k].offset % BlockSize = 0
      /\ End(parts[k]) <= length /\ End(parts[k]) <= MaxLength
  BY <1>1 DEF LayoutInv, PartsAligned, PartsDisjoint
<1>7. End(parts[k]) <= IntMax
  BY <1>1, <1>5, <1>6, IntMaxAssumption, SMT DEF IntsSuffice
<1> QED BY <1>2, <1>3, <1>6, <1>7

(* A cell's address is where the cell lies in its part, and a start.       *)
LEMMA AddressIs ==
  ASSUME NEW part \in Part, part.offset % BlockSize = 0, End(part) <= MaxLength,
         End(part) <= IntMax, NEW p \in Positions(part)
  PROVE  /\ Address(part, p) = part.offset + (p + 1) * BlockSize
         /\ Address(part, p) >= part.offset
         /\ Address(part, p) + BlockSize <= End(part)
         /\ Address(part, p) \in Starts /\ Address(part, p) \in Nat
<1>1. part.offset \in Nat /\ part.nodes \in Nat /\ p \in Int /\ 0 <= p + 1 /\ p + 1 < part.nodes + 1
  BY SMT DEF Part, Positions
<1> DEFINE a == (p + 1) * BlockSize
<1>2. a \in Int /\ (part.nodes + 1) * BlockSize \in Int
  BY <1>1, MulInt
<1>3. a + BlockSize <= (part.nodes + 1) * BlockSize
  BY <1>1, MulMono
<1>4. 0 <= a
  BY <1>1, SMT
<1>5. a \in 0 .. IntMax
  BY <1>1, <1>2, <1>3, <1>4, IntMaxAssumption, SMT DEF End
<1>6. Address(part, p) = part.offset + a
  BY <1>5, ToIntIs DEF Address
<1> DEFINE b == part.offset \div BlockSize
<1>7. b \in Int /\ part.offset = b * BlockSize
  <2>1. b \in Int /\ part.offset = b * BlockSize + (part.offset % BlockSize)
    <3>1. part.offset \in Int
      BY <1>1, SMT
    <3> QED BY <3>1, DivMod
  <2>2. b * BlockSize \in Int
    BY <2>1, MulInt
  <2> QED BY <2>1, <2>2, SMT
<1>8. part.offset + a = (b + (p + 1)) * BlockSize
  <2>1. p + 1 \in Int
    BY <1>1, SMT
  <2>2. b * BlockSize + (p + 1) * BlockSize = (b + (p + 1)) * BlockSize
    BY <1>7, <2>1, MulAdd
  <2> QED BY <1>7, <2>2
<1>9. (part.offset + a) % BlockSize = 0
  <2>1. b + (p + 1) \in Int
    BY <1>1, <1>7, SMT
  <2> QED BY <1>8, <2>1, ModMul
<1>10. part.offset + a \in Nat /\ part.offset + a <= MaxLength
  BY <1>1, <1>2, <1>3, <1>4, MaxLengthAssumption, SMT DEF End
<1>11. part.offset + a \in Starts
  BY <1>9, <1>10, StartsAre
<1>12. part.offset + a >= part.offset
  BY <1>1, <1>2, <1>4, SMT
<1>13. part.offset + a + BlockSize <= End(part)
  BY <1>1, <1>2, <1>3, SMT DEF End
<1> QED BY <1>6, <1>10, <1>11, <1>12, <1>13

(* Different cells have different addresses, and none lies at or behind    *)
(* the end of the file.                                                    *)
LEMMA CellsApart ==
  ASSUME LayoutInv,
         NEW k \in DOMAIN parts, NEW p \in Positions(parts[k]),
         NEW m \in DOMAIN parts, NEW q \in Positions(parts[m]),
         Address(parts[k], p) = Address(parts[m], q)
  PROVE  k = m /\ p = q
<1>1. /\ Address(parts[k], p) = parts[k].offset + (p + 1) * BlockSize
      /\ Address(parts[k], p) >= parts[k].offset
      /\ Address(parts[k], p) + BlockSize <= End(parts[k])
      /\ Address(parts[k], p) \in Nat
  BY PartIs, AddressIs
<1>2. /\ Address(parts[m], q) = parts[m].offset + (q + 1) * BlockSize
      /\ Address(parts[m], q) >= parts[m].offset
      /\ Address(parts[m], q) + BlockSize <= End(parts[m])
      /\ Address(parts[m], q) \in Nat
  BY PartIs, AddressIs
<1>3. /\ parts[k].offset \in Nat /\ parts[m].offset \in Nat
      /\ k \in Int /\ m \in Int /\ p \in Int /\ q \in Int
      /\ parts[k].nodes \in Nat /\ parts[m].nodes \in Nat
  BY PartIs, SMT DEF Positions
<1>4. End(parts[k]) \in Int /\ End(parts[m]) \in Int
  BY <1>3, SMT DEF End
<1>5. CASE k < m
  <2>1. End(parts[k]) <= parts[m].offset
    BY <1>5, IntsSufficeIs DEF LayoutInv, PartsDisjoint
  <2> QED BY <1>1, <1>2, <1>3, <1>4, <2>1, SMT
<1>6. CASE m < k
  <2>1. End(parts[m]) <= parts[k].offset
    BY <1>6, IntsSufficeIs DEF LayoutInv, PartsDisjoint
  <2> QED BY <1>1, <1>2, <1>3, <1>4, <2>1, SMT
<1>7. CASE k = m
  <2>1. (p + 1) * BlockSize \in Int /\ (q + 1) * BlockSize \in Int
    <3>1. p + 1 \in Int /\ q + 1 \in Int
      BY <1>3, SMT
    <3> QED BY <3>1, MulInt
  <2>2. (p + 1) * BlockSize = (q + 1) * BlockSize
    <3> DEFINE u == (p + 1) * BlockSize
               v == (q + 1) * BlockSize
    <3>1. parts[k].offset + u = parts[k].offset + v
      BY <1>1, <1>2, <1>7
    <3>2. u \in Int /\ v \in Int
      BY <2>1
    <3> HIDE DEF u, v
    <3>3. u = v
      BY <1>3, <3>1, <3>2, SMT
    <3> QED BY <3>3 DEF u, v
  <2>3. ~(p < q)
    <3> SUFFICES ASSUME p < q PROVE FALSE
      OBVIOUS
    <3>1. (p + 1) * BlockSize + BlockSize <= (q + 1) * BlockSize
      BY <1>3, MulMono, SMT
    <3> QED BY <2>1, <2>2, <3>1, SMT
  <2>4. ~(q < p)
    <3> SUFFICES ASSUME q < p PROVE FALSE
      OBVIOUS
    <3>1. (q + 1) * BlockSize + BlockSize <= (p + 1) * BlockSize
      BY <1>3, MulMono, SMT
    <3> QED BY <2>1, <2>2, <3>1, SMT
  <2> QED BY <1>3, <1>7, <2>3, <2>4, SMT
<1> QED BY <1>3, <1>5, <1>6, <1>7, SMT

-----------------------------------------------------------------------------
(* The steps. *)

(* A file without trees and blocks is laid out well.                       *)
LEMMA LayoutInit == Init => LayoutInv
<1> SUFFICES ASSUME Init PROVE LayoutInv
  OBVIOUS
<1>1. length \in 0 .. IntMax
  BY FirstLengthsAssumption DEF Init
<1>2. parts = <<>> /\ file = [a \in Starts |-> IF a < length THEN Foreign ELSE Zero]
  BY DEF Init
<1>3. file \in [Starts -> Contents]
  BY <1>2 DEF Contents
<1>4. Starts \subseteq Int
  BY SMT DEF Starts
<1>5. \A a \in Starts : a >= length => file[a] = Zero
  BY <1>1, <1>2, <1>4, SMT
<1>6. parts \in Seq(Part) /\ DOMAIN parts = {}
  BY <1>2, SMT
<1> QED
  BY <1>1, <1>3, <1>5, <1>6 DEF LayoutInv, PartsAligned, PartsDisjoint

(* A longer sequence is the shorter one with an element appended.          *)
LEMMA AppendIs ==
  ASSUME NEW N \in Nat, NEW s, s = [k \in 1 .. N |-> s[k]], NEW e,
         NEW r, r = [k \in 1 .. N + 1 |-> r[k]],
         \A k \in 1 .. N : r[k] = s[k], r[N + 1] = e
  PROVE  r = Append(s, e)
<1> DEFINE S == {s[k] : k \in 1 .. N} \cup {e}
<1>1. s \in [1 .. N -> S] /\ e \in S
  OBVIOUS
<1>2. \A k \in 1 .. N + 1 : r[k] \in S
  <2> TAKE k \in 1 .. N + 1
  <2>1. k \in 1 .. N \/ k = N + 1
    BY SMT
  <2> QED BY <2>1
<1>3. r \in [1 .. N + 1 -> S]
  BY <1>2
<1> HIDE DEF S
<1>4. s \in Seq(S) /\ Len(s) = N
  BY <1>1, SMT
<1>5. N + 1 \in Nat
  BY SMT
<1>6. r \in Seq(S) /\ Len(r) = N + 1
  BY <1>3, <1>5, SMT
<1>7. /\ Append(s, e) \in Seq(S) /\ Len(Append(s, e)) = N + 1
      /\ \A k \in 1 .. N : Append(s, e)[k] = s[k]
      /\ Append(s, e)[N + 1] = e
  BY <1>1, <1>4, SMT
<1>8. \A k \in 1 .. N + 1 : r[k] = Append(s, e)[k]
  <2> TAKE k \in 1 .. N + 1
  <2>1. k \in 1 .. N \/ k = N + 1
    BY SMT
  <2> QED BY <1>7, <2>1
<1> QED BY <1>6, <1>7, <1>8, SeqEqual

(* A part made behind the end of the file, by a step that writes inside it *)
(* only, keeps the layout and adds an array.                               *)
LEMMA NewPart ==
  ASSUME LayoutInv,
         NEW t \in Part, t.offset % BlockSize = 0, t.offset >= length, End(t) <= MaxLength,
         End(t) <= IntMax,
         parts' = Append(parts, t), length' = End(t),
         file' \in [Starts -> Contents],
         \A a \in Starts : a < t.offset \/ a >= End(t) => file'[a] = file[a]
  PROVE  /\ LayoutInv'
         /\ Arrays' = Append(Arrays, [p \in Positions(t) |-> file'[Address(t, p)]])
<1> DEFINE N == Len(parts)
<1>1. parts \in Seq(Part) /\ N \in Nat /\ DOMAIN parts = 1 .. N
  BY LenProperties DEF LayoutInv
<1>2. /\ parts' \in Seq(Part) /\ DOMAIN parts' = 1 .. N + 1
      /\ \A k \in 1 .. N : parts'[k] = parts[k]
      /\ parts'[N + 1] = t
  BY <1>1, SMT
<1>3. /\ t.offset \in Nat /\ t.nodes \in Nat /\ length \in Nat /\ End(t) \in Nat
      /\ t.offset < End(t)
  <2>1. t.offset \in Nat /\ t.nodes \in Nat /\ length \in Nat
    BY SMT DEF LayoutInv, Part
  <2>2. t.nodes + 1 \in Int /\ 0 < t.nodes + 1
    BY <2>1, SMT
  <2>3. (t.nodes + 1) * BlockSize \in Int /\ BlockSize <= (t.nodes + 1) * BlockSize
    <3>1. (t.nodes + 1) * BlockSize \in Int
      BY <2>2, MulInt
    <3>2. BlockSize <= (t.nodes + 1) * BlockSize
      BY <2>2, MulAtLeast
    <3> QED BY <3>1, <3>2
  <2> DEFINE v == (t.nodes + 1) * BlockSize
  <2>4. End(t) = t.offset + v /\ v \in Int /\ BlockSize <= v
    BY <2>3 DEF End
  <2> HIDE DEF v
  <2> QED BY <2>1, <2>4, SMT
<1>4. Starts \subseteq Int
  BY SMT DEF Starts
<1>5. \A k \in 1 .. N : /\ End(parts[k]) <= length /\ End(parts[k]) \in Int
                        /\ End(parts[k]) <= MaxLength
  <2> TAKE k \in 1 .. N
  <2>1. parts[k].offset \in Nat /\ parts[k].nodes \in Nat
    BY <1>1, PartIs
  <2>2. End(parts[k]) \in Int
    BY <2>1, MulInt, SMT DEF End
  <2> QED BY <1>1, <2>2, PartIs
<1>6. LayoutInv'
  <2>1. length' \in 0 .. IntMax
    BY <1>3, IntMaxAssumption, SMT
  <2>2. \A k \in 1 .. N + 1 : End(parts'[k]) <= MaxLength
    BY <1>1, <1>2, <1>5, SMT
  <2>3. \A k \in 1 .. N + 1 : parts'[k].offset % BlockSize = 0
    <3> TAKE k \in 1 .. N + 1
    <3>1. k \in 1 .. N \/ k = N + 1
      BY <1>1, SMT
    <3> QED BY <1>1, <1>2, <3>1, PartIs
  <2>4. ASSUME NEW k \in 1 .. N + 1
        PROVE  /\ End(parts'[k]) <= length'
               /\ \A m \in 1 .. N + 1 : k < m => End(parts'[k]) <= parts'[m].offset
    <3>1. CASE k = N + 1
      BY <1>1, <1>2, <1>3, <3>1, SMT
    <3>2. CASE k \in 1 .. N
      <4>1. End(parts'[k]) <= length' /\ End(parts'[k]) <= t.offset
        BY <1>2, <1>3, <1>5, <3>2, SMT
      <4>2. ASSUME NEW m \in 1 .. N + 1, k < m PROVE End(parts'[k]) <= parts'[m].offset
        <5>1. m \in 1 .. N \/ m = N + 1
          BY <1>1, SMT
        <5>2. CASE m = N + 1
          BY <1>2, <4>1, <5>2
        <5>3. CASE m \in 1 .. N
          BY <1>1, <1>2, <3>2, <4>2, <5>3, IntsSufficeIs DEF LayoutInv, PartsDisjoint
        <5> QED BY <5>1, <5>2, <5>3
      <4> QED BY <4>1, <4>2
    <3> QED BY <1>1, <3>1, <3>2, SMT
  <2>5. \A a \in Starts : a >= length' => file'[a] = Zero
    <3> TAKE a \in Starts
    <3> HAVE a >= length'
    <3>1. a >= length /\ a >= End(t)
      BY <1>3, <1>4, SMT
    <3> QED BY <3>1 DEF LayoutInv
  <2> QED BY <1>2, <2>1, <2>2, <2>3, <2>4, <2>5 DEF LayoutInv, PartsAligned, PartsDisjoint
<1>7. ASSUME NEW k \in 1 .. N, NEW p \in Positions(parts[k])
      PROVE  Read(Address(parts[k], p))' = Read(Address(parts[k], p))
  <2>1. /\ Address(parts[k], p) \in Starts /\ Address(parts[k], p) \in Nat
        /\ Address(parts[k], p) + BlockSize <= End(parts[k])
    BY <1>1, PartIs, AddressIs
  <2>2. Address(parts[k], p) < t.offset
    BY <1>3, <1>5, <2>1, SMT
  <2>3. file'[Address(parts[k], p)] = file[Address(parts[k], p)]
    BY <2>1, <2>2
  <2>4. Address(parts[k], p)' = Address(parts'[k], p)
    BY DEF Address
  <2> QED BY <1>2, <2>1, <2>3, <2>4 DEF Read
<1> DEFINE new == [p \in Positions(t) |-> file'[Address(t, p)]]
<1>8. Arrays = [k \in 1 .. N |-> Arrays[k]] /\ Arrays' = [k \in 1 .. N + 1 |-> Arrays'[k]]
  BY <1>1, <1>2 DEF Arrays
<1>9. \A k \in 1 .. N : Arrays'[k] = Arrays[k]
  <2> TAKE k \in 1 .. N
  <2>1. k \in DOMAIN parts /\ k \in DOMAIN parts' /\ parts'[k] = parts[k]
    BY <1>1, <1>2, SMT
  <2>2. Arrays[k] = [p \in Positions(parts[k]) |-> Read(Address(parts[k], p))]
    BY <2>1 DEF Arrays
  <2>3. Arrays'[k] = [p \in Positions(parts[k]) |-> Read(Address(parts[k], p))']
    BY <2>1 DEF Arrays, Read, Address, Positions
  <2> QED BY <1>7, <2>2, <2>3
<1>10. Arrays'[N + 1] = new
  <2>1. N + 1 \in DOMAIN parts' /\ parts'[N + 1] = t
    BY <1>1, <1>2, SMT
  <2>2. Arrays'[N + 1] = [p \in Positions(t) |-> IF Address(t, p) \in Starts
                                                 THEN file'[Address(t, p)] ELSE Foreign]
    BY <2>1 DEF Arrays, Read, Address, Positions
  <2>3. \A p \in Positions(t) : Address(t, p) \in Starts
    BY AddressIs
  <2> QED BY <2>2, <2>3
<1>11. Arrays' = Append(Arrays, new)
  BY <1>1, <1>8, <1>9, <1>10, AppendIs
<1> QED BY <1>6, <1>11

(* A write to a cell keeps the layout and changes that cell only.          *)
LEMMA CellWritten ==
  ASSUME LayoutInv, NEW k \in DOMAIN parts, NEW p \in Positions(parts[k]),
         NEW d \in Data, WriteCell(k, p, d)
  PROVE  LayoutInv' /\ Arrays' = [Arrays EXCEPT ![k][p] = d]
<1> DEFINE a == Address(parts[k], p)
<1>1. /\ parts' = parts /\ length' = length /\ file' = [file EXCEPT ![a] = d]
      /\ a \in Starts
  BY DEF WriteCell
<1>2. a \in Nat /\ a + BlockSize <= End(parts[k]) /\ End(parts[k]) <= length
      /\ length \in Nat /\ End(parts[k]) \in Int
  <2>1. /\ parts[k].offset \in Nat /\ parts[k].nodes \in Nat /\ End(parts[k]) <= length
        /\ a \in Nat /\ a + BlockSize <= End(parts[k])
    BY PartIs, AddressIs
  <2>2. length \in Nat
    BY SMT DEF LayoutInv
  <2>3. parts[k].nodes + 1 \in Int
    BY <2>1, SMT
  <2>4. (parts[k].nodes + 1) * BlockSize \in Int
    BY <2>3, MulInt
  <2>5. End(parts[k]) \in Int
    BY <2>1, <2>4, SMT DEF End
  <2> QED BY <2>1, <2>2, <2>5
<1>3. /\ file \in [Starts -> Contents] /\ file' \in [Starts -> Contents]
      /\ \A b \in Starts : file'[b] = IF b = a THEN d ELSE file[b]
  BY <1>1 DEF LayoutInv, Contents
<1>4. \A b \in Starts : b >= length => b # a
  BY <1>2, SMT
<1>5. LayoutInv'
  BY <1>1, <1>3, <1>4, IntsSufficeIs DEF LayoutInv, PartsAligned, PartsDisjoint
<1>6. ASSUME NEW m \in DOMAIN parts, NEW q \in Positions(parts[m])
      PROVE  Read(Address(parts[m], q))' =
               IF m = k /\ q = p THEN d ELSE Read(Address(parts[m], q))
  <2>1. Address(parts[m], q) \in Starts
    BY PartIs, AddressIs
  <2>2. Address(parts[m], q) = a <=> m = k /\ q = p
    BY CellsApart
  <2>3. Address(parts[m], q)' = Address(parts[m], q)
    BY <1>1 DEF Address
  <2> QED BY <1>3, <2>1, <2>2, <2>3 DEF Read
<1> HIDE DEF a
<1>7. Arrays' = [m \in DOMAIN parts |-> [q \in Positions(parts[m]) |->
                  IF m = k /\ q = p THEN d ELSE Read(Address(parts[m], q))]]
  <2>1. Arrays' = [m \in DOMAIN parts |-> [q \in Positions(parts[m]) |->
                     Read(Address(parts[m], q))']]
    BY <1>1 DEF Arrays, Read, Address, Positions
  <2> QED BY <1>6, <2>1
<1>8. Arrays' = [Arrays EXCEPT ![k][p] = d]
  BY <1>7 DEF Arrays
<1> QED BY <1>5, <1>8

(* A new tree is a part behind the end of the file, and a new array.       *)
LEMMA TreeCreated ==
  ASSUME LayoutInv, NEW n \in NodeCounts, CreateTree(n), length' <= IntMax
  PROVE  LayoutInv' /\ Arrays' = Append(Arrays, Cells!NewTree(n))
<1> DEFINE t == [offset |-> NextBlock(length), nodes |-> n]
           z == Address(t, -1)
           r == Address(t, 0)
<1>1. /\ length \in Nat /\ length \in 0 .. IntMax /\ ToInt(length) = length
      /\ n \in Nat /\ n >= 1
  BY ToIntIs, NodeCountsAssumption, IntMaxAssumption, SMT DEF LayoutInv
<1>2. NextBlock(length) \in Nat /\ NextBlock(length) >= length /\ NextBlock(length) % BlockSize = 0
  <2> SUFFICES ASSUME NextBlock(length) < 0, length + BlockSize > IntMax PROVE FALSE
    BY <1>1, NextBlockIs
  <2> DEFINE u == [offset |-> length, nodes |-> n]
  <2>1. length' = IF length < End(u) THEN End(u) ELSE length
    BY <1>1 DEF CreateTree
  <2>2. n + 1 \in Int /\ 0 < n + 1
    BY <1>1, SMT
  <2>3. (n + 1) * BlockSize \in Int /\ BlockSize <= (n + 1) * BlockSize
    BY <2>2, MulInt, MulAtLeast
  <2> DEFINE v == (n + 1) * BlockSize
  <2>4. End(u) = length + v /\ v \in Int /\ BlockSize <= v
    BY <2>3 DEF End
  <2> HIDE DEF u, v
  <2> QED BY <1>1, <2>1, <2>4, IntMaxAssumption, SMT
<1>3. ~(NextBlock(length) < 0)
  BY <1>2, SMT
<1>4. /\ End(t) <= MaxLength
      /\ parts' = Append(parts, t)
      /\ length' = IF length < End(t) THEN End(t) ELSE length
      /\ file' = [file EXCEPT ![z] = New, ![r] = New]
  BY <1>1, <1>3 DEF CreateTree
<1>5. t \in Part /\ t.offset = NextBlock(length) /\ t.nodes = n
  BY <1>1, <1>2 DEF Part
<1>14. End(t) \in Int /\ End(t) <= IntMax
  <2>1. (n + 1) * BlockSize \in Int
    BY <1>1, MulInt, SMT
  <2>2. End(t) \in Int
    BY <1>2, <1>5, <2>1, SMT DEF End
  <2> HIDE DEF t
  <2> QED BY <1>1, <1>4, <2>2, IntMaxAssumption, SMT
<1>6. -1 \in Positions(t) /\ 0 \in Positions(t)
  BY <1>1, <1>5, SMT DEF Positions
<1>7. /\ z \in Starts /\ r \in Starts /\ z \in Nat /\ r \in Nat
      /\ z >= t.offset /\ r >= t.offset
      /\ z + BlockSize <= End(t) /\ r + BlockSize <= End(t)
      /\ \A p \in Positions(t) :
           /\ Address(t, p) = t.offset + (p + 1) * BlockSize
           /\ Address(t, p) \in Starts /\ Address(t, p) >= t.offset
  BY <1>2, <1>4, <1>5, <1>6, <1>14, AddressIs
<1>8. End(t) \in Int /\ length < End(t) /\ t.offset \in Nat
  <2>1. n + 1 \in Int
    BY <1>1, SMT
  <2>2. (n + 1) * BlockSize \in Int
    BY <2>1, MulInt
  <2>3. End(t) \in Int
    BY <1>2, <1>5, <2>2, SMT DEF End
  <2> QED BY <1>1, <1>2, <1>5, <1>7, <2>3, SMT
<1> HIDE DEF t
<1>9. /\ file' \in [Starts -> Contents]
      /\ \A a \in Starts : file'[a] = IF a \in {z, r} THEN New ELSE file[a]
  <2> HIDE DEF z, r
  <2>1. file \in [Starts -> Contents] /\ New \in Contents
    BY DEF LayoutInv, Contents
  <2> QED BY <1>4, <1>7, <2>1
<1>10. \A a \in Starts : a < t.offset \/ a >= End(t) => file'[a] = file[a]
  <2> TAKE a \in Starts
  <2> HAVE a < t.offset \/ a >= End(t)
  <2>1. a \in Int
    BY SMT DEF Starts
  <2>2. a # z /\ a # r
    BY <1>7, <1>8, <2>1, SMT
  <2> QED BY <1>9, <2>2
<1>11. /\ LayoutInv'
       /\ Arrays' = Append(Arrays, [p \in Positions(t) |-> file'[Address(t, p)]])
  BY <1>2, <1>4, <1>5, <1>8, <1>9, <1>10, <1>14, NewPart
<1>12. ASSUME NEW p \in Positions(t)
       PROVE  file'[Address(t, p)] = IF p <= 0 THEN New ELSE Zero
  <2>1. p \in Int /\ p >= -1
    BY <1>5, <1>1, <1>12, SMT DEF Positions
  <2>2. CASE p <= 0
    <3>1. p = -1 \/ p = 0
      BY <2>1, <2>2, SMT
    <3> QED BY <1>7, <1>9, <2>2, <3>1
  <2>3. CASE ~(p <= 0)
    <3>1. (0 + 1) * BlockSize + BlockSize <= (p + 1) * BlockSize /\ (p + 1) * BlockSize \in Int
      <4>1. 0 + 1 \in Int /\ p + 1 \in Int /\ 0 + 1 < p + 1
        BY <2>1, <2>3, SMT
      <4> QED BY <4>1, MulMono, MulInt
    <3>2. z = t.offset + (-1 + 1) * BlockSize /\ r = t.offset + (0 + 1) * BlockSize
      BY <1>6, <1>7
    <3>3. Address(t, p) = t.offset + (p + 1) * BlockSize
      BY <1>7
    <3>4. Address(t, p) # z /\ Address(t, p) # r
      BY <1>8, <3>1, <3>2, <3>3, SMT
    <3>5. Address(t, p) >= length
      BY <1>1, <1>2, <1>5, <1>8, <3>1, <3>3, SMT
    <3> QED BY <1>7, <1>9, <2>3, <3>4, <3>5 DEF LayoutInv
  <2> QED BY <2>2, <2>3
<1>13. [p \in Positions(t) |-> file'[Address(t, p)]] = Cells!NewTree(n)
  <2>1. Positions(t) = -1 .. n - 1
    BY <1>5 DEF Positions
  <2> QED BY <1>12, <2>1 DEF Cells!NewTree
<1> QED BY <1>11, <1>13

(* An appended block is a part at the end of the file, and a new array.    *)
LEMMA BlockAppended ==
  ASSUME LayoutInv, NEW d \in Data, AppendBlock(d), length' <= IntMax
  PROVE  LayoutInv' /\ Arrays' = Append(Arrays, Cells!NewBlock(d))
<1> DEFINE t == [offset |-> BlockSize, nodes |-> 0]
<1>1. /\ length <= BlockSize /\ End(t) <= MaxLength /\ End(t) <= IntMax
      /\ parts' = Append(parts, t) /\ length' = End(t)
      /\ file' = [file EXCEPT ![BlockSize] = d]
  BY DEF AppendBlock
<1>2. /\ t \in Part /\ t.offset = BlockSize /\ t.nodes = 0
      /\ End(t) = BlockSize + BlockSize /\ BlockSize \in Nat
  BY SMT DEF Part, End
<1>3. BlockSize % BlockSize = 0
  BY SMT
<1>4. Positions(t) = {-1}
  BY <1>2, SMT DEF Positions
<1>5. Address(t, -1) = BlockSize /\ BlockSize \in Starts
  <2>1. -1 \in Positions(t) /\ t.offset % BlockSize = 0
    BY <1>2, <1>3, <1>4
  <2>2. /\ Address(t, -1) = t.offset + (-1 + 1) * BlockSize
        /\ Address(t, -1) \in Starts
    BY <1>1, <1>2, <2>1, AddressIs
  <2>3. (-1 + 1) * BlockSize = 0
    BY SMT
  <2>4. Address(t, -1) = BlockSize
    BY <1>2, <2>2, <2>3, SMT
  <2> QED BY <2>2, <2>4
<1> HIDE DEF t
<1>6. /\ file' \in [Starts -> Contents]
      /\ \A a \in Starts : file'[a] = IF a = BlockSize THEN d ELSE file[a]
  BY <1>1, <1>5 DEF LayoutInv, Contents
<1>7. \A a \in Starts : a < t.offset \/ a >= End(t) => file'[a] = file[a]
  <2> TAKE a \in Starts
  <2> HAVE a < t.offset \/ a >= End(t)
  <2>1. a \in Int
    BY SMT DEF Starts
  <2>2. a # BlockSize
    BY <1>2, <2>1, SMT
  <2> QED BY <1>6, <2>2
<1>8. t.offset >= length
  <2>1. length \in Int
    BY SMT DEF LayoutInv
  <2> QED BY <1>1, <1>2, <2>1, SMT
<1>9. /\ LayoutInv'
      /\ Arrays' = Append(Arrays, [p \in Positions(t) |-> file'[Address(t, p)]])
  BY <1>1, <1>2, <1>3, <1>6, <1>7, <1>8, NewPart
<1>10. [p \in Positions(t) |-> file'[Address(t, p)]] = Cells!NewBlock(d)
  <2>1. file'[BlockSize] = d
    BY <1>5, <1>6
  <2> QED BY <1>4, <1>5, <2>1 DEF Cells!NewBlock
<1> QED BY <1>9, <1>10

(* A block_append that fails lengthens the file and writes behind all      *)
(* parts.                                                                  *)
LEMMA AppendFailedHalfway ==
  ASSUME LayoutInv, AppendWriteFails, length' <= IntMax
  PROVE  LayoutInv' /\ Arrays' = Arrays
<1>1. PICK l \in Partials :
        /\ length <= l /\ l < 2 * BlockSize /\ length' = l
        /\ file' = IF l > BlockSize THEN [file EXCEPT ![BlockSize] = Foreign] ELSE file
  BY DEF AppendWriteFails
<1>2. parts' = parts /\ length <= BlockSize /\ 2 * BlockSize <= MaxLength
  BY DEF AppendWriteFails
<1>3. /\ length \in Nat /\ l \in Nat /\ l <= IntMax
      /\ BlockSize \in Nat /\ BlockSize > 0
  BY <1>1, <1>2, PartialsAssumption, SMT DEF LayoutInv
<1>4. Starts \subseteq Int
  BY SMT DEF Starts
<1>5. /\ file' \in [Starts -> Contents]
      /\ \A a \in Starts : file'[a] = file[a] \/ (a = BlockSize /\ l > BlockSize)
  <2>1. file \in [Starts -> Contents] /\ Foreign \in Contents
    BY DEF LayoutInv, Contents
  <2> QED BY <1>1, <2>1
<1>6. ASSUME NEW k \in DOMAIN parts
      PROVE  End(parts[k]) \in Int /\ End(parts[k]) <= length
  <2>1. parts[k].offset \in Nat /\ parts[k].nodes \in Nat /\ End(parts[k]) <= length
    BY PartIs
  <2>2. (parts[k].nodes + 1) * BlockSize \in Int
    BY <2>1, MulInt, SMT
  <2> QED BY <2>1, <2>2, SMT DEF End
<1>7. LayoutInv'
  <2>1. length' \in 0 .. IntMax
    BY <1>1, <1>3, SMT
  <2>2. \A k \in DOMAIN parts : End(parts[k]) <= length'
    BY <1>1, <1>3, <1>6, SMT
  <2>3. \A a \in Starts : a >= length' => file'[a] = Zero
    <3> TAKE a \in Starts
    <3> HAVE a >= length'
    <3>1. a >= length /\ ~(a = BlockSize /\ l > BlockSize)
      BY <1>1, <1>3, <1>4, SMT
    <3> QED BY <1>5, <3>1 DEF LayoutInv
  <2> QED BY <1>2, <1>5, <2>1, <2>2, <2>3, IntsSufficeIs DEF LayoutInv, PartsAligned, PartsDisjoint
<1>8. ASSUME NEW k \in DOMAIN parts, NEW p \in Positions(parts[k])
      PROVE  Read(Address(parts[k], p))' = Read(Address(parts[k], p))
  <2>1. /\ Address(parts[k], p) \in Starts /\ Address(parts[k], p) \in Nat
        /\ Address(parts[k], p) + BlockSize <= End(parts[k])
    BY PartIs, AddressIs
  <2>2. Address(parts[k], p) # BlockSize
    BY <1>2, <1>3, <1>6, <2>1, SMT
  <2>3. Address(parts[k], p)' = Address(parts[k], p)
    BY <1>2 DEF Address
  <2> QED BY <1>5, <2>1, <2>2, <2>3 DEF Read
<1>9. Arrays' = Arrays
  <2>1. Arrays' = [k \in DOMAIN parts |-> [p \in Positions(parts[k]) |->
                     Read(Address(parts[k], p))']]
    BY <1>2 DEF Arrays, Read, Address, Positions
  <2> QED BY <1>8, <2>1 DEF Arrays
<1> QED BY <1>7, <1>9

(* A step that changes neither the file nor the parts.                     *)
LEMMA FileKept ==
  ASSUME LayoutInv, UNCHANGED <<length, parts, file>>
  PROVE  LayoutInv' /\ Arrays' = Arrays
<1>1. LayoutInv'
  BY DEF LayoutInv, PartsAligned, PartsDisjoint, IntsSuffice
<1>2. Arrays' = Arrays
  BY DEF Arrays, Read, Address, Positions
<1> QED BY <1>1, <1>2

-----------------------------------------------------------------------------
(* The invariant. *)

(* Initially the types are right.                                          *)
LEMMA TypeInit == Init => TypeOK
<1> SUFFICES ASSUME Init PROVE TypeOK
  OBVIOUS
<1>1. length \in Nat
  BY FirstLengthsAssumption, IntMaxAssumption, SMT DEF Init
<1>2. parts \in Seq(Part) /\ file \in [Starts -> Contents]
  BY DEF Init, Contents
<1> QED BY <1>1, <1>2 DEF Init, TypeOK

(* Every step keeps the types, whatever the width of an int.               *)
LEMMA TypeNext == TypeOK /\ [Next]_vars => TypeOK'
<1> SUFFICES ASSUME TypeOK, [Next]_vars PROVE TypeOK'
  OBVIOUS
<1>1. ASSUME NEW n \in NodeCounts, CreateTree(n) PROVE TypeOK'
  <2> DEFINE pos  == NextBlock(ToInt(length))
             tree == [offset |-> IF pos < 0 THEN length ELSE pos, nodes |-> n]
  <2>1. /\ parts' = Append(parts, tree) /\ pc' = pc
        /\ length' = IF length < End(tree) THEN End(tree) ELSE length
        /\ file' = [file EXCEPT ![Address(tree, -1)] = New, ![Address(tree, 0)] = New]
    BY <1>1 DEF CreateTree
  <2>2. length \in Nat /\ n \in Nat
    BY NodeCountsAssumption DEF TypeOK
  <2>3. pos \in Int
    <3> DEFINE x == ToInt(length)
               q == Quotient(x)
    <3>1. \A y \in Int : ToInt(y) \in Int
      BY IntMaxAssumption, SMT DEF ToInt
    <3>2. x \in Int
      BY <2>2, <3>1
    <3> HIDE DEF x, tree
    <3>3. q \in Int
      BY <3>2, DivMod, SMT DEF Quotient
    <3> HIDE DEF q
    <3>4. q * BlockSize + BlockSize \in Int
      BY <3>3, MulInt, SMT
    <3>5. pos = IF x % BlockSize = 0 THEN x ELSE ToInt(q * BlockSize + BlockSize)
      BY DEF NextBlock, x, q
    <3> QED BY <3>1, <3>2, <3>4, <3>5
  <2> HIDE DEF pos
  <2>4. tree \in Part
    BY <2>2, <2>3, SMT DEF Part
  <2>5. End(tree) \in Nat
    <3>1. (n + 1) * BlockSize \in Nat
      BY <2>2, BlockSizeAssumption, SMT
    <3> QED BY <2>4, <3>1, SMT DEF End, Part
  <2> HIDE DEF tree
  <2>6. length' \in Nat
    BY <2>1, <2>2, <2>5
  <2>7. parts' \in Seq(Part)
    BY <2>1, <2>4, SMT DEF TypeOK
  <2>8. file' \in [Starts -> Contents]
    BY <2>1 DEF TypeOK, Contents
  <2> QED BY <2>1, <2>6, <2>7, <2>8 DEF TypeOK
<1>2. ASSUME NEW d \in Data, AppendBlock(d) PROVE TypeOK'
  <2> DEFINE block == [offset |-> BlockSize, nodes |-> 0]
  <2>1. /\ parts' = Append(parts, block) /\ pc' = pc /\ length' = End(block)
        /\ file' = [file EXCEPT ![BlockSize] = d]
    BY <1>2 DEF AppendBlock
  <2>2. block \in Part /\ End(block) \in Nat
    BY BlockSizeAssumption, SMT DEF Part, End
  <2> HIDE DEF block
  <2>3. parts' \in Seq(Part)
    BY <2>1, <2>2, SMT DEF TypeOK
  <2>4. file' \in [Starts -> Contents]
    BY <2>1 DEF TypeOK, Contents
  <2> QED BY <2>1, <2>2, <2>3, <2>4 DEF TypeOK
<1>3. ASSUME NEW k \in DOMAIN parts, NEW p \in Positions(parts[k]), NEW d \in Data, WriteCell(k, p, d)
      PROVE  TypeOK'
  BY <1>3 DEF WriteCell, TypeOK, Contents
<1>4. ASSUME GoesUndefined PROVE TypeOK'
  BY <1>4 DEF GoesUndefined, TypeOK
<1>5. CASE UNCHANGED vars
  BY <1>5 DEF vars, TypeOK
<1>6. ASSUME AppendWriteFails PROVE TypeOK'
  <2>1. length' \in Nat
    BY <1>6, PartialsAssumption DEF AppendWriteFails
  <2>2. file' \in [Starts -> Contents]
    BY <1>6 DEF AppendWriteFails, TypeOK, Contents
  <2> QED BY <1>6, <2>1, <2>2 DEF AppendWriteFails, TypeOK
<1> QED
  BY <1>1, <1>2, <1>3, <1>4, <1>5, <1>6 DEF Next, WriteAstray, AppendFails

(* The file never becomes shorter.                                         *)
LEMMA LengthGrows ==
  ASSUME TypeOK, [Next]_vars
  PROVE  length \in Nat /\ length' \in Nat /\ length <= length'
<1>1. length \in Nat /\ length' \in Nat
  BY TypeNext DEF TypeOK
<1>2. ASSUME NEW n \in NodeCounts, CreateTree(n) PROVE length <= length'
  <2> DEFINE pos  == NextBlock(ToInt(length))
             tree == [offset |-> IF pos < 0 THEN length ELSE pos, nodes |-> n]
  <2>1. length' = IF length < End(tree) THEN End(tree) ELSE length
    BY <1>2 DEF CreateTree
  <2> HIDE DEF tree
  <2> QED BY <1>1, <2>1, SMT
<1>3. ASSUME NEW d \in Data, AppendBlock(d) PROVE length <= length'
  BY <1>1, <1>3, SMT DEF AppendBlock, End
<1>4. ASSUME AppendWriteFails PROVE length <= length'
  BY <1>1, <1>4 DEF AppendWriteFails
<1>5. ASSUME length' = length PROVE length <= length'
  BY <1>1, <1>5, SMT
<1> QED
  BY <1>1, <1>2, <1>3, <1>4, <1>5
     DEF Next, vars, WriteCell, WriteAstray, AppendFails, GoesUndefined

(* Every step that leaves an int sufficient keeps the layout, and is a     *)
(* step of the arrays or none.                                             *)
LEMMA LayoutNext ==
  ASSUME LayoutInv, [Next]_vars, length' <= IntMax
  PROVE  /\ LayoutInv'
         /\ \/ \E n \in NodeCounts : Arrays' = Append(Arrays, Cells!NewTree(n))
            \/ \E d \in Data : Arrays' = Append(Arrays, Cells!NewBlock(d))
            \/ \E k \in DOMAIN Arrays : \E p \in DOMAIN Arrays[k], d \in Data :
                 Arrays' = [Arrays EXCEPT ![k][p] = d]
            \/ Arrays' = Arrays
<1> DEFINE Goal == /\ LayoutInv'
                   /\ \/ \E n \in NodeCounts : Arrays' = Append(Arrays, Cells!NewTree(n))
                      \/ \E d \in Data : Arrays' = Append(Arrays, Cells!NewBlock(d))
                      \/ \E k \in DOMAIN Arrays : \E p \in DOMAIN Arrays[k], d \in Data :
                           Arrays' = [Arrays EXCEPT ![k][p] = d]
                      \/ Arrays' = Arrays
<1> SUFFICES Goal
  OBVIOUS
<1>1. ASSUME NEW n \in NodeCounts, CreateTree(n) PROVE Goal
  BY <1>1, TreeCreated
<1>2. ASSUME NEW d \in Data, AppendBlock(d) PROVE Goal
  BY <1>2, BlockAppended
<1>3. ASSUME NEW k \in DOMAIN parts, NEW p \in Positions(parts[k]), NEW d \in Data,
             WriteCell(k, p, d)
      PROVE  Goal
  <2>1. LayoutInv' /\ Arrays' = [Arrays EXCEPT ![k][p] = d]
    BY <1>3, CellWritten
  <2>2. k \in DOMAIN Arrays /\ p \in DOMAIN Arrays[k]
    BY DEF Arrays
  <2> QED BY <2>1, <2>2
<1>4. CASE UNCHANGED <<length, parts, file>>
  BY <1>4, FileKept
<1>5. ASSUME AppendFails \/ \E k \in DOMAIN parts : \E p \in Positions(parts[k]) : WriteAstray(k, p)
      PROVE  Goal
  BY <1>4, <1>5 DEF AppendFails, WriteAstray, GoesUndefined
<1>6. CASE UNCHANGED vars
  BY <1>4, <1>6 DEF vars
<1>7. CASE AppendWriteFails
  BY <1>7, AppendFailedHalfway
<1> HIDE DEF Goal
<1> QED
  BY <1>1, <1>2, <1>3, <1>5, <1>6, <1>7 DEF Next

(* Every step keeps the invariant, and is a step of what is promised of    *)
(* the file or none: when the file outgrows an int, everything is given    *)
(* up, and as it never becomes shorter, for good.                          *)
LEMMA FileInvNext ==
  ASSUME FileInv, [Next]_vars
  PROVE  FileInv' /\ [Cells!Next]_Promised
<1>1. TypeOK /\ TypeOK'
  BY TypeNext DEF FileInv
<1>2. length \in Nat /\ length' \in Nat /\ length <= length' /\ IntMax \in Nat
  BY <1>1, LengthGrows, IntMaxAssumption
<1>3. CASE length' <= IntMax
  <2>1. length <= IntMax
    BY <1>2, <1>3, SMT
  <2>2. LayoutInv
    BY <2>1 DEF FileInv, IntsSuffice
  <2>3. Promised = Arrays /\ Promised' = Arrays'
    BY <1>3, <2>1 DEF Promised, IntsSuffice
  <2>4. LayoutInv'
    BY <1>3, <2>2, LayoutNext
  <2>5. [Cells!Next]_Promised
    BY <1>3, <2>2, <2>3, LayoutNext DEF Cells!Next, Cells!AddTree, Cells!AddBlock, Cells!Set
  <2> QED BY <1>1, <2>4, <2>5 DEF FileInv
<1>4. CASE ~(length' <= IntMax)
  <2>1. Promised' = <<>>
    BY <1>4 DEF Promised, IntsSuffice
  <2>2. [Cells!Next]_Promised
    BY <2>1 DEF Cells!Next, Cells!GiveUp
  <2> QED BY <1>1, <1>4, <2>2 DEF FileInv, IntsSuffice
<1> QED BY <1>3, <1>4

-----------------------------------------------------------------------------
(* The theorems.  Where an int does not suffice, a tree may begin inside   *)
(* another, or a node be written astray (run file).                        *)

(* The invariant holds throughout.                                         *)
LEMMA FileInvariance == Spec => []FileInv
<1>1. Init => FileInv
  BY TypeInit, LayoutInit DEF FileInv
<1>2. FileInv /\ [Next]_vars => FileInv'
  BY FileInvNext
<1> QED BY <1>1, <1>2, PTL DEF Spec

(* As long as an int suffices, trees and blocks start at a multiple of the *)
(* block size.                                                             *)
THEOREM LayoutAligned == Spec => [](IntsSuffice => PartsAligned)
<1>1. FileInv => (IntsSuffice => PartsAligned)
  BY DEF FileInv, LayoutInv
<1> QED BY <1>1, FileInvariance, PTL

(* Whatever the width of an int: every tree and block starts at a byte of  *)
(* the file, and every block of the file holds something a call wrote.     *)
THEOREM FileTypeCorrect == Spec => []TypeOK
<1>1. FileInv => TypeOK
  BY DEF FileInv
<1> QED BY <1>1, FileInvariance, PTL

(* As long as an int suffices, no two trees or blocks share a byte, and    *)
(* none reaches beyond the end of the file.                                *)
THEOREM LayoutDisjoint == Spec => []PartsDisjoint
<1>1. FileInv => PartsDisjoint
  BY DEF FileInv, LayoutInv, PartsDisjoint
<1> QED BY <1>1, FileInvariance, PTL

(* Until it outgrows an int, the file implements the arrays of cells       *)
(* module BTree works on.                                                  *)
THEOREM FileImplementsArrays == Spec => ImplementsArrays
<1>1. Init => Cells!Init
  <2> SUFFICES ASSUME Init PROVE Cells!Init
    OBVIOUS
  <2>1. parts = <<>> /\ DOMAIN parts = {}
    BY SMT DEF Init
  <2>2. Arrays = <<>>
    <3>1. <<>> = [k \in {} |-> Read(k)]
      BY SMT
    <3>2. Arrays = [k \in {} |-> Read(k)]
      BY <2>1 DEF Arrays
    <3> QED BY <3>1, <3>2
  <2> QED BY <2>2 DEF Cells!Init, Promised
<1>2. FileInv /\ [Next]_vars => [Cells!Next]_Promised
  BY FileInvNext
<1> QED BY <1>1, <1>2, FileInvariance, PTL DEF Spec, ImplementsArrays, Cells!Spec
=============================================================================
