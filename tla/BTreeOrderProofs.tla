-------------------------- MODULE BTreeOrderProofs --------------------------
(***************************************************************************)
(* Trees of max_depth 0 and 1: keys stay in search order.  Trees of any    *)
(* depth: no step loses a record, nodes stay half full.                    *)
(***************************************************************************)
EXTENDS BTreeShallowProofs

-----------------------------------------------------------------------------
(* Which records a split and an insertion leave where.                     *)

(* The lower half. *)
LEMMA LowerRecords ==
  ASSUME NEW y, WellFormed(y)
  PROVE  \A j \in Slots : j < T - 1 => LowerHalf(y).records[j] = y.records[j]
<1>1. y.records \in RecordArray /\ y \in Node
  BY SMT DEF WellFormed, Node, RecordArray
<1> DEFINE recs == [j \in Slots |-> IF j < T - 1 THEN y.records[j] ELSE NoRecord]
<1>2. LowerHalf(y) = Refilled(y, T - 1, recs)
  BY DEF LowerHalf, Refilled
<1>3. recs \in RecordArray
  BY <1>1, SMT DEF RecordArray
<1>4. \A j \in Slots : j < T - 1 => recs[j] = y.records[j]
  BY SMT
<1> HIDE DEF recs
<1>5. LowerHalf(y).records = recs
  BY <1>1, <1>2, SMT DEF Refilled, Node
<1> QED BY <1>4, <1>5

(* The upper half. *)
LEMMA UpperRecords ==
  ASSUME NEW y, NEW i, NEW pos
  PROVE  \A j \in Slots : j < T - 1 => UpperHalf(y, i, pos).records[j] = y.records[j + T]
BY SMT DEF UpperHalf

(* The parent. *)
LEMMA ParentRecords ==
  ASSUME NEW x, WellFormed(x), ~IsFull(x), NEW i \in ChildSlots, i <= x.n,
         NEW median \in Record, NEW pos \in Positions
  PROVE  \A j \in Slots :
           /\ j < i => WithChildAfter(x, i, median, pos).records[j] = x.records[j]
           /\ j = i => WithChildAfter(x, i, median, pos).records[j] = median
           /\ j > i => WithChildAfter(x, i, median, pos).records[j] = x.records[j - 1]
<1> DEFINE recs == [j \in Slots |-> CASE j < i -> x.records[j]
                                      [] j = i -> median
                                      [] j > i -> x.records[j - 1]]
           kids == [j \in ChildSlots |-> CASE j <= i    -> x.children[j]
                                           [] j = i + 1 -> pos
                                           [] j > i + 1 /\ j <= x.n + 1 -> x.children[j - 1]
                                           [] j > x.n + 1 -> x.children[j]]
<1>1. WithChildAfter(x, i, median, pos) = Rebuilt(x, x.n + 1, recs, kids)
  BY DEF WithChildAfter, Rebuilt
<1>2. i \in Int
  BY SMT DEF ChildSlots
<1>3. \A j \in Slots : /\ j < i => recs[j] = x.records[j]
                       /\ j = i => recs[j] = median
                       /\ j > i => recs[j] = x.records[j - 1]
  BY <1>2, SMT DEF Slots
<1> HIDE DEF recs, kids
<1>4. WithChildAfter(x, i, median, pos).records = recs
  BY <1>1, SMT DEF Rebuilt, WellFormed, Node
<1> QED BY <1>3, <1>4

(* The leaf with one more record. *)
LEMMA LeafRecords ==
  ASSUME NEW x, WellFormed(x), NEW i \in Int, NEW data
  PROVE  \A j \in Slots :
           /\ j <= i    => WithRecordAfter(x, i, data).records[j] = x.records[j]
           /\ j = i + 1 => WithRecordAfter(x, i, data).records[j] = data
           /\ j > i + 1 => WithRecordAfter(x, i, data).records[j] = x.records[j - 1]
<1> DEFINE recs == [j \in Slots |-> CASE j <= i    -> x.records[j]
                                      [] j = i + 1 -> data
                                      [] j > i + 1 -> x.records[j - 1]]
<1>1. WithRecordAfter(x, i, data) = Refilled(x, x.n + 1, recs)
  BY DEF WithRecordAfter, Refilled
<1>2. \A j \in Slots : /\ j <= i    => recs[j] = x.records[j]
                       /\ j = i + 1 => recs[j] = data
                       /\ j > i + 1 => recs[j] = x.records[j - 1]
  BY SMT DEF Slots
<1> HIDE DEF recs
<1>3. WithRecordAfter(x, i, data).records = recs
  BY <1>1, SMT DEF Refilled, WellFormed, Node
<1> QED BY <1>2, <1>3

-----------------------------------------------------------------------------
(* Order within a node and between a node and its parent.                  *)

Sorted(x) == \A i, j \in Live(x) : i < j => x.records[i].key < x.records[j].key

(* key may be below slot i of x; all keys of c may.                        *)
Fits(key, x, i) ==
  /\ i > 0   => x.records[i - 1].key <= key
  /\ i < x.n => key <= x.records[i].key

Between(c, x, i) == \A j \in Live(c) : Fits(c.records[j].key, x, i)

(* Live keys are integers. *)
LEMMA LiveKeys ==
  ASSUME NEW x, WellFormed(x)
  PROVE  \A j \in Live(x) : j \in Slots /\ j < x.n /\ x.records[j] \in Record /\ x.records[j].key \in Int
<1>1. \A r \in Record : r.key \in Keys
  BY DEF Record
<1>2. \A k \in Keys : k \in Int
  BY KeysAssumption
<1> QED BY <1>1, <1>2 DEF WellFormed, Live

LEMMA HalvesSorted ==
  ASSUME NEW y, WellFormed(y), IsFull(y), Sorted(y), NEW i \in ChildSlots, NEW pos \in Positions
  PROVE  /\ Sorted(LowerHalf(y)) /\ Sorted(UpperHalf(y, i, pos))
         /\ \A j \in Live(LowerHalf(y)) :
              /\ j \in Live(y) /\ LowerHalf(y).records[j] = y.records[j]
              /\ y.records[j].key < y.records[T - 1].key
         /\ \A j \in Live(UpperHalf(y, i, pos)) :
              /\ j + T \in Live(y) /\ UpperHalf(y, i, pos).records[j] = y.records[j + T]
              /\ y.records[T - 1].key < y.records[j + T].key
<1>1. y.n = 2 * T - 1 /\ T - 1 \in Live(y) /\ T \in Int /\ T >= 2
  BY Sizes, TAssumption, SMT DEF IsFull, MaxRecords, Live
<1>2. LowerHalf(y).n = T - 1 /\ UpperHalf(y, i, pos).n = T - 1
  BY LowerHalfIs, UpperHalfIs
<1>3. ASSUME NEW j \in Live(LowerHalf(y))
      PROVE  /\ j \in Live(y) /\ LowerHalf(y).records[j] = y.records[j]
             /\ y.records[j].key < y.records[T - 1].key
  <2>1. j \in Slots /\ j < T - 1 /\ j \in Live(y)
    BY <1>1, <1>2, <1>3, SMT DEF Live, Slots
  <2> QED BY <1>1, <2>1, LowerRecords DEF Sorted
<1>4. ASSUME NEW j \in Live(UpperHalf(y, i, pos))
      PROVE  /\ j + T \in Live(y) /\ UpperHalf(y, i, pos).records[j] = y.records[j + T]
             /\ y.records[T - 1].key < y.records[j + T].key
  <2>1. j \in Slots /\ j < T - 1 /\ j + T \in Live(y) /\ T - 1 < j + T
    BY <1>1, <1>2, <1>4, SMT DEF Live, Slots, MaxRecords
  <2> QED BY <1>1, <2>1, UpperRecords DEF Sorted
<1>5. Sorted(LowerHalf(y))
  BY <1>3 DEF Sorted
<1>6. Sorted(UpperHalf(y, i, pos))
  <2> SUFFICES ASSUME NEW j \in Live(UpperHalf(y, i, pos)), NEW k \in Live(UpperHalf(y, i, pos)), j < k
               PROVE  y.records[j + T].key < y.records[k + T].key
    BY <1>4 DEF Sorted
  <2>1. j + T < k + T
    BY <1>1, SMT DEF Live, Slots
  <2> QED BY <1>4, <2>1 DEF Sorted
<1> QED BY <1>3, <1>4, <1>5, <1>6

(* The median fits between its neighbours in the parent.                   *)
LEMMA ParentSorted ==
  ASSUME NEW x, WellFormed(x), ~IsFull(x), Sorted(x), NEW i \in ChildSlots, i <= x.n,
         NEW y, WellFormed(y), IsFull(y), Sorted(y), Between(y, x, i), NEW pos \in Positions
  PROVE  Sorted(WithChildAfter(x, i, y.records[T - 1], pos))
<1> DEFINE med == y.records[T - 1]
           par == WithChildAfter(x, i, med, pos)
<1>1. /\ y.n = 2 * T - 1 /\ T \in Int /\ T >= 2
      /\ 0 \in Live(y) /\ T - 1 \in Live(y) /\ T \in Live(y)
  BY Sizes, TAssumption, SMT DEF IsFull, MaxRecords, Live, Slots
<1>2. /\ med \in Record /\ med.key \in Int /\ i \in Int /\ 0 <= i
      /\ x.n \in Int /\ x.n <= MaxRecords - 1 /\ MaxRecords \in Int
  <2>1. x.n \in 0 .. MaxRecords - 1
    BY Sizes, SMT DEF IsFull, WellFormed, Node
  <2> QED BY <1>1, <2>1, LiveKeys, Sizes, SMT DEF ChildSlots
<1>3. i > 0 => i - 1 \in Live(x) /\ x.records[i - 1].key < med.key
  <2> SUFFICES ASSUME i > 0 PROVE i - 1 \in Live(x) /\ x.records[i - 1].key < med.key
    OBVIOUS
  <2>1. i - 1 \in Live(x)
    BY <1>2, SMT DEF Live, Slots
  <2>2. y.records[0].key < med.key /\ x.records[i - 1].key <= y.records[0].key
    BY <1>1, SMT DEF Sorted, Between, Fits
  <2> QED BY <1>1, <1>2, <2>1, <2>2, LiveKeys, SMT
<1>4. i < x.n => i \in Live(x) /\ med.key < x.records[i].key
  <2> SUFFICES ASSUME i < x.n PROVE i \in Live(x) /\ med.key < x.records[i].key
    OBVIOUS
  <2>1. i \in Live(x)
    BY <1>2, SMT DEF Live, Slots
  <2>2. med.key < y.records[T].key /\ y.records[T].key <= x.records[i].key
    BY <1>1, SMT DEF Sorted, Between, Fits
  <2> QED BY <1>1, <1>2, <2>1, <2>2, LiveKeys, SMT
<1>5. par.n = x.n + 1
  BY <1>2, WithChildAfterIs
<1>6. \A j \in Slots : /\ j < i => par.records[j] = x.records[j]
                       /\ j = i => par.records[j] = med
                       /\ j > i => par.records[j] = x.records[j - 1]
  BY <1>2, ParentRecords
<1> HIDE DEF med, par
<1> SUFFICES ASSUME NEW j \in Live(par), NEW k \in Live(par), j < k
             PROVE  par.records[j].key < par.records[k].key
  BY DEF Sorted, med, par
<1>7. j \in Slots /\ k \in Slots /\ j \in Int /\ k \in Int /\ 0 <= j /\ k <= x.n
  BY <1>2, <1>5, SMT DEF Live, Slots
<1>8. \A m \in Int : 0 <= m /\ m < x.n => m \in Live(x)
  BY <1>2, SMT DEF Live, Slots
<1>9. \A a, b \in Live(x) : a < b => x.records[a].key < x.records[b].key
  BY DEF Sorted
<1>10. \A a \in Live(x) : x.records[a].key \in Int
  BY LiveKeys
<1>11. CASE k < i
  BY <1>2, <1>6, <1>7, <1>8, <1>9, <1>11, SMT
<1>12. CASE k = i
  <2>1. j \in Live(x) /\ i - 1 \in Live(x) /\ par.records[j] = x.records[j] /\ par.records[k] = med
    BY <1>2, <1>3, <1>6, <1>7, <1>8, <1>12, SMT
  <2>2. x.records[i - 1].key < med.key
    BY <1>2, <1>3, <1>7, <1>12, SMT
  <2>3. x.records[j].key <= x.records[i - 1].key
    <3>1. j = i - 1 \/ j < i - 1
      BY <1>2, <1>7, <1>12, SMT
    <3> QED BY <1>9, <1>10, <2>1, <3>1, SMT
  <2> QED BY <1>2, <1>10, <2>1, <2>2, <2>3, SMT
<1>13. CASE k > i
  <2>1. k - 1 \in Live(x) /\ par.records[k] = x.records[k - 1]
    BY <1>2, <1>6, <1>7, <1>8, <1>13, SMT
  <2>2. CASE j < i
    <3>1. j \in Live(x) /\ par.records[j] = x.records[j] /\ j < k - 1
      BY <1>2, <1>6, <1>7, <1>8, <1>13, <2>2, SMT
    <3> QED BY <1>9, <2>1, <3>1
  <2>3. CASE j = i
    <3>1. i < x.n /\ (i = k - 1 \/ i < k - 1)
      BY <1>2, <1>7, <1>13, SMT
    <3>2. x.records[i].key <= x.records[k - 1].key
      BY <1>4, <1>9, <1>10, <2>1, <3>1, SMT
    <3> QED BY <1>2, <1>4, <1>6, <1>7, <1>10, <2>1, <2>3, <3>1, <3>2, SMT
  <2>4. CASE j > i
    <3>1. j - 1 \in Live(x) /\ par.records[j] = x.records[j - 1] /\ j - 1 < k - 1
      BY <1>2, <1>6, <1>7, <1>8, <1>13, <2>4, SMT
    <3> QED BY <1>9, <2>1, <3>1
  <2> QED BY <1>2, <1>7, <2>2, <2>3, <2>4, SMT
<1> QED BY <1>2, <1>7, <1>11, <1>12, <1>13, SMT

(* What fitted below a child of the old parent fits below the same child,  *)
(* or the half on its side of the median.                                  *)
LEMMA ParentFits ==
  ASSUME NEW x, WellFormed(x), ~IsFull(x), NEW i \in ChildSlots, i <= x.n,
         NEW med \in Record, NEW pos \in Positions, NEW key \in Int, NEW j \in ChildSlots,
         j <= x.n, Fits(key, x, j)
  PROVE  LET par == WithChildAfter(x, i, med, pos)
         IN  /\ j < i => Fits(key, par, j)
             /\ j > i => Fits(key, par, j + 1)
             /\ j = i /\ key <= med.key => Fits(key, par, i)
             /\ j = i /\ key >= med.key => Fits(key, par, i + 1)
<1> DEFINE par == WithChildAfter(x, i, med, pos)
<1>1. /\ i \in Int /\ j \in Int /\ 0 <= i /\ 0 <= j
      /\ x.n \in Int /\ x.n <= MaxRecords - 1 /\ MaxRecords \in Int
  <2>1. x.n \in 0 .. MaxRecords - 1
    BY Sizes, SMT DEF IsFull, WellFormed, Node
  <2> QED BY <2>1, Sizes, SMT DEF ChildSlots
<1>2. par.n = x.n + 1
  BY WithChildAfterIs
<1>3. \A k \in Int : 0 <= k /\ k <= x.n =>
                       /\ k < i => par.records[k] = x.records[k]
                       /\ k = i => par.records[k] = med
                       /\ k > i => par.records[k] = x.records[k - 1]
  <2>1. \A k \in Int : 0 <= k /\ k <= x.n => k \in Slots
    BY <1>1, SMT DEF Slots
  <2> QED BY <2>1, ParentRecords
<1> HIDE DEF par
<1>4. CASE j < i
  <2>1. j > 0 => par.records[j - 1] = x.records[j - 1]
    BY <1>1, <1>3, <1>4, SMT
  <2>2. j < x.n /\ par.records[j] = x.records[j]
    BY <1>1, <1>3, <1>4, SMT
  <2> QED BY <1>1, <1>4, <2>1, <2>2, SMT DEF Fits, par
<1>5. CASE j > i
  <2>1. par.records[(j + 1) - 1] = x.records[j - 1] /\ j > 0
    BY <1>1, <1>3, <1>5, SMT
  <2>2. j + 1 < par.n => j < x.n /\ par.records[j + 1] = x.records[j]
    BY <1>1, <1>2, <1>3, <1>5, SMT
  <2> QED BY <1>1, <1>5, <2>1, <2>2, SMT DEF Fits, par
<1>6. CASE j = i
  <2>1. j > 0 => par.records[j - 1] = x.records[j - 1]
    BY <1>1, <1>3, <1>6, SMT
  <2>2. par.records[i] = med /\ (i + 1) - 1 = i
    BY <1>1, <1>3, SMT
  <2>3. i + 1 < par.n => i < x.n /\ par.records[i + 1] = x.records[i]
    BY <1>1, <1>2, <1>3, SMT
  <2>4. key <= med.key => Fits(key, par, i)
    BY <1>6, <2>1, <2>2 DEF Fits
  <2>5. key >= med.key => Fits(key, par, i + 1)
    <3>1. key >= med.key => med.key <= key
      BY KeysAssumption, SMT DEF Record
    <3> QED BY <1>1, <1>6, <2>2, <2>3, <3>1 DEF Fits
  <2> QED BY <1>1, <1>6, <2>4, <2>5 DEF par
<1> QED BY <1>1, <1>4, <1>5, <1>6, SMT

(* A new record where the scan of insert stopped, if its key is new.       *)
LEMMA LeafSorted ==
  ASSUME NEW x, WellFormed(x), ~IsFull(x), Sorted(x), NEW data \in Record,
         NEW i \in -1 .. MaxRecords - 1, InsertScanStops(x, data.key, i),
         i >= 0 => x.records[i].key # data.key
  PROVE  LET z == WithRecordAfter(x, i, data)
         IN  /\ Sorted(z)
             /\ \A j \in Live(z) : z.records[j] = data \/ \E k \in Live(x) : z.records[j] = x.records[k]
             /\ \A k \in Live(x) : \E j \in Live(z) : z.records[j] = x.records[k]
             /\ \E j \in Live(z) : z.records[j] = data
<1> DEFINE z == WithRecordAfter(x, i, data)
<1>1. /\ i \in Int /\ -1 <= i /\ i < x.n /\ data.key \in Int
      /\ x.n \in Int /\ 0 <= x.n /\ x.n <= MaxRecords - 1 /\ MaxRecords \in Int
  <2>1. x.n \in 0 .. MaxRecords - 1
    BY Sizes, SMT DEF IsFull, WellFormed, Node
  <2>2. data.key \in Keys
    BY DEF Record
  <2>3. data.key \in Int
    BY <2>2, KeysAssumption
  <2>4. i \in -1 .. x.n - 1
    BY DEF InsertScanStops
  <2> QED BY <2>1, <2>3, <2>4, Sizes, SMT
<1>2. z.n = x.n + 1
  BY <1>1, WithRecordAfterIs
<1>3. \A k \in Int : 0 <= k /\ k <= x.n =>
                       /\ k \in Live(z)
                       /\ k <= i    => z.records[k] = x.records[k]
                       /\ k = i + 1 => z.records[k] = data
                       /\ k > i + 1 => z.records[k] = x.records[k - 1]
  <2>1. \A k \in Int : 0 <= k /\ k <= x.n => k \in Slots /\ k \in Live(z)
    BY <1>1, <1>2, SMT DEF Slots, Live
  <2> QED BY <1>1, <2>1, LeafRecords
<1>4. \A k \in Live(z) : k \in Int /\ 0 <= k /\ k <= x.n
  BY <1>1, <1>2, SMT DEF Live, Slots
<1> HIDE DEF z
<1>5. \A m \in Int : 0 <= m /\ m < x.n => m \in Live(x)
  BY <1>1, SMT DEF Live, Slots
<1>6. \A a, b \in Live(x) : a < b => x.records[a].key < x.records[b].key
  BY DEF Sorted
<1>7. \A a \in Live(x) : a \in Int /\ 0 <= a /\ a < x.n /\ x.records[a].key \in Int
  BY LiveKeys, SMT DEF Slots
<1>8. \A a \in Live(x) : /\ a <= i => x.records[a].key < data.key
                         /\ a > i  => data.key < x.records[a].key
  <2> SUFFICES ASSUME NEW a \in Live(x)
               PROVE  /\ a <= i => x.records[a].key < data.key
                      /\ a > i  => data.key < x.records[a].key
    OBVIOUS
  <2>1. ASSUME a > i PROVE data.key < x.records[a].key
    <3>1. a \in Slots /\ a < x.n
      BY <1>7, LiveKeys
    <3> QED BY <1>1, <1>7, <2>1, <3>1, SMT DEF InsertScanStops
  <2>2. ASSUME a <= i PROVE x.records[a].key < data.key
    <3>1. i \in Live(x) /\ i >= 0
      BY <1>1, <1>5, <1>7, <2>2, SMT
    <3>2. x.records[i].key < data.key
      BY <1>1, <1>7, <3>1, SMT DEF InsertScanStops
    <3>3. CASE a = i
      BY <3>2, <3>3
    <3>4. CASE a < i
      <4>1. x.records[a].key < x.records[i].key
        BY <1>6, <3>1, <3>4
      <4>2. x.records[a].key \in Int /\ x.records[i].key \in Int
        BY <3>1, LiveKeys
      <4> QED BY <1>1, <3>2, <4>1, <4>2, SMT
    <3>5. a \in Int
      BY <1>7, LiveKeys, SMT DEF Slots
    <3> QED BY <1>1, <2>2, <3>3, <3>4, <3>5, SMT
  <2> QED BY <2>1, <2>2
<1>9. \A j \in Live(z) : z.records[j] = data \/ \E k \in Live(x) : z.records[j] = x.records[k]
  <2> SUFFICES ASSUME NEW j \in Live(z)
               PROVE  z.records[j] = data \/ \E k \in Live(x) : z.records[j] = x.records[k]
    OBVIOUS
  <2>1. j \in Int /\ 0 <= j /\ j <= x.n
    BY <1>4
  <2>2. CASE j <= i
    BY <1>1, <1>3, <1>5, <2>1, <2>2, SMT
  <2>3. CASE j > i + 1
    <3>1. j - 1 \in Live(x) /\ z.records[j] = x.records[j - 1]
      BY <1>1, <1>3, <1>5, <2>1, <2>3, SMT
    <3> QED BY <3>1
  <2>4. CASE j = i + 1
    BY <1>1, <1>3, <2>1, <2>4
  <2> QED BY <1>1, <2>1, <2>2, <2>3, <2>4, SMT
<1>10. \A k \in Live(x) : \E j \in Live(z) : z.records[j] = x.records[k]
  <2> SUFFICES ASSUME NEW k \in Live(x) PROVE \E j \in Live(z) : z.records[j] = x.records[k]
    OBVIOUS
  <2>1. CASE k <= i
    BY <1>1, <1>3, <1>7, <2>1, SMT
  <2>2. CASE k > i
    <3>1. k + 1 \in Live(z) /\ z.records[k + 1] = x.records[(k + 1) - 1] /\ (k + 1) - 1 = k
      BY <1>1, <1>3, <1>7, <2>2, SMT
    <3> QED BY <3>1
  <2> QED BY <1>1, <1>7, <2>1, <2>2, SMT
<1>11. i + 1 \in Live(z) /\ z.records[i + 1] = data
  BY <1>1, <1>3, SMT
<1>12. Sorted(z)
  <2> SUFFICES ASSUME NEW j \in Live(z), NEW k \in Live(z), j < k
               PROVE  z.records[j].key < z.records[k].key
    BY DEF Sorted
  <2>1. j \in Int /\ 0 <= j /\ k \in Int /\ k <= x.n
    BY <1>4
  <2>2. CASE k <= i
    BY <1>1, <1>3, <1>5, <1>6, <2>1, <2>2, SMT
  <2>3. CASE k = i + 1
    <3>1. j <= i /\ j \in Live(x) /\ z.records[j] = x.records[j] /\ z.records[k] = data
      BY <1>1, <1>3, <1>5, <2>1, <2>3, SMT
    <3> QED BY <1>8, <3>1
  <2>4. CASE k > i + 1
    <3>1. k - 1 \in Live(x) /\ z.records[k] = x.records[k - 1] /\ k - 1 > i
      BY <1>1, <1>3, <1>5, <2>1, <2>4, SMT
    <3>2. CASE j <= i
      <4>1. j \in Live(x) /\ z.records[j] = x.records[j] /\ j < k - 1
        BY <1>1, <1>3, <1>5, <2>1, <3>1, <3>2, SMT
      <4> QED BY <1>6, <3>1, <4>1
    <3>3. CASE j = i + 1
      <4>1. z.records[j] = data
        BY <1>1, <1>3, <2>1, <2>4, <3>3, SMT
      <4> QED BY <1>8, <3>1, <4>1
    <3>4. CASE j > i + 1
      <4>1. j - 1 \in Live(x) /\ z.records[j] = x.records[j - 1] /\ j - 1 < k - 1
        BY <1>1, <1>3, <1>5, <2>1, <3>4, SMT
      <4> QED BY <1>6, <3>1, <4>1
    <3> QED BY <1>1, <2>1, <3>2, <3>3, <3>4, SMT
  <2> QED BY <1>1, <2>1, <2>2, <2>3, <2>4, SMT
<1> QED BY <1>9, <1>10, <1>11, <1>12 DEF z

(* The keys below the parent after the split.                              *)
LEMMA ParentBetween ==
  ASSUME NEW x, WellFormed(x), ~IsFull(x), NEW i \in ChildSlots, i <= x.n,
         NEW y, WellFormed(y), IsFull(y), Sorted(y), Between(y, x, i), NEW pos \in Positions
  PROVE  LET par == WithChildAfter(x, i, y.records[T - 1], pos)
         IN  /\ \A c, j : WellFormed(c) /\ j \in ChildSlots /\ j <= x.n /\ Between(c, x, j) =>
                  /\ j < i => Between(c, par, j)
                  /\ j > i => Between(c, par, j + 1)
             /\ Between(LowerHalf(y), par, i)
             /\ Between(UpperHalf(y, i, pos), par, i + 1)
<1> DEFINE med == y.records[T - 1]
           par == WithChildAfter(x, i, med, pos)
<1>1. T - 1 \in Live(y)
  BY Sizes, TAssumption, SMT DEF IsFull, MaxRecords, Live
<1>2. med \in Record /\ med.key \in Int
  BY <1>1, LiveKeys
<1> HIDE DEF med
<1>3. \A key \in Int, j \in ChildSlots : j <= x.n /\ Fits(key, x, j) =>
        /\ j < i => Fits(key, par, j)
        /\ j > i => Fits(key, par, j + 1)
        /\ j = i /\ key <= med.key => Fits(key, par, i)
        /\ j = i /\ key >= med.key => Fits(key, par, i + 1)
  BY <1>2, ParentFits
<1> HIDE DEF par
<1>4. ASSUME NEW c, NEW j, WellFormed(c), j \in ChildSlots, j <= x.n, Between(c, x, j)
      PROVE  /\ j < i => Between(c, par, j)
             /\ j > i => Between(c, par, j + 1)
  BY <1>3, <1>4, LiveKeys DEF Between
<1>5. Between(LowerHalf(y), par, i)
  <2> SUFFICES ASSUME NEW j \in Live(LowerHalf(y))
               PROVE  Fits(LowerHalf(y).records[j].key, par, i)
    BY DEF Between
  <2>1. j \in Live(y) /\ LowerHalf(y).records[j] = y.records[j] /\ y.records[j].key < med.key
    BY HalvesSorted DEF med
  <2>2. y.records[j].key \in Int /\ Fits(y.records[j].key, x, i)
    BY <2>1, LiveKeys DEF Between
  <2>3. y.records[j].key <= med.key
    BY <1>2, <2>1, <2>2, SMT
  <2> QED BY <1>3, <2>1, <2>2, <2>3
<1>6. Between(UpperHalf(y, i, pos), par, i + 1)
  <2> SUFFICES ASSUME NEW j \in Live(UpperHalf(y, i, pos))
               PROVE  Fits(UpperHalf(y, i, pos).records[j].key, par, i + 1)
    BY DEF Between
  <2>1. /\ j + T \in Live(y) /\ UpperHalf(y, i, pos).records[j] = y.records[j + T]
        /\ med.key < y.records[j + T].key
    BY HalvesSorted DEF med
  <2>2. y.records[j + T].key \in Int /\ Fits(y.records[j + T].key, x, i)
    BY <2>1, LiveKeys DEF Between
  <2>3. y.records[j + T].key >= med.key
    BY <1>2, <2>1, <2>2, SMT
  <2> QED BY <1>3, <2>1, <2>2, <2>3
<1> QED BY <1>4, <1>5, <1>6 DEF par, med

-----------------------------------------------------------------------------
(* The records a node holds, and that none is lost.                        *)

Held(x) == {x.records[j] : j \in Live(x)}

(* A split moves the median up and the rest into the halves.               *)
LEMMA SplitHeld ==
  ASSUME NEW x, WellFormed(x), ~IsFull(x), NEW i \in ChildSlots, i <= x.n,
         NEW y, WellFormed(y), IsFull(y), NEW pos \in Positions
  PROVE  /\ Held(WithChildAfter(x, i, y.records[T - 1], pos))
              \cup Held(LowerHalf(y)) \cup Held(UpperHalf(y, i, pos)) = Held(x) \cup Held(y)
         /\ Held(x) \subseteq Held(WithChildAfter(x, i, y.records[T - 1], pos))
<1> DEFINE med == y.records[T - 1]
           par == WithChildAfter(x, i, med, pos)
           low == LowerHalf(y)
           upp == UpperHalf(y, i, pos)
<1>1. /\ y.n = 2 * T - 1 /\ T \in Int /\ T >= 2 /\ MaxRecords = 2 * T - 1
      /\ i \in Int /\ 0 <= i /\ i <= x.n /\ x.n \in Int /\ 0 <= x.n /\ x.n <= MaxRecords - 1
  <2>1. x.n \in 0 .. MaxRecords - 1
    BY Sizes, SMT DEF IsFull, WellFormed, Node
  <2> QED BY <2>1, Sizes, TAssumption, SMT DEF IsFull, MaxRecords, ChildSlots
<1>2. med \in Record
  BY Sizes, SMT DEF WellFormed, IsFull
<1>3. par.n = x.n + 1 /\ low.n = T - 1 /\ upp.n = T - 1
  BY <1>2, WithChildAfterIs, LowerHalfIs, UpperHalfIs
<1>4. \A j \in Slots : /\ j < i => par.records[j] = x.records[j]
                       /\ j = i => par.records[j] = med
                       /\ j > i => par.records[j] = x.records[j - 1]
  BY <1>2, ParentRecords
<1>5. \A j \in Slots : j < T - 1 => /\ low.records[j] = y.records[j]
                                    /\ upp.records[j] = y.records[j + T]
  BY LowerRecords, UpperRecords
<1> HIDE DEF par, low, upp
<1>6. /\ Live(x) = 0 .. x.n - 1 /\ Live(y) = 0 .. 2 * T - 2 /\ Live(par) = 0 .. x.n
      /\ Live(low) = 0 .. T - 2 /\ Live(upp) = 0 .. T - 2 /\ Slots = 0 .. 2 * T - 2
  BY <1>1, <1>3, SMT DEF Live, Slots
<1>7. Held(par) \subseteq Held(x) \cup Held(y)
  <2> SUFFICES ASSUME NEW j \in 0 .. x.n PROVE par.records[j] \in Held(x) \cup Held(y)
    BY <1>6 DEF Held
  <2>1. CASE j < i
    <3>1. j \in Live(x) /\ par.records[j] = x.records[j]
      BY <1>1, <1>4, <1>6, <2>1, SMT
    <3> QED BY <3>1 DEF Held
  <2>2. CASE j = i
    <3>1. T - 1 \in Live(y) /\ par.records[j] = y.records[T - 1]
      BY <1>1, <1>4, <1>6, <2>2, SMT
    <3> QED BY <3>1 DEF Held
  <2>3. CASE j > i
    <3>1. j - 1 \in Live(x) /\ par.records[j] = x.records[j - 1]
      BY <1>1, <1>4, <1>6, <2>3, SMT
    <3> QED BY <3>1 DEF Held
  <2> QED BY <1>1, <2>1, <2>2, <2>3, SMT
<1>8. Held(low) \subseteq Held(y) /\ Held(upp) \subseteq Held(y)
  <2>1. ASSUME NEW j \in 0 .. T - 2
        PROVE  low.records[j] \in Held(y) /\ upp.records[j] \in Held(y)
    <3>1. j \in Live(y) /\ j + T \in Live(y) /\ j \in Slots /\ j < T - 1
      BY <1>1, <1>6, SMT
    <3>2. low.records[j] = y.records[j] /\ upp.records[j] = y.records[j + T]
      BY <1>5, <3>1
    <3> QED BY <3>1, <3>2 DEF Held
  <2> QED BY <1>6, <2>1 DEF Held
<1>9. Held(x) \subseteq Held(par)
  <2> SUFFICES ASSUME NEW j \in 0 .. x.n - 1 PROVE x.records[j] \in Held(par)
    BY <1>6 DEF Held
  <2>1. CASE j < i
    <3>1. j \in Live(par) /\ par.records[j] = x.records[j]
      BY <1>1, <1>4, <1>6, <2>1, SMT
    <3> QED BY <3>1 DEF Held
  <2>2. CASE j >= i
    <3>1. j + 1 \in Live(par) /\ j + 1 \in Slots /\ j + 1 > i /\ (j + 1) - 1 = j
      BY <1>1, <1>6, <2>2, SMT
    <3>2. par.records[j + 1] = x.records[j]
      BY <1>4, <3>1
    <3> QED BY <3>1, <3>2 DEF Held
  <2> QED BY <1>1, <2>1, <2>2, SMT
<1>10. Held(y) \subseteq Held(par) \cup Held(low) \cup Held(upp)
  <2> SUFFICES ASSUME NEW j \in 0 .. 2 * T - 2
               PROVE  y.records[j] \in Held(par) \cup Held(low) \cup Held(upp)
    BY <1>6 DEF Held
  <2>1. CASE j < T - 1
    <3>1. j \in Live(low) /\ low.records[j] = y.records[j]
      BY <1>1, <1>5, <1>6, <2>1, SMT
    <3> QED BY <3>1 DEF Held
  <2>2. CASE j = T - 1
    <3>1. i \in Live(par) /\ par.records[i] = y.records[j]
      BY <1>1, <1>4, <1>6, <2>2, SMT DEF med
    <3> QED BY <3>1 DEF Held
  <2>3. CASE j > T - 1
    <3>1. j - T \in Live(upp) /\ j - T \in Slots /\ j - T < T - 1 /\ (j - T) + T = j
      BY <1>1, <1>6, <2>3, SMT
    <3>2. upp.records[j - T] = y.records[j]
      BY <1>5, <3>1
    <3> QED BY <3>1, <3>2 DEF Held
  <2> QED BY <1>1, <2>1, <2>2, <2>3, SMT
<1>11. Held(par) \cup Held(low) \cup Held(upp) = Held(x) \cup Held(y)
  BY <1>7, <1>8, <1>9, <1>10
<1> QED BY <1>9, <1>11 DEF par, low, upp, med

(* An insertion adds its record, wherever it lands. *)
LEMMA LeafHeld ==
  ASSUME NEW x, WellFormed(x), ~IsFull(x), NEW data \in Record,
         NEW i \in Int, -1 <= i, i < x.n
  PROVE  Held(WithRecordAfter(x, i, data)) = Held(x) \cup {data}
<1> DEFINE z == WithRecordAfter(x, i, data)
<1>1. x.n \in Int /\ 0 <= x.n /\ x.n <= MaxRecords - 1 /\ MaxRecords \in Int
  <2>1. x.n \in 0 .. MaxRecords - 1
    BY Sizes, SMT DEF IsFull, WellFormed, Node
  <2> QED BY <2>1, Sizes, SMT
<1>2. z.n = x.n + 1
  BY WithRecordAfterIs
<1>3. \A k \in Slots : /\ k <= i    => z.records[k] = x.records[k]
                       /\ k = i + 1 => z.records[k] = data
                       /\ k > i + 1 => z.records[k] = x.records[k - 1]
  BY LeafRecords
<1> HIDE DEF z
<1>4. Live(x) = 0 .. x.n - 1 /\ Live(z) = 0 .. x.n /\ \A k \in 0 .. x.n : k \in Slots
  BY <1>1, <1>2, SMT DEF Live, Slots
<1>5. Held(z) \subseteq Held(x) \cup {data}
  <2> SUFFICES ASSUME NEW j \in 0 .. x.n PROVE z.records[j] \in Held(x) \cup {data}
    BY <1>4 DEF Held
  <2>1. CASE j <= i
    <3>1. j \in Live(x) /\ z.records[j] = x.records[j]
      BY <1>1, <1>3, <1>4, <2>1, SMT
    <3> QED BY <3>1 DEF Held
  <2>2. CASE j = i + 1
    BY <1>3, <1>4, <2>2
  <2>3. CASE j > i + 1
    <3>1. j - 1 \in Live(x) /\ z.records[j] = x.records[j - 1]
      BY <1>1, <1>3, <1>4, <2>3, SMT
    <3> QED BY <3>1 DEF Held
  <2> QED BY <1>1, <2>1, <2>2, <2>3, SMT
<1>6. Held(x) \subseteq Held(z)
  <2> SUFFICES ASSUME NEW k \in 0 .. x.n - 1 PROVE x.records[k] \in Held(z)
    BY <1>4 DEF Held
  <2>1. CASE k <= i
    <3>1. k \in Live(z) /\ z.records[k] = x.records[k]
      BY <1>1, <1>3, <1>4, <2>1, SMT
    <3> QED BY <3>1 DEF Held
  <2>2. CASE k > i
    <3>1. k + 1 \in Live(z) /\ k + 1 \in Slots /\ k + 1 > i + 1 /\ (k + 1) - 1 = k
      BY <1>1, <1>4, <2>2, SMT
    <3>2. z.records[k + 1] = x.records[k]
      BY <1>3, <3>1
    <3> QED BY <3>1, <3>2 DEF Held
  <2> QED BY <1>1, <2>1, <2>2, SMT
<1>7. data \in Held(z)
  <2>1. i + 1 \in Live(z) /\ z.records[i + 1] = data
    BY <1>1, <1>3, <1>4, SMT
  <2> QED BY <2>1 DEF Held
<1>8. Held(z) = Held(x) \cup {data}
  BY <1>5, <1>6, <1>7
<1> QED BY <1>8 DEF z

-----------------------------------------------------------------------------
(* The two steps that split a leaf, as one: x is the root before, or the   *)
(* new root, y the leaf in its slot i, z the block of the upper half.      *)

SplitOf(x, i, y, z) ==
  /\ WellFormed(x) /\ ~IsFull(x) /\ ~x.isLeaf /\ i \in ChildSlots /\ i <= x.n
  /\ WellFormed(y) /\ IsFull(y) /\ y.isLeaf /\ y.pos \in InUse /\ y = nodes[y.pos]
  /\ z \in Positions /\ z \notin InUse /\ z # 1 /\ y.pos # 1
  /\ x.children[i] = y.pos
  /\ \A j \in ChildSlots : j <= x.n /\ j # i => x.children[j] \in InUse \ {1, y.pos}
  /\ \/ h.root = 1 /\ 1 \in InUse /\ x = nodes[1]
     \/ x.n = 0 /\ InUse = {y.pos}
  /\ \A p \in InUse : p # 1 => WellFormed(nodes[p]) /\ nodes[p].isLeaf
  /\ h'.root = 1 /\ InUse' = InUse \cup {1, z}
  /\ nodes'[1] = WithChildAfter(x, i, y.records[T - 1], z)
  /\ nodes'[y.pos] = LowerHalf(y)
  /\ nodes'[z] = UpperHalf(y, i, z)
  /\ \A p \in InUse : p \notin {1, y.pos} => nodes'[p] = nodes[p]

(* Of a leaf below the root.                                               *)
LEMMA InsertSplitIs ==
  ASSUME IndInv, ShallowInv, NEW i \in ChildSlots, InsertSplit(i)
  PROVE  /\ SplitOf(cur, i, Child(i), h.last + 1)
         /\ RootIsInner /\ cur = nodes[1] /\ pc = "insert" /\ arg \in Record
         /\ cur.children[i] = Child(i).pos /\ i <= cur.n
<1> DEFINE y == Child(i)
           q == cur.children[i]
           z == h.last + 1
<1>1. pc = "insert" /\ ~cur.isLeaf /\ i <= cur.n /\ arg \in Record
  BY InsertsBelowIs DEF InsertSplit
<1>2. /\ RootIsInner /\ cur = nodes[1] /\ cur.pos = 1
      /\ q \in InUse \ {1} /\ y.isLeaf /\ y.pos = q /\ y = nodes[q]
  BY <1>1, InnerCopyIsRoot, ChildIsLeaf
<1>3. /\ h.last \in Positions /\ z \in Positions /\ h.last >= 2 /\ 1 \in Positions /\ q \in Positions
      /\ q # 1 /\ q # z /\ z # 1 /\ z \notin InUse /\ 1 \in InUse /\ InUse \subseteq Positions
  BY <1>2, IndInvFacts, NumNodesAssumption, SMT
  DEF InsertSplit, NoBlockLeft, Positions, InUse, RootIsInner
<1>4. WellFormed(y) /\ IsFull(y) /\ WellFormed(cur) /\ ~IsFull(cur) /\ cur \in Node
  BY <1>1, ChildIs, IndInvFacts DEF InsertSplit, ShallowInv
<1>5. SplitChild(h, cur, i, y)
  BY <1>1 DEF InsertSplit
<1>6. h.root = 1 /\ h \in Header /\ nodes \in [Positions -> Node]
  BY <1>2, IndInvFacts DEF RootIsInner
<1>7. /\ nodes'[1] = WithChildAfter(cur, i, y.records[T - 1], z)
      /\ nodes'[q] = LowerHalf(y) /\ nodes'[z] = UpperHalf(y, i, z)
      /\ \A p \in Positions : p \notin {1, q, z} => nodes'[p] = nodes[p]
      /\ h'.last = z /\ h'.root = 1
  BY <1>2, <1>3, <1>5, <1>6, SplitExact
<1>8. InUse' = InUse \cup {1, z}
  <2>1. 0 .. h.last + 1 = (0 .. h.last) \cup {h.last + 1}
    BY IndInvFacts, SMT
  <2> QED BY <1>3, <1>7, <2>1 DEF InUse
<1>9. \A j \in ChildSlots : j <= cur.n /\ j # i => cur.children[j] \in InUse \ {1, q}
  <2> SUFFICES ASSUME NEW j \in ChildSlots, j <= cur.n, j # i
               PROVE  cur.children[j] \in InUse \ {1, q}
    OBVIOUS
  <2>1. cur.children[j] \in InUse \ {1}
    BY <1>2 DEF RootIsInner
  <2>2. PICK j0 \in ChildSlots : OnlySlot(q, j0)
    BY <1>2 DEF RootIsInner
  <2>3. i = j0
    BY <1>1, <1>2, <2>2 DEF OnlySlot
  <2>4. cur.children[j] # q
    BY <1>2, <2>2, <2>3 DEF OnlySlot
  <2> QED BY <2>1, <2>4
<1>10. \A p \in InUse : p # 1 => WellFormed(nodes[p]) /\ nodes[p].isLeaf
  BY <1>2, <1>3, IndInvFacts DEF RootIsInner
<1> HIDE DEF y, z
<1>11. SplitOf(cur, i, y, z)
  BY <1>1, <1>2, <1>3, <1>4, <1>6, <1>7, <1>8, <1>9, <1>10 DEF SplitOf
<1> QED BY <1>1, <1>2, <1>11 DEF y, z

(* Of the root that is a leaf.                                             *)
LEMMA GrowSplitIs ==
  ASSUME Shallow, IndInv, ShallowInv, NEW k \in Keys, NEW v \in Values, InsertGrow(k, v)
  PROVE  SplitOf(NewRoot(0, 1), 0, nodes[0], 2) /\ ~cur'.isLeaf
<1> DEFINE old == nodes[0]
           new == NewRoot(0, 1)
           up  == [root |-> 1, last |-> 1]
<1>1. Created /\ IsFull(nodes[h.root]) /\ ~NoBlockLeft(h)
  BY DEF InsertGrow, Created
<1>2. RootIsLeaf
  BY <1>1, RoomIsBlocksLeft DEF ShallowInv, RootIsInner
<1>3. /\ {0, 1, 2} \subseteq Positions /\ InUse = {0}
  BY <1>1, <1>2, TAssumption, SMT DEF Shallow, NoBlockLeft, RootIsLeaf, Positions, InUse
<1>4. /\ IsFull(old) /\ WellFormed(old) /\ old.pos = 0 /\ old.isLeaf
      /\ h.root = 0 /\ h.last = 0
  BY <1>1, <1>2, <1>3, IndInvFacts DEF RootIsLeaf
<1>5. /\ WellFormed(new) /\ new.n = 0 /\ ~IsFull(new) /\ new.pos = 1 /\ ~new.isLeaf
      /\ \A j \in ChildSlots : new.children[j] = IF j = 0 THEN 0 ELSE NoChild
  BY <1>3, NewRootIs
<1>6. up \in Header /\ up.last = 1 /\ up.root = 1 /\ up.last + 1 = 2
  BY <1>3, SMT DEF Header
<1>7. SplitChild(up, new, 0, old) /\ cur' = WithChildAfter(new, 0, old.records[T - 1], up.last + 1)
  <2>1. h.last + 1 = 1 /\ NewRoot(nodes[h.root].pos, h.last + 1) = new /\ nodes[h.root] = old
    BY <1>4
  <2> QED BY <1>5, <1>6, <2>1 DEF InsertGrow
<1>8. old.records[T - 1] \in Record
  BY <1>4, Sizes, SMT DEF WellFormed, IsFull
<1>9. ~cur'.isLeaf
  <2>1. 0 <= new.n /\ 2 \in Positions
    BY <1>3, <1>5, SMT
  <2> QED BY <1>5, <1>6, <1>7, <1>8, <2>1, Sizes, WithChildAfterIs
<1> HIDE DEF old, new, up
<1>10. /\ nodes'[1] = WithChildAfter(new, 0, old.records[T - 1], 2)
       /\ nodes'[0] = LowerHalf(old) /\ nodes'[2] = UpperHalf(old, 0, 2)
       /\ h'.last = 2 /\ h'.root = 1
  BY <1>3, <1>4, <1>5, <1>6, <1>7, IndInvFacts, SplitExact, SMT
<1>11. InUse' = {0, 1, 2}
  <2>1. 0 .. 2 = {0, 1, 2}
    BY SMT
  <2> QED BY <1>10, <2>1 DEF InUse
<1>12. \A j \in ChildSlots : j <= new.n => j = 0
  BY <1>5, SMT DEF ChildSlots
<1>13. new.children[0] = 0 /\ 0 <= new.n
  BY <1>5, Sizes, SMT
<1>14. SplitOf(new, 0, old, 2)
  BY <1>3, <1>4, <1>5, <1>10, <1>11, <1>12, <1>13, Sizes DEF SplitOf, old
<1> QED BY <1>9, <1>14 DEF new, old

-----------------------------------------------------------------------------
(* What a split keeps. *)

(* The two invariants in the words of this module.                         *)
LEMMA SearchOrderIs ==
  SearchOrder <=>
    /\ \A p \in InUse : Sorted(nodes[p])
    /\ \A p, q \in InUse : \A i \in ChildSlots :
         IsChild(p, q, i) => Between(nodes[p], nodes[q], i)
BY DEF SearchOrder, KeysIncrease, ChildrenBetweenRecords, Sorted, Between, Fits

LEMMA SplitKeepsOrder ==
  ASSUME NEW x, NEW i, NEW y, NEW z, SplitOf(x, i, y, z), SearchOrder
  PROVE  SearchOrder' /\ Sorted(x) /\ Sorted(y) /\ Between(y, x, i)
<1> DEFINE par == WithChildAfter(x, i, y.records[T - 1], z)
           low == LowerHalf(y)
           upp == UpperHalf(y, i, z)
<1>1. /\ WellFormed(x) /\ ~IsFull(x) /\ ~x.isLeaf /\ i \in ChildSlots /\ i <= x.n
      /\ WellFormed(y) /\ IsFull(y) /\ y.isLeaf /\ y.pos \in InUse /\ y = nodes[y.pos]
      /\ z \in Positions /\ z \notin InUse /\ z # 1 /\ y.pos # 1 /\ x.children[i] = y.pos
      /\ h'.root = 1 /\ InUse' = InUse \cup {1, z}
      /\ nodes'[1] = par /\ nodes'[y.pos] = low /\ nodes'[z] = upp
      /\ \A p \in InUse : p \notin {1, y.pos} => nodes'[p] = nodes[p]
  BY DEF SplitOf
<1>2. \A j \in ChildSlots : j <= x.n /\ j # i => x.children[j] \in InUse \ {1, y.pos}
  BY DEF SplitOf
<1>3. \A p \in InUse : p # 1 => WellFormed(nodes[p]) /\ nodes[p].isLeaf
  BY DEF SplitOf
<1>4. (h.root = 1 /\ 1 \in InUse /\ x = nodes[1]) \/ (x.n = 0 /\ InUse = {y.pos})
  BY DEF SplitOf
<1>5. /\ \A p \in InUse : Sorted(nodes[p])
      /\ \A p, q \in InUse : \A j \in ChildSlots : IsChild(p, q, j) => Between(nodes[p], nodes[q], j)
  BY SearchOrderIs
<1>6. Sorted(y)
  BY <1>1, <1>5
<1>7. Sorted(x) /\ \A j \in ChildSlots : j <= x.n => Between(nodes[x.children[j]], x, j)
  <2>1. CASE 1 \in InUse /\ x = nodes[1]
    <3>1. \A j \in ChildSlots : j <= x.n => x.children[j] \in InUse /\ IsChild(x.children[j], 1, j)
      BY <1>1, <1>2, <2>1 DEF IsChild
    <3> QED BY <1>5, <2>1, <3>1
  <2>2. CASE x.n = 0 /\ InUse = {y.pos}
    <3>1. Live(x) = {}
      BY <2>2, SMT DEF Live, Slots
    <3>2. \A j \in ChildSlots : j <= x.n => ~(j > 0) /\ ~(j < x.n)
      BY <2>2, SMT DEF ChildSlots
    <3> QED BY <3>1, <3>2 DEF Sorted, Between, Fits
  <2> QED BY <1>4, <2>1, <2>2
<1>8. Between(y, x, i)
  BY <1>1, <1>7
<1>9. Sorted(par) /\ Sorted(low) /\ Sorted(upp)
  BY <1>1, <1>6, <1>7, <1>8, ParentSorted, HalvesSorted
<1>10. /\ \A c, j : WellFormed(c) /\ j \in ChildSlots /\ j <= x.n /\ Between(c, x, j) =>
            /\ j < i => Between(c, par, j)
            /\ j > i => Between(c, par, j + 1)
       /\ Between(low, par, i) /\ Between(upp, par, i + 1)
  BY <1>1, <1>6, <1>8, ParentBetween
<1>11. y.records[T - 1] \in Record
  BY <1>1, Sizes, SMT DEF WellFormed, IsFull
<1>12. /\ par.n = x.n + 1
       /\ \A j \in ChildSlots :
            /\ j <= i    => par.children[j] = x.children[j]
            /\ j = i + 1 => par.children[j] = z
            /\ j > i + 1 /\ j <= x.n + 1 => par.children[j] = x.children[j - 1]
  BY <1>1, <1>11, WithChildAfterIs
<1>13. low.isLeaf /\ upp.isLeaf
  BY <1>1, LowerHalfIs, UpperHalfIs
<1> HIDE DEF par, low, upp
<1>14. \A p \in InUse' : Sorted(nodes'[p])
  BY <1>1, <1>5, <1>9
<1>15. \A p \in InUse' : p # 1 => nodes'[p].isLeaf
  BY <1>1, <1>3, <1>13
<1>16. x.n \in Int /\ i \in Int /\ MaxRecords \in Int
  BY <1>1, Sizes, NodeInts, SMT DEF WellFormed, ChildSlots
<1>17. ASSUME NEW j \in ChildSlots, j <= x.n, j # i
       PROVE  LET c == nodes'[x.children[j]]
              IN  (j < i => Between(c, par, j)) /\ (j > i => Between(c, par, j + 1))
  <2>1. x.children[j] \in InUse \ {1, y.pos}
    BY <1>2, <1>17
  <2>2. nodes'[x.children[j]] = nodes[x.children[j]] /\ WellFormed(nodes[x.children[j]])
    BY <1>1, <1>3, <2>1
  <2> QED BY <1>7, <1>10, <1>17, <2>2
<1>18. ASSUME NEW p \in InUse', NEW j \in ChildSlots, IsChild(p, 1, j)'
       PROVE  Between(nodes'[p], par, j)
  <2>1. j <= x.n + 1 /\ par.children[j] = p /\ j \in Int /\ 0 <= j
    BY <1>1, <1>12, <1>18, <1>16, SMT DEF IsChild, ChildSlots
  <2>2. CASE j < i
    <3>1. j <= x.n /\ x.children[j] = p /\ j # i
      BY <1>1, <1>12, <1>16, <2>1, <2>2, SMT
    <3> QED BY <1>17, <2>2, <3>1
  <2>3. CASE j = i
    <3>1. p = y.pos
      BY <1>1, <1>12, <1>16, <2>1, <2>3, SMT
    <3> QED BY <1>1, <1>10, <2>3, <3>1
  <2>4. CASE j = i + 1
    <3>1. p = z
      BY <1>12, <2>1, <2>4
    <3> QED BY <1>1, <1>10, <2>4, <3>1
  <2>5. CASE j > i + 1
    <3>1. j - 1 \in ChildSlots /\ j - 1 <= x.n /\ j - 1 # i /\ j - 1 > i /\ (j - 1) + 1 = j
      BY <1>1, <1>16, <2>1, <2>5, SMT DEF ChildSlots
    <3>2. x.children[j - 1] = p
      BY <1>12, <2>1, <2>5
    <3>3. Between(nodes'[p], par, (j - 1) + 1)
      BY <1>17, <3>1, <3>2
    <3> QED BY <3>1, <3>3
  <2> QED BY <1>16, <2>1, <2>2, <2>3, <2>4, <2>5, SMT
<1>19. \A p, q \in InUse' : \A j \in ChildSlots :
         IsChild(p, q, j)' => Between(nodes'[p], nodes'[q], j)
  <2> SUFFICES ASSUME NEW p \in InUse', NEW q \in InUse', NEW j \in ChildSlots, IsChild(p, q, j)'
               PROVE  Between(nodes'[p], nodes'[q], j)
    OBVIOUS
  <2>1. q = 1
    BY <1>15 DEF IsChild
  <2> QED BY <1>1, <1>18, <2>1
<1>20. SearchOrder'
  BY <1>14, <1>19
  DEF SearchOrder, KeysIncrease, ChildrenBetweenRecords, Sorted, Between, Fits, Live, IsChild
<1> QED BY <1>6, <1>7, <1>8, <1>20

LEMMA StoredIs == Stored = UNION {Held(nodes[p]) : p \in InUse}
BY DEF Stored, Held

-----------------------------------------------------------------------------
(* The order, inductively: the key on its way into a leaf belongs there.   *)

OrderInv ==
  /\ SearchOrder
  /\ pc = "insert" /\ cur.isLeaf =>
       \A q \in InUse, i \in ChildSlots : IsChild(cur.pos, q, i) => Fits(arg.key, nodes[q], i)

(* Only the root has children, each in one slot.                           *)
LEMMA OneSlot ==
  ASSUME ShallowInv, Created, NEW p, NEW q \in InUse, NEW j \in ChildSlots, IsChild(p, q, j)
  PROVE  /\ q = 1 /\ RootIsInner /\ p \in InUse \ {1}
         /\ \A j2 \in ChildSlots : j2 <= nodes[1].n /\ nodes[1].children[j2] = p => j2 = j
<1>1. CASE RootIsLeaf
  <2>1. q = 0
    BY <1>1, SMT DEF RootIsLeaf, InUse
  <2> QED BY <1>1, <2>1 DEF RootIsLeaf, IsChild
<1>2. CASE RootIsInner
  <2>1. q = 1
    BY <1>2 DEF RootIsInner, IsChild
  <2>2. p \in InUse \ {1}
    BY <1>2, <2>1 DEF RootIsInner, IsChild
  <2>3. PICK j0 \in ChildSlots : OnlySlot(p, j0)
    BY <1>2, <2>2 DEF RootIsInner
  <2>4. j = j0
    BY <2>1, <2>3 DEF OnlySlot, IsChild
  <2> QED BY <1>2, <2>1, <2>2, <2>3, <2>4 DEF OnlySlot
<1> QED BY <1>1, <1>2 DEF ShallowInv

(* Where the scan of an inner node stops, the key fits.                    *)
LEMMA ScanFits ==
  ASSUME IndInv, NEW i \in ChildSlots, InsertsBelow(i)
  PROVE  arg.key \in Int /\ Fits(arg.key, cur, i)
<1>1. arg \in Record /\ i <= cur.n /\ WellFormed(cur) /\ cur.n \in 0 .. MaxRecords
  BY InsertsBelowIs, IndInvFacts, SMT DEF Node
<1>2. arg.key \in Keys
  BY <1>1 DEF Record
<1>3. arg.key \in Int
  BY <1>2, KeysAssumption
<1>4. /\ \A j \in Slots : i - 1 < j /\ j < cur.n => cur.records[j].key > arg.key
      /\ i - 1 >= 0 => cur.records[i - 1].key <= arg.key
  BY DEF InsertsBelow, InsertScanStops
<1>5. i > 0 => cur.records[i - 1].key <= arg.key
  BY <1>4, SMT DEF ChildSlots
<1>6. ASSUME i < cur.n PROVE arg.key <= cur.records[i].key
  <2>1. i \in Live(cur) /\ i \in Slots /\ i - 1 < i
    BY <1>1, <1>6, Sizes, SMT DEF Live, Slots, ChildSlots
  <2>2. cur.records[i].key > arg.key /\ cur.records[i].key \in Int
    BY <1>1, <1>4, <1>6, <2>1, LiveKeys
  <2> QED BY <1>3, <2>2, SMT
<1> QED BY <1>3, <1>5, <1>6 DEF Fits

(* Steps that write nothing. *)
LEMMA SearchOrderUnchanged ==
  ASSUME SearchOrder, nodes' = nodes, h' = h
  PROVE  SearchOrder'
<1>1. KeysIncrease'
  BY DEF SearchOrder, KeysIncrease, Live, InUse
<1>2. ChildrenBetweenRecords'
  <2>1. ASSUME NEW p \in InUse, NEW q \in InUse, NEW i \in ChildSlots, IsChild(p, q, i)',
               NEW j \in Live(nodes[p])
        PROVE  /\ i > 0 => nodes[q].records[i - 1].key <= nodes[p].records[j].key
               /\ i < nodes[q].n => nodes[p].records[j].key <= nodes[q].records[i].key
    <3>1. IsChild(p, q, i)
      BY <2>1 DEF IsChild
    <3> QED BY <2>1, <3>1 DEF SearchOrder, ChildrenBetweenRecords
  <2> QED BY <2>1 DEF ChildrenBetweenRecords, Live, InUse
<1> QED BY <1>1, <1>2 DEF SearchOrder

LEMMA OrderUnchanged ==
  ASSUME OrderInv, UNCHANGED <<nodes, h>>, pc' # "insert"
  PROVE  OrderInv'
BY SearchOrderUnchanged DEF OrderInv

LEMMA OrderBegin ==
  ASSUME IndInv, ShallowInv, OrderInv, NEW k \in Keys, NEW v \in Values, InsertBegin(k, v)
  PROVE  OrderInv'
<1>1. UNCHANGED <<nodes, h>> /\ pc' = "insert" /\ cur' = nodes[h.root] /\ Created
  BY DEF InsertBegin, Created
<1>2. SearchOrder'
  BY <1>1, SearchOrderUnchanged DEF OrderInv
<1>3. ASSUME cur'.isLeaf, NEW q \in InUse, NEW i \in ChildSlots, IsChild(cur'.pos, q, i)
      PROVE  FALSE
  <2>1. RootIsInner
    BY <1>1, <1>3, OneSlot
  <2> QED BY <1>1, <1>3, <2>1 DEF RootIsInner
<1> QED BY <1>1, <1>2, <1>3 DEF OrderInv, IsChild, InUse

LEMMA OrderDescend ==
  ASSUME IndInv, ShallowInv, OrderInv, NEW i \in ChildSlots, InsertDescend(i)
  PROVE  OrderInv'
<1>1. /\ UNCHANGED <<nodes, h, arg>> /\ pc = "insert" /\ ~cur.isLeaf /\ i <= cur.n /\ Created
      /\ cur' = Child(i)
  BY InsertsBelowIs DEF InsertDescend, Created
<1>2. SearchOrder'
  BY <1>1, SearchOrderUnchanged DEF OrderInv
<1>3. cur = nodes[1] /\ cur'.pos = cur.children[i]
  BY <1>1, InnerCopyIsRoot, ChildIsLeaf
<1>4. Fits(arg.key, cur, i)
  BY ScanFits DEF InsertDescend
<1>5. ASSUME NEW q \in InUse, NEW j \in ChildSlots, IsChild(cur'.pos, q, j)
      PROVE  Fits(arg.key, nodes[q], j)
  <2>1. /\ q = 1
        /\ \A j2 \in ChildSlots : j2 <= nodes[1].n /\ nodes[1].children[j2] = cur'.pos => j2 = j
    BY <1>1, <1>5, OneSlot
  <2>2. i <= nodes[1].n /\ nodes[1].children[i] = cur'.pos
    BY <1>1, <1>3
  <2>3. i = j
    BY <2>1, <2>2
  <2> QED BY <1>3, <1>4, <2>1, <2>3
<1> QED BY <1>1, <1>2, <1>5 DEF OrderInv, IsChild, InUse

LEMMA OrderSplit ==
  ASSUME IndInv, ShallowInv, OrderInv, NEW i \in ChildSlots, InsertSplit(i)
  PROVE  OrderInv'
<1> DEFINE y == Child(i)
           z == h.last + 1
           med == y.records[T - 1]
           par == WithChildAfter(cur, i, med, z)
<1>1. SplitOf(cur, i, y, z) /\ pc = "insert" /\ arg \in Record
  BY InsertSplitIs
<1>2. SearchOrder' /\ ShallowInv'
  BY <1>1, SplitKeepsOrder, ShallowSplit DEF OrderInv
<1>3. /\ WellFormed(cur) /\ ~IsFull(cur) /\ i <= cur.n /\ WellFormed(y) /\ IsFull(y)
      /\ z \in Positions /\ cur.children[i] = y.pos /\ nodes'[1] = par
      /\ T - 1 \in Slots /\ T - 1 < y.n
  BY <1>1, Sizes, SMT DEF SplitOf, IsFull
<1>4. med \in Record /\ med.key \in Int
  <2>1. T - 1 \in Live(y)
    BY <1>3 DEF Live
  <2> QED BY <1>3, <2>1, LiveKeys
<1>5. arg.key \in Int /\ Fits(arg.key, cur, i)
  BY ScanFits DEF InsertSplit
<1>6. /\ cur' = IF arg.key > med.key THEN UpperHalf(y, i, z) ELSE LowerHalf(y)
      /\ pc' = "insert" /\ arg' = arg
  BY <1>1 DEF InsertSplit
<1>7. UpperHalf(y, i, z).pos = z /\ LowerHalf(y).pos = y.pos
  BY <1>3, UpperHalfIs, LowerHalfIs
<1>8. /\ arg.key <= med.key => Fits(arg.key, par, i)
      /\ arg.key >= med.key => Fits(arg.key, par, i + 1)
  BY <1>3, <1>4, <1>5, ParentFits
<1>9. /\ i + 1 \in ChildSlots /\ i + 1 <= par.n /\ i <= par.n
      /\ par.children[i] = y.pos /\ par.children[i + 1] = z
  <2>1. /\ par.n = cur.n + 1
        /\ \A j \in ChildSlots : /\ j <= i    => par.children[j] = cur.children[j]
                                 /\ j = i + 1 => par.children[j] = z
    BY <1>3, <1>4, WithChildAfterIs
  <2>2. cur.n \in 0 .. MaxRecords - 1
    BY <1>3, Sizes, SMT DEF WellFormed, IsFull, Node
  <2>3. i + 1 \in ChildSlots /\ i + 1 <= cur.n + 1 /\ i <= cur.n + 1 /\ i <= i
    BY <1>3, <2>2, Sizes, SMT DEF ChildSlots
  <2> QED BY <1>3, <2>1, <2>3
<1> HIDE DEF y, z, med, par
<1>10. \E s \in ChildSlots : /\ s <= par.n /\ par.children[s] = cur'.pos
                             /\ Fits(arg.key, par, s)
  <2>1. CASE arg.key > med.key
    BY <1>4, <1>5, <1>6, <1>7, <1>8, <1>9, <2>1, SMT
  <2>2. CASE ~(arg.key > med.key)
    <3>1. arg.key <= med.key
      BY <1>4, <1>5, <2>2, SMT
    <3> QED BY <1>6, <1>7, <1>8, <1>9, <2>2, <3>1
  <2> QED BY <2>1, <2>2
<1>11. PICK s \in ChildSlots : s <= par.n /\ par.children[s] = cur'.pos /\ Fits(arg.key, par, s)
  BY <1>10
<1>12. ASSUME NEW q \in InUse', NEW j \in ChildSlots, IsChild(cur.pos, q, j)'
       PROVE  Fits(arg'.key, nodes'[q], j)
  <2>1. Created'
    BY <1>6 DEF Created
  <2>2. /\ q = 1
        /\ \A j2 \in ChildSlots : j2 <= nodes'[1].n /\ nodes'[1].children[j2] = cur'.pos => j2 = j
    <3>1. RootIsLeaf' \/ RootIsInner'
      BY <1>2, <2>1 DEF ShallowInv
    <3>2. h'.root = 1
      BY <1>1 DEF SplitOf
    <3>3. RootIsInner'
      BY <3>1, <3>2 DEF RootIsLeaf
    <3>4. q = 1
      BY <1>12, <3>3 DEF RootIsInner, IsChild, InUse
    <3>5. cur'.pos \in InUse' /\ cur'.pos # 1
      BY <1>12, <3>3, <3>4 DEF RootIsInner, IsChild
    <3>6. PICK j0 \in ChildSlots : OnlySlot(cur.pos, j0)'
      BY <3>3, <3>5 DEF RootIsInner, InUse
    <3>7. \A j2 \in ChildSlots : j2 <= nodes'[1].n /\ nodes'[1].children[j2] = cur'.pos => j2 = j0
      BY <3>6 DEF OnlySlot
    <3>8. j = j0
      BY <1>12, <3>4, <3>7 DEF IsChild
    <3> QED BY <3>4, <3>7, <3>8
  <2>3. j = s
    BY <1>3, <1>11, <2>2
  <2> QED BY <1>3, <1>6, <1>11, <2>2, <2>3
<1> QED BY <1>2, <1>12 DEF OrderInv

LEMMA OrderGrow ==
  ASSUME Shallow, IndInv, ShallowInv, OrderInv, NEW k \in Keys, NEW v \in Values, InsertGrow(k, v)
  PROVE  OrderInv'
<1>1. SplitOf(NewRoot(0, 1), 0, nodes[0], 2) /\ ~cur'.isLeaf
  BY GrowSplitIs
<1>2. SearchOrder'
  BY <1>1, SplitKeepsOrder DEF OrderInv
<1> QED BY <1>1, <1>2 DEF OrderInv

LEMMA OrderCreate == ASSUME IndInv, OpenCreate PROVE OrderInv'
<1>1. /\ nodes' = [nodes EXCEPT ![0] = InitNode] /\ h' = [root |-> 0, last |-> 0] /\ pc' = "idle"
  BY DEF OpenCreate
<1>2. nodes'[0] = InitNode /\ h'.last = 0 /\ InUse' = {0}
  <2>1. nodes'[0] = InitNode /\ h'.last = 0
    BY <1>1, IndInvFacts, Sizes, SMT
  <2>2. 0 .. 0 = {0}
    BY SMT
  <2> QED BY <2>1, <2>2 DEF InUse
<1>3. {j \in Slots : j < InitNode.n} = {}
  BY SMT DEF InitNode, Slots
<1> QED
  BY <1>1, <1>2, <1>3 DEF OrderInv, SearchOrder, KeysIncrease, ChildrenBetweenRecords, Live

(* The leaf an insertion writes back. *)
LEMMA StoreIs ==
  ASSUME IndInv, ShallowInv, NEW i \in -1 .. MaxRecords - 1, InsertStore(i)
  PROVE  LET new == WithRecordAfter(cur, i, arg)
         IN  /\ pc = "insert" /\ arg \in Record /\ cur.isLeaf /\ new.isLeaf /\ new.n = cur.n + 1
             /\ cur = nodes[cur.pos] /\ cur.pos \in InUse /\ WellFormed(cur) /\ ~IsFull(cur)
             /\ InsertScanStops(cur, arg.key, i) /\ (i >= 0 => cur.records[i].key # arg.key)
             /\ nodes'[cur.pos] = new /\ h' = h /\ pc' = "idle"
             /\ \A p \in InUse : p # cur.pos => nodes'[p] = nodes[p]
<1> DEFINE new == WithRecordAfter(cur, i, arg)
<1>1. pc = "insert" /\ arg \in Record /\ ~IsFull(cur) /\ cur.isLeaf
  BY DEF InsertStore, InsertsAfter, IndInv
<1>2. i \in Int /\ -1 <= i /\ i < cur.n
  BY IndInvFacts, NodeInts, Sizes, SMT DEF InsertStore, InsertsAfter, InsertScanStops
<1>3. new.isLeaf /\ new.n = cur.n + 1
  BY <1>1, <1>2, IndInvFacts, WithRecordAfterIs
<1>4. nodes' = [nodes EXCEPT ![cur.pos] = new] /\ h' = h /\ pc' = "idle"
  BY DEF InsertStore, Return
<1>5. cur = nodes[cur.pos] /\ cur.pos \in InUse
  BY <1>1 DEF ShallowInv, CopyIsCurrent
<1>6. InUse \subseteq Positions
  BY IndInvFacts, NumNodesAssumption, SMT DEF InUse, Positions
<1> HIDE DEF new
<1>7. nodes'[cur.pos] = new /\ \A p \in InUse : p # cur.pos => nodes'[p] = nodes[p]
  BY <1>4, <1>5, <1>6, IndInvFacts, SMT
<1>8. InsertScanStops(cur, arg.key, i) /\ (i >= 0 => cur.records[i].key # arg.key)
  BY DEF InsertStore, InsertsAfter
<1> QED BY <1>1, <1>3, <1>4, <1>5, <1>7, <1>8, IndInvFacts DEF new

LEMMA OrderStore ==
  ASSUME IndInv, ShallowInv, OrderInv, NEW i \in -1 .. MaxRecords - 1, InsertStore(i)
  PROVE  OrderInv'
<1> DEFINE new == WithRecordAfter(cur, i, arg)
<1>1. /\ pc = "insert" /\ arg \in Record /\ cur.isLeaf /\ new.isLeaf
      /\ cur = nodes[cur.pos] /\ cur.pos \in InUse /\ WellFormed(cur) /\ ~IsFull(cur)
      /\ InsertScanStops(cur, arg.key, i) /\ (i >= 0 => cur.records[i].key # arg.key)
      /\ nodes'[cur.pos] = new /\ h' = h /\ pc' = "idle"
      /\ \A p \in InUse : p # cur.pos => nodes'[p] = nodes[p]
  BY StoreIs
<1>2. /\ \A p \in InUse : Sorted(nodes[p])
      /\ \A p, q \in InUse : \A j \in ChildSlots : IsChild(p, q, j) => Between(nodes[p], nodes[q], j)
  BY SearchOrderIs DEF OrderInv
<1>3. /\ Sorted(new)
      /\ \A j \in Live(new) : new.records[j] = arg \/ \E k \in Live(cur) : new.records[j] = cur.records[k]
  BY <1>1, <1>2, LeafSorted
<1> HIDE DEF new
<1>4. \A p \in InUse : Sorted(nodes'[p])
  BY <1>1, <1>2, <1>3
<1>5. ASSUME NEW p \in InUse, NEW q \in InUse, NEW j \in ChildSlots, IsChild(p, q, j)'
      PROVE  Between(nodes'[p], nodes'[q], j)
  <2>1. q # cur.pos /\ nodes'[q] = nodes[q] /\ IsChild(p, q, j)
    BY <1>1, <1>5 DEF IsChild
  <2>2. Between(nodes[p], nodes[q], j)
    BY <1>2, <2>1
  <2>3. CASE p = cur.pos
    <3>1. Fits(arg.key, nodes[q], j)
      BY <1>1, <2>1, <2>3 DEF OrderInv
    <3>2. \A m \in Live(new) : Fits(new.records[m].key, nodes[q], j)
      BY <1>1, <1>3, <2>2, <2>3, <3>1 DEF Between
    <3> QED BY <1>1, <2>1, <2>3, <3>2 DEF Between
  <2>4. CASE p # cur.pos
    BY <1>1, <2>1, <2>2, <2>4
  <2> QED BY <2>3, <2>4
<1>6. InUse' = InUse
  BY <1>1 DEF InUse
<1>7. SearchOrder'
  BY <1>4, <1>5, <1>6
  DEF SearchOrder, KeysIncrease, ChildrenBetweenRecords, Sorted, Between, Fits, Live, IsChild
<1> QED BY <1>1, <1>7 DEF OrderInv

-----------------------------------------------------------------------------
(* The steps of a shallow tree: the rest of Next cannot happen.            *)
LEMMA StepIs ==
  ASSUME Shallow, IndInv, ShallowInv, Next
  PROVE  \/ UNCHANGED <<nodes, h>> /\ pc' # "insert" /\ Created /\ Created'
         \/ OpenCreate
         \/ \E k \in Keys, v \in Values : InsertBegin(k, v) \/ InsertGrow(k, v)
         \/ \E i \in ChildSlots : InsertDescend(i) \/ InsertSplit(i)
         \/ \E i \in -1 .. MaxRecords - 1 : InsertStore(i)
<1> DEFINE Quiet == UNCHANGED <<nodes, h>> /\ pc' # "insert" /\ Created /\ Created'
<1>1. ASSUME OpenExisting \/ Close \/ InsertRefused \/ \E k \in Keys : SearchBegin(k) PROVE Quiet
  <2>1. ASSUME OpenExisting PROVE Quiet
    BY <2>1 DEF OpenExisting, IndInv, HeaderIsCurrent, Created
  <2>2. ASSUME Close \/ InsertRefused \/ \E k \in Keys : SearchBegin(k) PROVE Quiet
    BY <2>2 DEF Close, InsertRefused, Return, SearchBegin, Created
  <2> QED BY <1>1, <2>1, <2>2
<1>2. ASSUME NEW i \in -1 .. MaxRecords - 1, InsertDuplicate(i) PROVE Quiet
  BY <1>2 DEF InsertDuplicate, InsertsAfter, Return, Created
<1>3. ASSUME NEW i \in ChildSlots, SearchFound(i) \/ SearchMissing(i) \/ SearchDescend(i)
      PROVE  Quiet
  BY <1>3 DEF SearchFound, SearchMissing, SearchDescend, SearchesAt, Return, Created
<1>4. ASSUME NEW i \in -1 .. MaxRecords - 1 PROVE ~InsertOverflows(i)
  BY DEF InsertOverflows, InsertsAfter, ShallowInv
<1> HIDE DEF Quiet
<1>5. CASE Call
  BY <1>1, <1>5, ShallowNoGrowLast, Zenon DEF Call, Quiet
<1>6. CASE InsertStep
  BY <1>2, <1>4, <1>6, ShallowAlwaysSplits, Zenon DEF InsertStep, Quiet
<1>7. CASE SearchStep
  BY <1>3, <1>7, ShallowAlwaysSplits, Zenon DEF SearchStep, Quiet
<1> QED BY <1>5, <1>6, <1>7 DEF Next

LEMMA OrderInit == Init => OrderInv
<1> SUFFICES ASSUME Init PROVE OrderInv
  OBVIOUS
<1>1. nodes = [p \in Positions |-> ZeroNode] /\ h.last = 0 /\ pc = "absent"
  BY SMT DEF Init
<1>2. InUse = {0}
  BY <1>1, SMT DEF InUse
<1>3. nodes[0] = ZeroNode
  BY <1>1, Sizes
<1>4. {j \in Slots : j < ZeroNode.n} = {}
  BY SMT DEF ZeroNode, Slots
<1> QED
  BY <1>1, <1>2, <1>3, <1>4 DEF OrderInv, SearchOrder, KeysIncrease, ChildrenBetweenRecords, Live

LEMMA OrderNext ==
  ASSUME Shallow, IndInv, ShallowInv, OrderInv, [Next]_vars
  PROVE  OrderInv'
<1>1. CASE Next
  BY <1>1, StepIs, OrderUnchanged, OrderCreate, OrderBegin, OrderGrow, OrderDescend, OrderSplit,
     OrderStore
<1>2. CASE UNCHANGED vars
  <2>1. nodes' = nodes /\ h' = h /\ pc' = pc /\ cur' = cur /\ arg' = arg
    BY <1>2 DEF vars
  <2>2. SearchOrder'
    BY <2>1, SearchOrderUnchanged DEF OrderInv
  <2> QED BY <2>1, <2>2 DEF OrderInv, IsChild, InUse
<1> QED BY <1>1, <1>2

LEMMA OrderInvariance == ASSUME Shallow PROVE Spec => []OrderInv
<1>1. IndInv /\ ShallowInv /\ OrderInv /\ [Next]_vars => OrderInv'
  BY OrderNext
<1> QED
  BY <1>1, OrderInit, Invariance, ShallowInvariance, PTL DEF Spec

(* In a tree of max_depth 0 or 1, of any node size, the keys of a node     *)
(* increase and those of a child lie between the records around it in the  *)
(* root: neither the shifts of an insertion nor a split ever breaks the    *)
(* order clrs_btree_search relies on.                                      *)
THEOREM ShallowOrder == Shallow => (Spec => []SearchOrder)
<1> SUFFICES ASSUME Shallow PROVE Spec => []SearchOrder
  OBVIOUS
<1>1. OrderInv => SearchOrder
  BY DEF OrderInv
<1> QED
  BY <1>1, OrderInvariance, PTL

-----------------------------------------------------------------------------
(* No record is lost and no node runs empty, in trees of any depth.  There *)
(* the tree need be neither a tree nor in order; what counts is where each *)
(* write lands.  A node is written at the position it carries, so it must  *)
(* carry its own.  Two blocks do not: those still reserved, which read as  *)
(* zeros, and the root that took the last one, which is never written.  By *)
(* then no block is left, and an inner node is never written again.        *)

(* The block at p is written where it is, or never again.                  *)
PlacedAt(p) == nodes[p].pos = p \/ (NoBlockLeft(h) /\ ~nodes[p].isLeaf)

(* No node names itself as a child: the parent and the child of a split    *)
(* are written at two positions.                                           *)
Places ==
  /\ \A p \in InUse : PlacedAt(p)
  /\ \A p \in InUse, j \in ChildSlots : ~IsChild(p, p, j)

(* A block not handed out is as the reservation left it.                   *)
Unwritten == \A p \in Positions : p > h.last => nodes[p] = ZeroNode

(* The copy an insertion works on is the node on file, unless it is the    *)
(* root that took the last block.                                          *)
WritesBack == pc = "insert" => cur = nodes[cur.pos] \/ (NoBlockLeft(h) /\ ~cur.isLeaf)

PlaceInv == (Created => Places) /\ Unwritten /\ WritesBack

(* A split anywhere in the tree. *)
SplitIn(x, i, y, z) ==
  /\ WellFormed(x) /\ ~IsFull(x) /\ i \in ChildSlots /\ i <= x.n
  /\ WellFormed(y) /\ IsFull(y) /\ y.pos \in InUse /\ y = nodes[y.pos]
  /\ z \in Positions /\ z \notin InUse /\ x.pos # z /\ x.pos # y.pos
  /\ \/ x.pos \in InUse /\ x = nodes[x.pos]
     \/ x.pos \notin InUse /\ x.n = 0 /\ x.children[0] = y.pos
  /\ h'.last = z /\ InUse' = InUse \cup {x.pos, z}
  /\ nodes'[x.pos] = WithChildAfter(x, i, y.records[T - 1], z)
  /\ nodes'[y.pos] = LowerHalf(y)
  /\ nodes'[z] = UpperHalf(y, i, z)
  /\ \A p \in InUse : p \notin {x.pos, y.pos} => nodes'[p] = nodes[p]

LEMMA SplitInRecords ==
  ASSUME NEW x, NEW i, NEW y, NEW z, SplitIn(x, i, y, z)
  PROVE  Stored' = Stored
<1> DEFINE par == WithChildAfter(x, i, y.records[T - 1], z)
           low == LowerHalf(y)
           upp == UpperHalf(y, i, z)
<1>1. /\ y.pos \in InUse /\ y = nodes[y.pos] /\ y.pos # x.pos /\ z \notin InUse /\ z # x.pos
      /\ InUse' = InUse \cup {x.pos, z}
      /\ nodes'[x.pos] = par /\ nodes'[y.pos] = low /\ nodes'[z] = upp
      /\ \A p \in InUse : p \notin {x.pos, y.pos} => nodes'[p] = nodes[p]
  BY DEF SplitIn
<1>2. Held(par) \cup Held(low) \cup Held(upp) = Held(x) \cup Held(y)
  BY SplitHeld DEF SplitIn
<1>3. (x.pos \in InUse /\ x = nodes[x.pos]) \/ (Held(x) = {} /\ x.pos \notin InUse)
  <2>1. CASE x.n = 0 /\ x.pos \notin InUse
    <3>1. Live(x) = {}
      BY <2>1, SMT DEF Live, Slots
    <3> QED BY <2>1, <3>1 DEF Held
  <2> QED BY <2>1 DEF SplitIn
<1> HIDE DEF par, low, upp
<1>4. Stored' = UNION {Held(nodes'[p]) : p \in InUse'}
  BY DEF Stored, Held, Live
<1>5. Held(par) \cup Held(low) \cup Held(upp) \subseteq Stored'
  BY <1>1, <1>4
<1>6. Stored \subseteq Stored'
  <2> SUFFICES ASSUME NEW p \in InUse PROVE Held(nodes[p]) \subseteq Stored'
    BY StoredIs
  <2>1. CASE p \in {x.pos, y.pos}
    BY <1>1, <1>2, <1>3, <1>5, <2>1
  <2>2. CASE p \notin {x.pos, y.pos}
    BY <1>1, <1>4, <2>2
  <2> QED BY <2>1, <2>2
<1>7. Held(x) \cup Held(y) \subseteq Stored
  BY <1>1, <1>3, StoredIs
<1>8. Stored' \subseteq Stored
  <2> SUFFICES ASSUME NEW p \in InUse' PROVE Held(nodes'[p]) \subseteq Stored
    BY <1>4
  <2>1. CASE p \in {x.pos, y.pos, z}
    BY <1>1, <1>2, <1>7, <2>1
  <2>2. CASE p \notin {x.pos, y.pos, z}
    <3>1. p \in InUse /\ nodes'[p] = nodes[p]
      BY <1>1, <2>2
    <3> QED BY <3>1, StoredIs
  <2> QED BY <2>1, <2>2
<1> QED BY <1>6, <1>8

(* A split with all blocks where they say they are leaves them so.         *)
LEMMA SplitInPlaces ==
  ASSUME IndInv, NEW x, NEW i, NEW y, NEW z, SplitIn(x, i, y, z), z > h.last, z # y.pos,
         PointsWithin(y, h.last), \A p \in InUse : nodes[p].pos = p,
         \A p \in InUse, j \in ChildSlots : ~IsChild(p, p, j)
  PROVE  /\ \A p \in InUse' : nodes'[p].pos = p
         /\ \A p \in InUse', j \in ChildSlots : ~IsChild(p, p, j)'
<1> DEFINE par == WithChildAfter(x, i, y.records[T - 1], z)
           low == LowerHalf(y)
           upp == UpperHalf(y, i, z)
<1>1. /\ WellFormed(x) /\ ~IsFull(x) /\ i \in ChildSlots /\ i <= x.n
      /\ WellFormed(y) /\ IsFull(y) /\ y.pos \in InUse /\ y = nodes[y.pos]
      /\ z \in Positions /\ z \notin InUse /\ x.pos # z /\ x.pos # y.pos
      /\ InUse' = InUse \cup {x.pos, z}
      /\ nodes'[x.pos] = par /\ nodes'[y.pos] = low /\ nodes'[z] = upp
      /\ \A p \in InUse : p \notin {x.pos, y.pos} => nodes'[p] = nodes[p]
  BY DEF SplitIn
<1>2. y.records[T - 1] \in Record
  BY <1>1, Sizes, SMT DEF WellFormed, IsFull
<1>3. /\ par.n = x.n + 1 /\ par.pos = x.pos /\ par.isLeaf = x.isLeaf
      /\ \A j \in ChildSlots :
           /\ j <= i    => par.children[j] = x.children[j]
           /\ j = i + 1 => par.children[j] = z
           /\ j > i + 1 /\ j <= x.n + 1 => par.children[j] = x.children[j - 1]
  BY <1>1, <1>2, WithChildAfterIs
<1>4. /\ low.n = T - 1 /\ low.pos = y.pos /\ low.isLeaf = y.isLeaf /\ low.children = y.children
      /\ upp.n = T - 1 /\ upp.pos = z
      /\ \A j \in ChildSlots : upp.children[j] \in {NoChild, y.children[MaxRecords]}
  BY <1>1, LowerHalfIs, UpperHalfIs
<1> HIDE DEF par, low, upp
<1>5. \A p \in InUse' : nodes'[p].pos = p
  BY <1>1, <1>3, <1>4
<1>6. x.n \in 0 .. MaxRecords - 1 /\ i \in Int /\ 0 <= i /\ MaxRecords \in Int /\ MaxRecords >= 3
      /\ y.n = MaxRecords /\ T - 1 < MaxRecords /\ T - 1 \in Int
  BY <1>1, Sizes, TAssumption, SMT DEF WellFormed, IsFull, Node, ChildSlots
<1>7. ASSUME NEW j \in ChildSlots, j <= x.n, ~x.isLeaf PROVE x.children[j] # x.pos
  <2>1. CASE x.pos \in InUse /\ x = nodes[x.pos]
    BY <1>7, <2>1 DEF IsChild
  <2>2. CASE x.n = 0 /\ x.children[0] = y.pos
    <3>1. j = 0
      BY <1>7, <2>2, SMT DEF ChildSlots
    <3> QED BY <1>1, <2>2, <3>1
  <2> QED BY <2>1, <2>2 DEF SplitIn
<1>8. ASSUME NEW j \in ChildSlots, j <= par.n, ~par.isLeaf PROVE par.children[j] # x.pos
  <2>1. CASE j <= i
    <3>1. j <= x.n
      BY <1>1, <1>6, <2>1, SMT DEF ChildSlots
    <3> QED BY <1>3, <1>7, <1>8, <2>1, <3>1
  <2>2. CASE j = i + 1
    BY <1>1, <1>3, <2>2
  <2>3. CASE j > i + 1
    <3>1. j - 1 \in ChildSlots /\ j - 1 <= x.n /\ j <= x.n + 1
      BY <1>3, <1>6, <1>8, <2>3, SMT DEF ChildSlots
    <3> QED BY <1>3, <1>7, <1>8, <2>3, <3>1
  <2> QED BY <1>6, <2>1, <2>2, <2>3, SMT DEF ChildSlots
<1>9. ASSUME NEW j \in ChildSlots, j <= low.n, ~low.isLeaf PROVE low.children[j] # y.pos
  <2>1. j <= y.n
    BY <1>4, <1>6, <1>9, SMT DEF ChildSlots
  <2> QED BY <1>1, <1>4, <1>9, <2>1 DEF IsChild
<1>10. ASSUME NEW j \in ChildSlots PROVE upp.children[j] # z
  <2>1. y.children[MaxRecords] <= h.last /\ y.children[MaxRecords] \in Int /\ y \in Node
    BY <1>1, Sizes, NodeInts DEF PointsWithin, WellFormed
  <2>2. z \in Int /\ 0 <= z /\ h.last \in Int
    BY <1>1, IndInvFacts, SMT DEF Positions
  <2>3. NoChild # z /\ y.children[MaxRecords] # z
    BY <2>1, <2>2, SMT DEF NoChild
  <2> QED BY <1>4, <2>3
<1>11. \A p \in InUse', j \in ChildSlots : ~IsChild(p, p, j)'
  <2> SUFFICES ASSUME NEW p \in InUse', NEW j \in ChildSlots, IsChild(p, p, j)'
               PROVE  FALSE
    OBVIOUS
  <2>1. ~nodes'[p].isLeaf /\ j <= nodes'[p].n /\ nodes'[p].children[j] = p
    BY DEF IsChild
  <2>2. CASE p \in {x.pos, y.pos, z}
    BY <1>1, <1>8, <1>9, <1>10, <2>1, <2>2
  <2>3. CASE p \notin {x.pos, y.pos, z}
    <3>1. p \in InUse /\ nodes'[p] = nodes[p]
      BY <1>1, <2>3
    <3> QED BY <2>1, <3>1 DEF IsChild
  <2> QED BY <2>2, <2>3
<1> QED BY <1>5, <1>11

(* While a block is left, every block in use says where it is.             *)
LEMMA PlacesExact ==
  ASSUME PlaceInv, Created, ~NoBlockLeft(h)
  PROVE  /\ \A p \in InUse : nodes[p].pos = p
         /\ \A p \in InUse, j \in ChildSlots : ~IsChild(p, p, j)
BY DEF PlaceInv, Places, PlacedAt

LEMMA InUseMore ==
  ASSUME IndInv
  PROVE  /\ InUse \subseteq Positions
         /\ 0 .. h.last + 1 = InUse \cup {h.last + 1} /\ h.last + 1 \notin InUse
         /\ 0 .. h.last + 2 = InUse \cup {h.last + 1, h.last + 2} /\ h.last + 2 \notin InUse
<1>1. h.last \in Int /\ 0 <= h.last /\ h.last \in 0 .. NumNodes - 1
  BY IndInvFacts DEF Positions
<1> QED BY <1>1, NumNodesAssumption, SMT DEF InUse, Positions

(* The two steps that split are splits in this sense.                      *)
LEMMA SplitStepIn ==
  ASSUME IndInv, PlaceInv, NEW i \in ChildSlots, InsertSplit(i)
  PROVE  /\ SplitIn(cur, i, Child(i), h.last + 1)
         /\ pc = "insert" /\ ~NoBlockLeft(h) /\ PointsWithin(Child(i), h.last)
         /\ cur' \in {nodes'[Child(i).pos], nodes'[h.last + 1]}
<1> DEFINE y == Child(i)
           q == cur.children[i]
           z == h.last + 1
<1>1. /\ pc = "insert" /\ ~cur.isLeaf /\ i <= cur.n /\ q # NoChild /\ IsFull(y) /\ ~NoBlockLeft(h)
      /\ SplitChild(h, cur, i, y) /\ Created
      /\ cur' \in {LowerHalf(y), UpperHalf(y, i, z)}
  BY InsertsBelowIs DEF InsertSplit, Created
<1>2. q \in Positions /\ WellFormed(y) /\ y \in Node /\ PointsWithin(y, h.last) /\ y = nodes[q]
  BY <1>1, ChildIs DEF Child
<1>3. /\ cur = nodes[cur.pos] /\ WellFormed(cur) /\ ~IsFull(cur) /\ cur.pos \in InUse /\ q \in InUse
  <2>1. cur.pos \in Positions /\ cur.pos <= h.last /\ q <= h.last
    BY IndInvFacts, SMT DEF Node, PointsWithin
  <2> QED BY <1>1, <1>2, <2>1, IndInvFacts, SMT
      DEF PlaceInv, WritesBack, IndInv, FullOnlyWhenExhausted, InUse, Positions
<1>4. y.pos = q /\ nodes[cur.pos].pos = cur.pos /\ q # cur.pos
  <2>1. ~IsChild(cur.pos, cur.pos, i)
    BY <1>1, <1>3, PlacesExact
  <2> QED BY <1>1, <1>2, <1>3, <2>1, PlacesExact DEF IsChild
<1>5. z \in Positions /\ z \notin InUse /\ InUse \subseteq Positions /\ 0 .. z = InUse \cup {z}
  BY <1>1, IndInvFacts, InUseMore, NumNodesAssumption, SMT DEF NoBlockLeft, Positions
<1>6. cur.pos # z /\ y.pos # z
  BY <1>3, <1>4, <1>5
<1>7. h \in Header /\ nodes \in [Positions -> Node]
  BY IndInvFacts
<1> HIDE DEF y
<1>8. /\ nodes'[cur.pos] = WithChildAfter(cur, i, y.records[T - 1], z)
      /\ nodes'[y.pos] = LowerHalf(y) /\ nodes'[z] = UpperHalf(y, i, z)
      /\ \A p \in Positions : p \notin {cur.pos, y.pos, z} => nodes'[p] = nodes[p]
      /\ h'.last = z
  BY <1>1, <1>3, <1>4, <1>5, <1>6, <1>7, SplitExact
<1>9. InUse' = InUse \cup {cur.pos, z}
  BY <1>3, <1>5, <1>8 DEF InUse
<1>10. SplitIn(cur, i, y, z)
  BY <1>1, <1>2, <1>3, <1>4, <1>5, <1>6, <1>8, <1>9 DEF SplitIn
<1> QED BY <1>1, <1>2, <1>8, <1>10 DEF y

LEMMA GrowStepIn ==
  ASSUME IndInv, PlaceInv, NEW k \in Keys, NEW v \in Values, InsertGrow(k, v)
  PROVE  LET old == nodes[h.root]
         IN  /\ SplitIn(NewRoot(old.pos, h.last + 1), 0, old, h.last + 2)
             /\ Created /\ ~NoBlockLeft(h) /\ PointsWithin(old, h.last) /\ old.pos = h.root
             /\ cur' = nodes'[h.last + 1]
<1> DEFINE old == nodes[h.root]
           new == NewRoot(old.pos, h.last + 1)
           up  == [root |-> new.pos, last |-> new.pos]
           z   == h.last + 2
<1>1. /\ Created /\ IsFull(old) /\ ~NoBlockLeft(h) /\ ~NoBlockLeft(up) /\ SplitChild(up, new, 0, old)
      /\ cur' = WithChildAfter(new, 0, old.records[T - 1], up.last + 1)
  BY DEF InsertGrow, Created
<1>2. /\ WellFormed(old) /\ old \in Node /\ PointsWithin(old, h.last) /\ h.root \in InUse
      /\ h.last + 1 \in Positions /\ h.last \in Int
  BY <1>1, IndInvFacts, NumNodesAssumption, SMT DEF NoBlockLeft, Positions, InUse
<1>3. old.pos = h.root
  BY <1>1, <1>2, PlacesExact
<1>4. old.pos \in Positions
  BY <1>3, IndInvFacts
<1>5. /\ WellFormed(new) /\ new.n = 0 /\ ~IsFull(new) /\ new.pos = h.last + 1
      /\ \A j \in ChildSlots : new.children[j] = IF j = 0 THEN old.pos ELSE NoChild
  BY <1>2, <1>4, NewRootIs
<1>6. /\ up \in Header /\ up.last = h.last + 1 /\ up.last + 1 = z /\ z \in Positions
  BY <1>1, <1>2, <1>5, NumNodesAssumption, SMT DEF NoBlockLeft, Positions, Header
<1> HIDE DEF old, new, up
<1>7. /\ new.pos \notin InUse /\ z \notin InUse /\ z # new.pos /\ old.pos # new.pos /\ old.pos # z
      /\ 0 .. z = InUse \cup {new.pos, z} /\ InUse \subseteq Positions
  BY <1>2, <1>3, <1>5, InUseMore, SMT
<1>8. nodes \in [Positions -> Node] /\ new.pos \in Positions
  BY <1>2, <1>5, IndInvFacts
<1>9. /\ nodes'[new.pos] = WithChildAfter(new, 0, old.records[T - 1], z)
      /\ nodes'[old.pos] = LowerHalf(old) /\ nodes'[z] = UpperHalf(old, 0, z)
      /\ \A p \in Positions : p \notin {new.pos, old.pos, z} => nodes'[p] = nodes[p]
      /\ h'.last = z
  <2>1. up.last + 1 \in Positions /\ new.pos # up.last + 1 /\ old.pos # up.last + 1
    BY <1>6, <1>7
  <2>2. /\ nodes'[new.pos] = WithChildAfter(new, 0, old.records[T - 1], up.last + 1)
        /\ nodes'[old.pos] = LowerHalf(old) /\ nodes'[up.last + 1] = UpperHalf(old, 0, up.last + 1)
        /\ \A p \in Positions : p \notin {new.pos, old.pos, up.last + 1} => nodes'[p] = nodes[p]
        /\ h'.last = up.last + 1
    BY <1>1, <1>4, <1>6, <1>7, <1>8, <2>1, SplitExact
  <2> QED BY <1>6, <2>2
<1>10. InUse' = InUse \cup {new.pos, z}
  BY <1>7, <1>9 DEF InUse
<1>11. 0 \in ChildSlots /\ 0 <= new.n /\ new.children[0] = old.pos
  BY <1>5, Sizes, SMT
<1>12. old.pos \in InUse /\ old = nodes[old.pos]
  BY <1>2, <1>3 DEF old
<1>13. SplitIn(new, 0, old, z)
  BY <1>1, <1>2, <1>5, <1>6, <1>7, <1>9, <1>10, <1>11, <1>12 DEF SplitIn
<1>14. cur' = nodes'[h.last + 1]
  BY <1>1, <1>5, <1>6, <1>9
<1> QED BY <1>1, <1>2, <1>3, <1>13, <1>14 DEF old, new

LEMMA PlaceUnchanged ==
  ASSUME PlaceInv, UNCHANGED <<nodes, h>>, Created,
         pc' = "insert" => cur' = nodes[cur'.pos] \/ (NoBlockLeft(h) /\ ~cur'.isLeaf)
  PROVE  PlaceInv'
<1>1. Places'
  BY Zenon DEF PlaceInv, Places, PlacedAt, IsChild, InUse, NoBlockLeft
<1>2. Unwritten' /\ WritesBack'
  BY Zenon DEF PlaceInv, Unwritten, WritesBack, NoBlockLeft
<1> QED BY <1>1, <1>2 DEF PlaceInv

(* A copy read from a block in use can be written back to its own place.   *)
LEMMA CopyPlaced ==
  ASSUME PlaceInv, Created, NEW p \in InUse
  PROVE  nodes[p] = nodes[nodes[p].pos] \/ (NoBlockLeft(h) /\ ~nodes[p].isLeaf)
BY DEF PlaceInv, Places, PlacedAt

LEMMA PlaceSplit ==
  ASSUME IndInv, PlaceInv, [Next]_vars, Created, ~NoBlockLeft(h),
         NEW x, NEW i, NEW y, NEW z, SplitIn(x, i, y, z), z > h.last, PointsWithin(y, h.last),
         NEW p \in InUse', cur' = nodes'[p]
  PROVE  PlaceInv'
<1>1. z # y.pos
  BY DEF SplitIn
<1>2. /\ \A b \in InUse' : nodes'[b].pos = b
      /\ \A b \in InUse', j \in ChildSlots : ~IsChild(b, b, j)'
  BY <1>1, PlacesExact, SplitInPlaces
<1>3. h.last <= h'.last /\ \A b \in Positions : b > h'.last => nodes'[b] = nodes[b]
  BY BlocksStep
<1>4. ASSUME NEW b \in Positions, b > h'.last PROVE nodes'[b] = ZeroNode
  <2>1. h'.last = z /\ z \in Int /\ b \in Int /\ h.last \in Int
    BY IndInvFacts, SMT DEF SplitIn, Positions
  <2>2. b > h.last
    BY <1>3, <1>4, <2>1, SMT
  <2> QED BY <1>3, <1>4, <2>2 DEF PlaceInv, Unwritten
<1>5. cur' = nodes'[cur'.pos]
  BY <1>2
<1> QED BY <1>2, <1>4, <1>5 DEF PlaceInv, Places, PlacedAt, Unwritten, WritesBack

LEMMA PlaceInit == Init => PlaceInv
<1> SUFFICES ASSUME Init PROVE PlaceInv
  OBVIOUS
<1> QED BY DEF Init, PlaceInv, Created, Unwritten, WritesBack

LEMMA PlaceCreate == ASSUME IndInv, PlaceInv, OpenCreate PROVE PlaceInv'
<1>1. /\ nodes' = [nodes EXCEPT ![0] = InitNode] /\ h' = [root |-> 0, last |-> 0] /\ pc' = "idle"
      /\ h.last = 0
  BY DEF OpenCreate, IndInv
<1>2. nodes'[0] = InitNode /\ h'.last = 0 /\ InUse' = {0}
  <2>1. nodes'[0] = InitNode /\ h'.last = 0
    BY <1>1, IndInvFacts, Sizes, SMT
  <2>2. 0 .. 0 = {0}
    BY SMT
  <2> QED BY <2>1, <2>2 DEF InUse
<1>3. Places'
  BY <1>2 DEF Places, PlacedAt, IsChild, InitNode
<1>4. ASSUME NEW p \in Positions, p > 0 PROVE nodes'[p] = ZeroNode
  <2>1. p # 0 /\ nodes'[p] = nodes[p]
    BY <1>1, <1>4, IndInvFacts, SMT
  <2> QED BY <1>1, <1>4, <2>1 DEF PlaceInv, Unwritten
<1> QED BY <1>1, <1>2, <1>3, <1>4 DEF PlaceInv, Unwritten, WritesBack

(* The root that takes the last block is not written: its block still      *)
(* reads as the reservation left it.                                       *)
LEMMA PlaceGrowLast ==
  ASSUME IndInv, PlaceInv, NEW k \in Keys, NEW v \in Values, InsertGrowLast(k, v)
  PROVE  PlaceInv' /\ Stored' = Stored
<1> DEFINE new == NewRoot(nodes[h.root].pos, h.last + 1)
<1>1. /\ Created /\ nodes' = nodes /\ h'.last = h.last + 1 /\ ~NoBlockLeft(h) /\ NoBlockLeft(h')
      /\ cur' = new /\ new.pos = h.last + 1 /\ ~new.isLeaf
  BY SMT DEF InsertGrowLast, NewRoot, NoBlockLeft, Created
<1>2. h.last + 1 \in Positions /\ h.last \in Int /\ h.last + 1 > h.last /\ h.last + 1 # 0
  BY <1>1, IndInvFacts, NumNodesAssumption, SMT DEF NoBlockLeft, Positions
<1>3. nodes[h.last + 1] = ZeroNode
  BY <1>2 DEF PlaceInv, Unwritten
<1>4. InUse' = InUse \cup {h.last + 1}
  BY <1>1, InUseMore DEF InUse
<1>5. \A p \in InUse' : PlacedAt(p)'
  <2>1. \A p \in InUse : nodes[p].pos = p
    BY <1>1, PlacesExact
  <2>2. ~ZeroNode.isLeaf
    BY DEF ZeroNode
  <2> QED BY <1>1, <1>3, <1>4, <2>1, <2>2 DEF PlacedAt
<1>6. \A p \in InUse', j \in ChildSlots : ~IsChild(p, p, j)'
  <2>1. \A p \in InUse, j \in ChildSlots : ~IsChild(p, p, j)
    BY <1>1, PlacesExact
  <2>2. \A j \in ChildSlots : ZeroNode.children[j] = 0
    BY DEF ZeroNode
  <2> QED BY <1>1, <1>2, <1>3, <1>4, <2>1, <2>2 DEF IsChild
<1>7. Unwritten'
  <2> SUFFICES ASSUME NEW p \in Positions, p > h.last + 1 PROVE nodes[p] = ZeroNode
    BY <1>1 DEF Unwritten
  <2>1. p > h.last
    BY <1>2, SMT DEF Positions
  <2> QED BY <2>1 DEF PlaceInv, Unwritten
<1>8. PlaceInv'
  BY <1>1, <1>5, <1>6, <1>7 DEF PlaceInv, Places, WritesBack
<1>9. Live(ZeroNode) = {}
  BY SMT DEF Live, ZeroNode, Slots
<1>10. Held(ZeroNode) = {}
  BY <1>9 DEF Held
<1>11. Stored' = UNION {Held(nodes[p]) : p \in InUse \cup {h.last + 1}}
  BY <1>1, <1>4 DEF Stored, Held, Live
<1>12. Stored' = Stored
  BY <1>3, <1>10, <1>11, StoredIs
<1> QED BY <1>8, <1>12

(* The leaf that takes the record is the one on file.                      *)
LEMMA PlaceStore ==
  ASSUME IndInv, PlaceInv, NEW i \in -1 .. MaxRecords - 1, InsertStore(i)
  PROVE  PlaceInv' /\ Stored' = Stored \cup {arg}
<1> DEFINE new == WithRecordAfter(cur, i, arg)
<1>1. pc = "insert" /\ arg \in Record /\ ~IsFull(cur) /\ cur.isLeaf /\ Created
  BY DEF InsertStore, InsertsAfter, IndInv, Created
<1>2. i \in Int /\ -1 <= i /\ i < cur.n
  BY IndInvFacts, NodeInts, Sizes, SMT DEF InsertStore, InsertsAfter, InsertScanStops
<1>3. /\ new.pos = cur.pos /\ new.isLeaf /\ Held(new) = Held(cur) \cup {arg}
  BY <1>1, <1>2, IndInvFacts, WithRecordAfterIs, LeafHeld
<1>4. nodes' = [nodes EXCEPT ![cur.pos] = new] /\ h' = h /\ pc' = "idle"
  BY DEF InsertStore, Return
<1>5. /\ cur = nodes[cur.pos] /\ cur.pos \in InUse /\ InUse \subseteq Positions /\ h.last \in Int
  <2>1. cur.pos \in Positions /\ cur.pos <= h.last
    BY IndInvFacts, SMT DEF Node, PointsWithin
  <2> QED BY <1>1, <2>1, IndInvFacts, InUseMore, SMT DEF PlaceInv, WritesBack, InUse, Positions
<1> HIDE DEF new
<1>6. nodes'[cur.pos] = new /\ \A p \in Positions : p # cur.pos => nodes'[p] = nodes[p]
  BY <1>4, <1>5, IndInvFacts, SMT
<1>7. \A p \in Positions : p > h.last => p # cur.pos
  BY <1>5, SMT DEF InUse, Positions
<1>8. Unwritten'
  BY <1>4, <1>6, <1>7 DEF PlaceInv, Unwritten
<1>9. \A p \in InUse : nodes'[p].pos = nodes[p].pos /\ (nodes'[p].isLeaf <=> nodes[p].isLeaf)
  <2> SUFFICES ASSUME NEW p \in InUse
               PROVE  nodes'[p].pos = nodes[p].pos /\ (nodes'[p].isLeaf <=> nodes[p].isLeaf)
    OBVIOUS
  <2>1. CASE p = cur.pos
    BY <1>1, <1>3, <1>5, <1>6, <2>1
  <2>2. CASE p # cur.pos
    BY <1>5, <1>6, <2>2
  <2> QED BY <2>1, <2>2
<1>10. \A p \in InUse : PlacedAt(p)'
  BY <1>1, <1>4, <1>9 DEF PlaceInv, Places, PlacedAt, NoBlockLeft
<1>11. \A p \in InUse, j \in ChildSlots : ~IsChild(p, p, j)'
  <2> SUFFICES ASSUME NEW p \in InUse, NEW j \in ChildSlots, IsChild(p, p, j)' PROVE FALSE
    OBVIOUS
  <2>1. p # cur.pos
    BY <1>3, <1>6 DEF IsChild
  <2>2. IsChild(p, p, j)
    BY <1>5, <1>6, <2>1 DEF IsChild
  <2> QED BY <1>1, <2>2 DEF PlaceInv, Places
<1>12. PlaceInv'
  BY <1>4, <1>8, <1>10, <1>11 DEF PlaceInv, Places, WritesBack, InUse
<1>13. Stored' = UNION {Held(nodes'[p]) : p \in InUse}
  BY <1>4 DEF Stored, Held, Live, InUse
<1>14. \A p \in InUse : Held(nodes'[p]) = IF p = cur.pos THEN Held(nodes[p]) \cup {arg} ELSE Held(nodes[p])
  BY <1>3, <1>5, <1>6
<1>15. Stored' = Stored \cup {arg}
  BY <1>5, <1>13, <1>14, StoredIs
<1> QED BY <1>12, <1>15

-----------------------------------------------------------------------------
(* Every step keeps the places and the records.                            *)

(* What a step does to the records. *)
Kept == Stored \subseteq Stored' /\ Stored' \subseteq Stored \cup {arg}

(* The other steps write no block. *)
LEMMA QuietStep ==
  ASSUME IndInv, PlaceInv, Next
  PROVE  \/ /\ UNCHANGED <<nodes, h>> /\ Created
            /\ pc' = "insert" => cur' = nodes[cur'.pos] \/ (NoBlockLeft(h) /\ ~cur'.isLeaf)
         \/ OpenCreate
         \/ \E k \in Keys, v \in Values : InsertGrow(k, v) \/ InsertGrowLast(k, v)
         \/ \E i \in ChildSlots : InsertSplit(i)
         \/ \E i \in -1 .. MaxRecords - 1 : InsertStore(i)
<1> DEFINE Quiet == /\ UNCHANGED <<nodes, h>> /\ Created
                    /\ pc' = "insert" => cur' = nodes[cur'.pos] \/ (NoBlockLeft(h) /\ ~cur'.isLeaf)
<1>1. ASSUME OpenExisting \/ Close \/ InsertRefused \/ \E k \in Keys : SearchBegin(k) PROVE Quiet
  <2>1. ASSUME OpenExisting PROVE Quiet
    BY <2>1 DEF OpenExisting, IndInv, HeaderIsCurrent, Created
  <2>2. ASSUME Close \/ InsertRefused \/ \E k \in Keys : SearchBegin(k) PROVE Quiet
    BY <2>2 DEF Close, InsertRefused, Return, SearchBegin, Created
  <2> QED BY <1>1, <2>1, <2>2
<1>2. ASSUME NEW k \in Keys, NEW v \in Values, InsertBegin(k, v) PROVE Quiet
  <2>1. UNCHANGED <<nodes, h>> /\ Created /\ cur' = nodes[h.root]
    BY <1>2 DEF InsertBegin, Created
  <2>2. h.root \in InUse
    BY IndInvFacts, SMT DEF InUse, Positions
  <2> QED BY <2>1, <2>2, CopyPlaced
<1>3. ASSUME NEW i \in ChildSlots, InsertDescend(i) \/ InsertNoSplit(i) PROVE Quiet
  <2>1. UNCHANGED <<nodes, h>> /\ Created /\ cur' = Child(i) /\ cur.children[i] # NoChild
    BY <1>3 DEF InsertDescend, InsertNoSplit, InsertsBelow, Created
  <2>2. cur.children[i] \in InUse
    BY <2>1, ChildIs, IndInvFacts, SMT DEF PointsWithin, InUse, Positions
  <2> QED BY <2>1, <2>2, CopyPlaced DEF Child
<1>4. ASSUME NEW i \in ChildSlots, InsertStrays(i) \/ InsertReadsHeader(i) \/ SearchReadsHeader(i)
      PROVE  Quiet
  BY <1>4 DEF InsertStrays, InsertReadsHeader, SearchReadsHeader, InsertsBelow, SearchesAt,
              GoesUndefined, Created
<1>5. ASSUME NEW i \in -1 .. MaxRecords - 1, InsertDuplicate(i) \/ InsertOverflows(i) PROVE Quiet
  BY <1>5 DEF InsertDuplicate, InsertOverflows, InsertsAfter, Return, GoesUndefined, Created
<1>6. ASSUME NEW i \in ChildSlots, SearchFound(i) \/ SearchMissing(i) \/ SearchDescend(i)
      PROVE  Quiet
  BY <1>6 DEF SearchFound, SearchMissing, SearchDescend, SearchesAt, Return, Created
<1> HIDE DEF Quiet
<1>7. CASE Call
  BY <1>1, <1>2, <1>7, Zenon DEF Call, Quiet
<1>8. CASE InsertStep
  BY <1>3, <1>4, <1>5, <1>8, Zenon DEF InsertStep, Quiet
<1>9. CASE SearchStep
  BY <1>4, <1>6, <1>9, Zenon DEF SearchStep, Quiet
<1> QED BY <1>7, <1>8, <1>9 DEF Next

LEMMA PlaceNext ==
  ASSUME IndInv, PlaceInv, [Next]_vars
  PROVE  PlaceInv' /\ (Created => Kept)
<1>1. ASSUME nodes' = nodes, h' = h PROVE Kept
  BY <1>1 DEF Kept, Stored, InUse, Live
<1>2. CASE UNCHANGED vars
  <2>1. UNCHANGED <<nodes, h, pc, cur>>
    BY <1>2 DEF vars
  <2>2. PlaceInv'
    BY <2>1, Zenon DEF PlaceInv, Places, PlacedAt, Unwritten, WritesBack, IsChild, InUse, NoBlockLeft, Created
  <2> QED BY <1>1, <2>1, <2>2
<1>3. ASSUME OpenCreate PROVE PlaceInv' /\ ~Created
  BY <1>3, PlaceCreate DEF OpenCreate, Created
<1>4. ASSUME NEW k \in Keys, NEW v \in Values, InsertGrow(k, v) PROVE PlaceInv' /\ Kept
  <2> DEFINE old == nodes[h.root]
             new == NewRoot(old.pos, h.last + 1)
             z   == h.last + 2
  <2>1. /\ SplitIn(new, 0, old, z) /\ Created /\ ~NoBlockLeft(h) /\ PointsWithin(old, h.last)
        /\ cur' = nodes'[h.last + 1]
    BY <1>4, GrowStepIn
  <2>2. new.pos = h.last + 1
    BY DEF NewRoot
  <2> HIDE DEF old, new
  <2>3. h.last + 1 \in InUse' /\ z > h.last
    BY <2>1, <2>2, IndInvFacts, SMT DEF SplitIn
  <2>4. PlaceInv'
    BY <2>1, <2>3, PlaceSplit
  <2>5. Stored' = Stored
    BY <2>1, SplitInRecords
  <2> QED BY <2>4, <2>5 DEF Kept
<1>5. ASSUME NEW i \in ChildSlots, InsertSplit(i) PROVE PlaceInv' /\ Kept
  <2>1. /\ SplitIn(cur, i, Child(i), h.last + 1)
        /\ pc = "insert" /\ ~NoBlockLeft(h) /\ PointsWithin(Child(i), h.last)
        /\ cur' \in {nodes'[Child(i).pos], nodes'[h.last + 1]}
    BY <1>5, SplitStepIn
  <2>2. Child(i).pos \in InUse' /\ h.last + 1 \in InUse' /\ h.last + 1 > h.last /\ Created
    BY <2>1, IndInvFacts, SMT DEF SplitIn, Created
  <2>3. PlaceInv'
    BY <2>1, <2>2, PlaceSplit
  <2>4. Stored' = Stored
    BY <2>1, SplitInRecords
  <2> QED BY <2>3, <2>4 DEF Kept
<1>6. ASSUME NEW k \in Keys, NEW v \in Values, InsertGrowLast(k, v) PROVE PlaceInv' /\ Kept
  BY <1>6, PlaceGrowLast DEF Kept
<1>7. ASSUME NEW i \in -1 .. MaxRecords - 1, InsertStore(i) PROVE PlaceInv' /\ Kept
  BY <1>7, PlaceStore DEF Kept
<1>8. CASE Next
  BY <1>1, <1>3, <1>4, <1>5, <1>6, <1>7, <1>8, QuietStep, PlaceUnchanged
<1> QED BY <1>2, <1>8

LEMMA PlaceInvariance == Spec => []PlaceInv
<1>1. IndInv /\ PlaceInv /\ [Next]_vars => PlaceInv'
  BY PlaceNext
<1> QED
  BY <1>1, PlaceInit, Invariance, PTL DEF Spec

(* In a tree of any depth, of any node size, no step loses a record and    *)
(* none adds another than the one being inserted: the shifts, the splits   *)
(* (of inner nodes too, which do lose children) and the growth of the root *)
(* move records between blocks, and every write lands in the block the     *)
(* node was read from or was just given.                                   *)
THEOREM RecordsStay == Spec => RecordsKept
<1>1. IndInv /\ PlaceInv /\ [Next]_vars
        => [Created => /\ Stored \subseteq Stored'
                       /\ Stored' \subseteq Stored \cup {arg}]_vars
  BY PlaceNext DEF Kept
<1> QED
  BY <1>1, Invariance, PlaceInvariance, PTL DEF Spec, RecordsKept

(* The root may be any node of the split but the child.                    *)
LEMMA SplitInHalves ==
  ASSUME IndInv, HalfFull, Created, NEW x, NEW i, NEW y, NEW z, SplitIn(x, i, y, z),
         \/ h'.root = h.root /\ x.pos \in InUse
         \/ h'.root = x.pos /\ h.root = y.pos
  PROVE  HalfFull'
<1>1. /\ x.n \in Int /\ LowerHalf(y).n = T - 1 /\ UpperHalf(y, i, z).n = T - 1
      /\ WithChildAfter(x, i, y.records[T - 1], z).n = x.n + 1
      /\ T - 1 \in Int /\ T - 1 >= T - 1
  <2>1. y.records[T - 1] \in Record /\ x.n \in Int
    BY Sizes, NodeInts, SMT DEF SplitIn, WellFormed, IsFull
  <2> QED BY <2>1, LowerHalfIs, UpperHalfIs, WithChildAfterIs, TAssumption, SMT DEF SplitIn
<1>2. ASSUME NEW p \in InUse', p # h'.root PROVE nodes'[p].n >= T - 1
  <2>1. CASE p \in {y.pos, z}
    BY <1>1, <2>1 DEF SplitIn
  <2>2. CASE p = x.pos /\ p # y.pos
    <3>1. p \in InUse /\ p # h.root /\ nodes[p] = x
      BY <1>2, <2>2 DEF SplitIn
    <3>2. x.n >= T - 1 /\ nodes'[p].n = x.n + 1
      BY <1>1, <2>2, <3>1 DEF HalfFull, SplitIn
    <3> QED BY <1>1, <3>2, SMT
  <2>3. CASE p \notin {x.pos, y.pos, z}
    <3>1. p \in InUse /\ p # h.root /\ nodes'[p] = nodes[p]
      BY <1>2, <2>3 DEF SplitIn
    <3> QED BY <3>1 DEF HalfFull
  <2> QED BY <2>1, <2>2, <2>3
<1> QED BY <1>2 DEF HalfFull

LEMMA HalvesNext ==
  ASSUME IndInv, PlaceInv, HalfFull, [Next]_vars
  PROVE  HalfFull'
<1>1. ASSUME nodes' = nodes, h' = h, Created PROVE HalfFull'
  BY <1>1 DEF HalfFull, InUse
<1>2. CASE UNCHANGED vars
  <2>1. nodes' = nodes /\ h' = h /\ pc' = pc
    BY <1>2 DEF vars
  <2> QED BY <2>1 DEF HalfFull, InUse, Created
<1>3. ASSUME OpenCreate PROVE HalfFull'
  <2>1. h'.root = 0 /\ h'.last = 0
    BY <1>3 DEF OpenCreate
  <2>2. \A p \in 0 .. h'.last : p = h'.root
    BY <2>1, SMT
  <2> QED BY <2>2 DEF HalfFull, InUse
<1>4. ASSUME NEW k \in Keys, NEW v \in Values, InsertGrow(k, v) PROVE HalfFull'
  <2> DEFINE old == nodes[h.root]
             new == NewRoot(old.pos, h.last + 1)
  <2>1. /\ SplitIn(new, 0, old, h.last + 2) /\ Created /\ old.pos = h.root
    BY <1>4, GrowStepIn
  <2>2. h'.root = new.pos
    BY <1>4 DEF InsertGrow, SplitChild
  <2> HIDE DEF old, new
  <2> QED BY <2>1, <2>2, SplitInHalves
<1>5. ASSUME NEW i \in ChildSlots, InsertSplit(i) PROVE HalfFull'
  <2>1. SplitIn(cur, i, Child(i), h.last + 1) /\ pc = "insert" /\ ~NoBlockLeft(h)
    BY <1>5, SplitStepIn
  <2>2. h'.root = h.root /\ Created
    BY <1>5, <2>1, IndInvFacts DEF InsertSplit, SplitChild, Header, Created
  <2>3. cur.pos \in InUse
    BY IndInvFacts, SMT DEF Node, PointsWithin, InUse, Positions
  <2> QED BY <2>1, <2>2, <2>3, SplitInHalves
<1>6. ASSUME NEW k \in Keys, NEW v \in Values, InsertGrowLast(k, v) PROVE HalfFull'
  <2>1. /\ nodes' = nodes /\ h'.root = h.last + 1 /\ h'.last = h.last + 1 /\ Created
        /\ nodes[h.root].n = MaxRecords
    BY <1>6 DEF InsertGrowLast, NewRoot, IsFull, Created
  <2>2. InUse' = InUse \cup {h.last + 1}
    BY <2>1, InUseMore DEF InUse
  <2>3. MaxRecords >= T - 1
    BY TAssumption, SMT DEF MaxRecords
  <2> QED BY <2>1, <2>2, <2>3 DEF HalfFull
<1>7. ASSUME NEW i \in -1 .. MaxRecords - 1, InsertStore(i) PROVE HalfFull'
  <2>1. /\ pc = "insert" /\ cur.isLeaf /\ nodes' = [nodes EXCEPT ![cur.pos] = WithRecordAfter(cur, i, arg)]
        /\ h' = h /\ Created
    BY <1>7 DEF InsertStore, InsertsAfter, Created
  <2>2. WithRecordAfter(cur, i, arg).n = cur.n + 1
    BY DEF WithRecordAfter
  <2>3. cur = nodes[cur.pos] /\ cur.pos \in Positions /\ cur.n \in Int /\ InUse \subseteq Positions
    BY <2>1, IndInvFacts, NodeInts, InUseMore DEF PlaceInv, WritesBack, Node
  <2>4. ASSUME NEW p \in InUse, p # h.root PROVE nodes'[p].n >= T - 1
    <3>1. nodes[p].n >= T - 1
      BY <2>1, <2>4 DEF HalfFull
    <3>2. CASE p = cur.pos
      <4>1. nodes'[p].n = cur.n + 1 /\ cur.n >= T - 1
        BY <2>1, <2>2, <2>3, <3>1, <3>2, IndInvFacts
      <4> QED BY <2>3, <4>1, TAssumption, SMT
    <3>3. CASE p # cur.pos
      BY <2>1, <2>3, <3>1, <3>3, IndInvFacts
    <3> QED BY <3>2, <3>3
  <2> QED BY <2>1, <2>4 DEF HalfFull, InUse
<1>8. CASE Next
  BY <1>1, <1>3, <1>4, <1>5, <1>6, <1>7, <1>8, QuietStep
<1> QED BY <1>2, <1>8

(* In such a tree every block in use but the root's keeps at least T-1     *)
(* records: a split halves, nothing else removes.  Its new parent was a    *)
(* node with T-1 records already, or is the root.                          *)
THEOREM StaysHalfFull == Spec => []HalfFull
<1>1. Init => HalfFull
  BY DEF Init, HalfFull, Created
<1>2. IndInv /\ PlaceInv /\ HalfFull /\ [Next]_vars => HalfFull'
  BY HalvesNext
<1> QED
  BY <1>1, <1>2, Invariance, PlaceInvariance, PTL DEF Spec
=============================================================================
