------------------------- MODULE ReplayFormatProofs -------------------------
(***************************************************************************)
(* Where the records of a replay start and which of them can be read, for   *)
(* every replay: facts that the proofs about its readers rest on.           *)
(***************************************************************************)
EXTENDS ReplayFormat, WellFoundedInduction, TLAPS

(* A set of natural numbers has a least element.                            *)
LEMMA LeastElement ==
    ASSUME NEW M \in SUBSET Nat, M # {}
    PROVE  \E m \in M : \A k \in M : m <= k
<1>1. PICK m \in M : \A k \in M : <<k, m>> \notin OpToRel(<, Nat)
  BY WFMin, NatLessThanWellFounded, Zenon
<1>2. \A k \in M : ~(k < m)
  BY <1>1, Zenon DEF OpToRel
<1>3. QED
  BY <1>2

(* Induction over the natural numbers, for a set of them.                   *)
LEMMA SetInduction ==
    ASSUME NEW T \in SUBSET Nat, 0 \in T, \A n \in T : n + 1 \in T
    PROVE  T = Nat
<1>1. SUFFICES ASSUME Nat \ T # {} PROVE FALSE
  OBVIOUS
<1>2. PICK m \in Nat \ T : \A k \in Nat \ T : m <= k
  BY <1>1, LeastElement
<1>3. m - 1 \in T
  BY <1>2
<1>4. QED
  BY <1>2, <1>3

Records == [kind : Kinds, size : Nat \ {0}, logs : Nat, sound : BOOLEAN]

(* A replay is a sequence of records, at least one.                         *)
LEMMA ReplayType ==
    ASSUME NEW f \in Replays
    PROVE  /\ f \in Seq(Records) /\ Len(f) \in Nat \ {0}
           /\ \A i \in 1 .. Len(f) : f[i] \in Records /\ f[i].size \in Nat \ {0}
           /\ \A i \in 1 .. Len(f) : f[i].kind = "end" => f[i].size = EndSize
<1>1. f \in Seq(Records) /\ Len(f) > 0
  BY ReplayAssumption DEF Records
<1>2. Len(f) \in Nat \ {0}
  BY <1>1
<1>3. \A i \in 1 .. Len(f) : f[i] \in Records
  BY <1>1
<1>4. \A r \in Records : r.size \in Nat \ {0}
  BY DEF Records
<1>5. \A i \in 1 .. Len(f) : f[i].kind = "end" => f[i].size = EndSize
  BY ReplayAssumption
<1>6. QED
  BY <1>1, <1>2, <1>3, <1>4, <1>5

-----------------------------------------------------------------------------
(* Where records start.                                                     *)

(* The recursion that StartOf is defined by: the first record starts at 0,   *)
(* and every record where the one before it ends.                            *)
LEMMA StartsAddUp ==
    ASSUME NEW f \in Replays
    PROVE  /\ StartOf(f, 1) = 0
           /\ \A i \in 1 .. Len(f) : StartOf(f, i + 1) = StartOf(f, i) + f[i].size
           /\ \A i \in 1 .. Len(f) + 1 : StartOf(f, i) \in Nat
<1> DEFINE Value(e, k) == IF k = 0 THEN 0 ELSE e[k - 1] + f[k].size
           Defined(n) == \E e : e = [k \in 0 .. n |-> Value(e, k)]
           T == {n \in Nat : n <= Len(f) => Defined(n)}
<1>1. 0 \in T
  <2> DEFINE e == [k \in 0 .. 0 |-> 0]
  <2>1. e = [k \in 0 .. 0 |-> Value(e, k)]
    OBVIOUS
  <2>2. QED
    BY <2>1
<1>2. ASSUME NEW n \in T, n + 1 <= Len(f)
      PROVE  Defined(n + 1)
  <2>1. PICK e : e = [k \in 0 .. n |-> Value(e, k)]
    BY <1>2
  <2> DEFINE g == [k \in 0 .. n + 1 |-> IF k <= n THEN e[k] ELSE Value(e, k)]
  <2>2. ASSUME NEW k \in 0 .. n + 1 PROVE g[k] = Value(g, k)
    <3>1. CASE k = 0
      BY <2>1, <3>1
    <3>2. CASE k # 0 /\ k <= n
      <4>1. g[k] = e[k] /\ g[k - 1] = e[k - 1]
        BY <3>2
      <4>2. e[k] = Value(e, k)
        <5> HIDE DEF Value
        <5> QED BY <2>1, <3>2
      <4>3. QED
        BY <3>2, <4>1, <4>2
    <3>3. CASE k = n + 1
      <4>1. g[k] = Value(e, k) /\ g[k - 1] = e[k - 1]
        BY <3>3
      <4>2. QED
        BY <3>3, <4>1
    <3>4. QED
      BY <3>1, <3>2, <3>3
  <2>3. g = [k \in 0 .. n + 1 |-> Value(g, k)]
    <3> DEFINE h == [k \in 0 .. n + 1 |-> Value(g, k)]
    <3>1. \A k \in 0 .. n + 1 : g[k] = h[k]
      BY <2>2
    <3> HIDE DEF Value
    <3>2. QED
      BY <3>1
  <2>4. QED
    BY <2>3
<1>3. Defined(Len(f))
  <2> HIDE DEF Defined
  <2>1. \A n \in T : n + 1 \in T
    BY <1>2
  <2>2. T \in SUBSET Nat
    OBVIOUS
  <2>3. T = Nat
    <3> HIDE DEF T
    <3> QED BY <1>1, <2>1, <2>2, SetInduction
  <2>4. QED
    BY <2>3, ReplayType
<1> DEFINE end == CHOOSE e : e = [k \in 0 .. Len(f) |-> Value(e, k)]
<1>4. end = [k \in 0 .. Len(f) |-> Value(end, k)]
  BY <1>3
<1>5. \A i : StartOf(f, i) = end[i - 1]
  BY DEF StartOf
<1> HIDE DEF end
<1>6. /\ end[0] = 0
      /\ \A k \in 1 .. Len(f) : end[k] = end[k - 1] + f[k].size
  <2>1. \A k \in 0 .. Len(f) : end[k] = Value(end, k)
    <3> HIDE DEF Value
    <3> QED BY <1>4
  <2>2. Len(f) \in Nat
    BY ReplayType
  <2> HIDE DEF Defined, T
  <2>3. end[0] = 0
    BY <2>1, <2>2
  <2>4. ASSUME NEW k \in 1 .. Len(f) PROVE end[k] = end[k - 1] + f[k].size
    <3>1. k \in 0 .. Len(f) /\ k # 0
      BY <2>2
    <3>2. end[k] = Value(end, k)
      <4> HIDE DEF Value
      <4> QED BY <2>1, <3>1
    <3>3. QED
      BY <3>1, <3>2
  <2>5. QED
    BY <2>3, <2>4
<1>7. \A i \in 1 .. Len(f) : StartOf(f, i + 1) = StartOf(f, i) + f[i].size
  <2>1. \A i \in 1 .. Len(f) : (i + 1) - 1 = i
    OBVIOUS
  <2>2. QED
    BY <1>5, <1>6, <2>1
<1> DEFINE R == {n \in Nat : n <= Len(f) => end[n] \in Nat}
<1>8. R = Nat
  <2>1. 0 \in R
    BY <1>6
  <2>2. \A n \in R : n + 1 \in R
    <3>1. ASSUME NEW n \in R, n + 1 <= Len(f) PROVE end[n + 1] \in Nat
      <4>1. n + 1 \in 1 .. Len(f) /\ (n + 1) - 1 = n /\ end[n] \in Nat
        BY <3>1, ReplayType
      <4>2. end[n + 1] = end[n] + f[n + 1].size /\ f[n + 1].size \in Nat
        BY <1>6, <4>1, ReplayType
      <4>3. QED
        BY <4>1, <4>2
    <3>2. QED
      BY <3>1
  <2>3. R \in SUBSET Nat
    OBVIOUS
  <2> HIDE DEF R
  <2>4. QED
    BY <2>1, <2>2, <2>3, SetInduction
<1>9. \A i \in 1 .. Len(f) + 1 : StartOf(f, i) \in Nat
  <2>1. \A i \in 1 .. Len(f) + 1 : i - 1 \in Nat /\ i - 1 <= Len(f)
    BY ReplayType
  <2>2. QED
    BY <1>5, <1>8, <2>1
<1>10. StartOf(f, 1) = 0
  BY <1>5, <1>6
<1>11. QED
  BY <1>7, <1>9, <1>10

(* A record starts after every record before it has ended.                   *)
LEMMA StartsInOrder ==
    ASSUME NEW f \in Replays, NEW i \in 1 .. Len(f), NEW j \in i + 1 .. Len(f) + 1
    PROVE  StartOf(f, i) + f[i].size <= StartOf(f, j)
<1>1. Len(f) \in Nat
  BY ReplayType
<1> DEFINE T == {n \in Nat : i + 1 + n <= Len(f) + 1 =>
                     StartOf(f, i + 1) <= StartOf(f, i + 1 + n)}
<1>2. 0 \in T
  <2>1. StartOf(f, i + 1) \in Nat /\ i + 1 + 0 = i + 1
    BY <1>1, StartsAddUp
  <2>2. QED
    BY <2>1
<1>3. \A n \in T : n + 1 \in T
  <2>1. SUFFICES ASSUME NEW n \in T, i + 1 + (n + 1) <= Len(f) + 1
                 PROVE  StartOf(f, i + 1) <= StartOf(f, i + 1 + (n + 1))
    OBVIOUS
  <2> DEFINE m == i + 1 + n
  <2>2. m \in 1 .. Len(f) /\ i + 1 + (n + 1) = m + 1 /\ i + 1 \in 1 .. Len(f) + 1
    BY <1>1, <2>1
  <2>3. StartOf(f, i + 1) <= StartOf(f, m)
    BY <1>1, <2>1
  <2> HIDE DEF m
  <2>4. /\ StartOf(f, m + 1) = StartOf(f, m) + f[m].size
        /\ StartOf(f, m) \in Nat /\ StartOf(f, i + 1) \in Nat
        /\ f[m].size \in Nat
    <3>1. m \in 1 .. Len(f) + 1
      BY <1>1, <2>2
    <3>2. QED
      BY <2>2, <3>1, StartsAddUp, ReplayType
  <2>5. StartOf(f, i + 1) <= StartOf(f, m + 1)
    BY <2>3, <2>4
  <2>6. QED
    BY <2>2, <2>5
<1>4. T = Nat
  <2>1. T \in SUBSET Nat
    OBVIOUS
  <2> HIDE DEF T
  <2>2. QED
    BY <1>2, <1>3, <2>1, SetInduction
<1>5. j - (i + 1) \in T /\ i + 1 + (j - (i + 1)) = j
  <2>1. j - (i + 1) \in Nat /\ i + 1 + (j - (i + 1)) = j
    BY <1>1
  <2> HIDE DEF T
  <2>2. QED
    BY <1>4, <2>1
<1>6. StartOf(f, i + 1) <= StartOf(f, j)
  BY <1>1, <1>5
<1>7. StartOf(f, i + 1) = StartOf(f, i) + f[i].size
  BY StartsAddUp
<1>8. QED
  BY <1>6, <1>7

(* A decoder at the start of a record takes the bytes there for this record, *)
(* and after the last record for none.                                       *)
LEMMA RecordsAreFound ==
    ASSUME NEW f \in Replays
    PROVE  /\ \A i \in 1 .. Len(f) : RecordAt(f, StartOf(f, i)) = f[i]
           /\ RecordAt(f, Bytes(f)).kind = "other"
<1>1. ASSUME NEW i \in 1 .. Len(f) + 1, NEW j \in 1 .. Len(f), j < i
      PROVE  StartOf(f, j) # StartOf(f, i)
  <2>1. i \in j + 1 .. Len(f) + 1 /\ j \in 1 .. Len(f) + 1
    BY <1>1, ReplayType
  <2>2. /\ StartOf(f, j) + f[j].size <= StartOf(f, i)
        /\ StartOf(f, j) \in Nat /\ StartOf(f, i) \in Nat
        /\ f[j].size \in Nat \ {0}
    BY <2>1, StartsInOrder, StartsAddUp, ReplayType
  <2>3. QED
    BY <2>2
<1>2. ASSUME NEW i \in 1 .. Len(f) PROVE RecordAt(f, StartOf(f, i)) = f[i]
  <2> DEFINE c == CHOOSE j \in 1 .. Len(f) : StartOf(f, j) = StartOf(f, i)
  <2>1. c \in 1 .. Len(f) /\ StartOf(f, c) = StartOf(f, i)
    OBVIOUS
  <2> HIDE DEF c
  <2>2. c = i
    <3>1. ~(c < i) /\ ~(i < c)
      BY <1>1, <2>1, ReplayType
    <3>2. QED
      BY <2>1, <3>1, ReplayType
  <2>3. RecordAt(f, StartOf(f, i)) = f[c]
    BY DEF RecordAt, c
  <2>4. QED
    BY <2>2, <2>3
<1>3. RecordAt(f, Bytes(f)).kind = "other"
  <2>1. Len(f) + 1 \in 1 .. Len(f) + 1 /\ \A j \in 1 .. Len(f) : j < Len(f) + 1
    BY ReplayType
  <2>2. ~\E j \in 1 .. Len(f) : StartOf(f, j) = Bytes(f)
    BY <1>1, <2>1 DEF Bytes
  <2>3. QED
    BY <2>2 DEF RecordAt
<1>4. QED
  BY <1>2, <1>3

-----------------------------------------------------------------------------
(* Which records can be read.                                               *)

(* Good records up to one that is not there or not good are the readable     *)
(* ones: how far a reader gets does not depend on how it gets there.         *)
LEMMA ReadableIs ==
    ASSUME NEW f \in Replays, NEW n \in Nat, NEW k \in 0 .. Len(f),
           \A i \in 1 .. k : Good(f, n, i),
           k < Len(f) => ~Good(f, n, k + 1)
    PROVE  Readable(f, n) = k
<1> DEFINE Up(j) == /\ \A i \in 1 .. j : Good(f, n, i)
                    /\ j < Len(f) => ~Good(f, n, j + 1)
           r == CHOOSE j \in 0 .. Len(f) : Up(j)
<1>1. Len(f) \in Nat
  BY ReplayType
<1>2. r \in 0 .. Len(f) /\ Up(r)
  <2>1. Up(k)
    OBVIOUS
  <2> HIDE DEF Up
  <2>2. QED
    BY <2>1
<1>3. Readable(f, n) = r
  BY DEF Readable
<1> HIDE DEF r
<1>4. ~(r < k)
  <2>1. r < k => r + 1 \in 1 .. k /\ r < Len(f)
    BY <1>1, <1>2
  <2>2. QED
    BY <1>2, <2>1
<1>5. ~(k < r)
  <2>1. k < r => k + 1 \in 1 .. r /\ k < Len(f)
    BY <1>1, <1>2
  <2>2. QED
    BY <1>2, <2>1
<1>6. QED
  BY <1>1, <1>2, <1>3, <1>4, <1>5

(* There are readable records up to one that is not there or not good.       *)
LEMMA ReadableExists ==
    ASSUME NEW f \in Replays, NEW n \in Nat
    PROVE  /\ Readable(f, n) \in 0 .. Len(f)
           /\ \A i \in 1 .. Readable(f, n) : Good(f, n, i)
           /\ Readable(f, n) < Len(f) => ~Good(f, n, Readable(f, n) + 1)
<1>1. Len(f) \in Nat
  BY ReplayType
<1> DEFINE M == {k \in 0 .. Len(f) : k < Len(f) => ~Good(f, n, k + 1)}
<1>2. Len(f) \in M /\ M \in SUBSET Nat
  BY <1>1
<1>3. PICK m \in M : \A k \in M : m <= k
  <2> HIDE DEF M
  <2> QED BY <1>2, LeastElement
<1>4. ASSUME NEW i \in 1 .. m PROVE Good(f, n, i)
  <2>1. i - 1 \in 0 .. Len(f) /\ ~(m <= i - 1) /\ (i - 1) + 1 = i
    BY <1>1, <1>3
  <2>2. i - 1 \notin M
    BY <1>3, <2>1
  <2>3. Good(f, n, (i - 1) + 1)
    BY <2>1, <2>2
  <2>4. QED
    BY <2>1, <2>3
<1>5. m \in 0 .. Len(f) /\ (m < Len(f) => ~Good(f, n, m + 1))
  BY <1>3
<1>6. Readable(f, n) = m
  <2> HIDE DEF M
  <2> QED BY <1>4, <1>5, ReadableIs
<1>7. QED
  <2> HIDE DEF M
  <2> QED BY <1>4, <1>5, <1>6
=============================================================================
