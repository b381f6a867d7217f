---------------------------- MODULE WorldProofs ----------------------------
(***************************************************************************)
(* Proofs about what World::step does besides moving units and bullets: the *)
(* economy, and the end of the match.                                       *)
(*                                                                          *)
(* Energy and health never leave their ranges, the table of unit ids agrees *)
(* with the list of units, and programs cannot create energy, for every     *)
(* map, rule set and number of units; a match ends by the rules.            *)
(***************************************************************************)
EXTENDS Economy, Match, FiniteSetTheorems, WellFoundedInduction, TLAPS

(* A set of natural numbers has a least element.                            *)
LEMMA LeastElement ==
    ASSUME NEW M \in SUBSET Nat, M # {}
    PROVE  \E m \in M : \A k \in M : m <= k
<1>1. PICK m \in M : \A k \in M : <<k, m>> \notin OpToRel(<, Nat)
  BY WFMin, NatLessThanWellFounded, Zenon
<1>2. \A k \in M : ~(k < m)
  BY <1>1, Zenon DEF OpToRel
<1>3. QED
  BY <1>2

(* Induction over the natural numbers, for a set of them.                   *)
LEMMA SetInduction ==
    ASSUME NEW T \in SUBSET Nat, 0 \in T, \A n \in T : n + 1 \in T
    PROVE  T = Nat
<1>1. SUFFICES ASSUME Nat \ T # {} PROVE FALSE
  OBVIOUS
<1>2. PICK m \in Nat \ T : \A k \in Nat \ T : m <= k
  BY <1>1, LeastElement
<1>3. m - 1 \in T
  BY <1>2
<1>4. QED
  BY <1>2, <1>3

-----------------------------------------------------------------------------
(***************************************************************************)
(* Sums over finite sets: Total of the module Economy.                      *)
(***************************************************************************)

\* The element that a sum takes first, and what a sum of f over s is when e has
\* the sums over smaller sets.
First(s) == CHOOSE x \in s : TRUE
SumOf(f, e, s) == IF s = {} THEN 0 ELSE f[First(s)] + e[s \ {First(s)}]

\* e has the sums of f over the subsets of S.
Sums(f, S, e) == e = [s \in SUBSET S |-> SumOf(f, e, s)]

(* The definition of the community modules.                                 *)
LEMMA TotalIs ==
    ASSUME NEW f, NEW S
    PROVE  Total(f, S) = (CHOOSE e : Sums(f, S, e))[S]
  BY Zenon DEF Total, MapThenSumSet, MapThenFoldSet, Sums, SumOf, First

(* Induction over the subsets of a finite set.                              *)
LEMMA SubsetInduction ==
    ASSUME NEW S, IsFiniteSet(S), NEW T \in SUBSET (SUBSET S), {} \in T,
           \A s \in SUBSET S : s # {} /\ s \ {First(s)} \in T => s \in T
    PROVE  T = SUBSET S
<1> DEFINE N == {n \in Nat : \A s \in SUBSET S : Cardinality(s) = n => s \in T}
<1>1. \A s \in SUBSET S : IsFiniteSet(s) /\ Cardinality(s) \in Nat
  BY FS_Subset, FS_CardinalityType
<1>2. 0 \in N
  <2>1. \A s \in SUBSET S : Cardinality(s) = 0 => s = {}
    BY <1>1, FS_EmptySet
  <2>2. QED
    BY <2>1
<1>3. ASSUME NEW n \in N PROVE n + 1 \in N
  <2>1. ASSUME NEW s \in SUBSET S, Cardinality(s) = n + 1 PROVE s \in T
    <3>1. s # {}
      BY <2>1, FS_EmptySet
    <3>2. First(s) \in s
      BY <3>1 DEF First
    <3>3. Cardinality(s \ {First(s)}) = n
      BY <1>1, <2>1, <3>2, FS_RemoveElement
    <3>4. s \ {First(s)} \in T
      BY <3>3
    <3>5. QED
      BY <3>1, <3>4
  <2>2. QED
    BY <2>1
<1>4. N \in SUBSET Nat
  OBVIOUS
<1> HIDE DEF N
<1>5. N = Nat
  BY <1>2, <1>3, <1>4, SetInduction
<1>6. ASSUME NEW s \in SUBSET S PROVE s \in T
  BY <1>1, <1>5 DEF N
<1>7. QED
  BY <1>6

(* The sums are determined.                                                 *)
LEMMA SumsUnique ==
    ASSUME NEW f, NEW S, IsFiniteSet(S), NEW d, Sums(f, S, d), NEW e, Sums(f, S, e)
    PROVE  \A s \in SUBSET S : d[s] = e[s]
<1> DEFINE T == {s \in SUBSET S : d[s] = e[s]}
<1>1. \A s \in SUBSET S : d[s] = SumOf(f, d, s) /\ e[s] = SumOf(f, e, s)
  <2>1. d = [s \in SUBSET S |-> SumOf(f, d, s)] /\ e = [s \in SUBSET S |-> SumOf(f, e, s)]
    BY DEF Sums
  <2>2. QED
    BY <2>1, Zenon
<1>2. {} \in T
  <2>1. {} \in SUBSET S /\ SumOf(f, d, {}) = 0 /\ SumOf(f, e, {}) = 0
    BY DEF SumOf
  <2>2. QED
    BY <1>1, <2>1
<1>3. ASSUME NEW s \in SUBSET S, s # {}, s \ {First(s)} \in T PROVE s \in T
  <2>1. d[s \ {First(s)}] = e[s \ {First(s)}]
    BY <1>3
  <2>2. SumOf(f, d, s) = SumOf(f, e, s)
    BY <1>3, <2>1 DEF SumOf
  <2>3. QED
    BY <1>1, <2>2
<1>4. T \in SUBSET (SUBSET S)
  OBVIOUS
<1> HIDE DEF T
<1>5. T = SUBSET S
  BY <1>2, <1>3, <1>4, SubsetInduction
<1>6. QED
  BY <1>5 DEF T

(* There are sums.                                                          *)
LEMMA SumsExist ==
    ASSUME NEW f, NEW S, IsFiniteSet(S), \A x \in S : f[x] \in Int
    PROVE  \E e : Sums(f, S, e) /\ e \in [SUBSET S -> Int]
<1> DEFINE Small(n) == {s \in SUBSET S : Cardinality(s) <= n}
           Some(n) == \E e \in [Small(n) -> Int] : \A s \in Small(n) : e[s] = SumOf(f, e, s)
           N == {n \in Nat : Some(n)}
<1>1. \A s \in SUBSET S : IsFiniteSet(s) /\ Cardinality(s) \in Nat
  BY FS_Subset, FS_CardinalityType
<1>2. \A s \in SUBSET S : s # {} => First(s) \in s /\ f[First(s)] \in Int
  BY DEF First
<1>3. 0 \in N
  <2> DEFINE e == [s \in Small(0) |-> 0]
  <2>1. \A s \in Small(0) : s = {}
    BY <1>1, FS_EmptySet
  <2>2. \A s \in Small(0) : e[s] = SumOf(f, e, s)
    BY <2>1 DEF SumOf
  <2>3. e \in [Small(0) -> Int]
    OBVIOUS
  <2>4. QED
    BY <2>2, <2>3
<1>4. ASSUME NEW n \in N PROVE n + 1 \in N
  <2>1. PICK e \in [Small(n) -> Int] : \A s \in Small(n) : e[s] = SumOf(f, e, s)
    OBVIOUS
  <2> DEFINE g == [s \in Small(n + 1) |-> SumOf(f, e, s)]
  <2>2. \A s \in Small(n + 1) : s # {} => s \ {First(s)} \in Small(n)
    <3>1. ASSUME NEW s \in Small(n + 1), s # {} PROVE s \ {First(s)} \in Small(n)
      <4>1. Cardinality(s \ {First(s)}) = Cardinality(s) - 1
        BY <1>1, <1>2, <3>1, FS_RemoveElement
      <4>2. QED
        BY <1>1, <3>1, <4>1
    <3>2. QED
      BY <3>1
  <2>3. \A s \in Small(n) : s \in Small(n + 1)
    BY <1>1
  <2>4. g \in [Small(n + 1) -> Int]
    <3>1. ASSUME NEW s \in Small(n + 1) PROVE SumOf(f, e, s) \in Int
      <4>1. s # {} => e[s \ {First(s)}] \in Int
        BY <2>1, <2>2
      <4>2. s # {} => f[First(s)] \in Int
        BY <1>2
      <4>3. QED
        BY <4>1, <4>2 DEF SumOf
    <3>2. QED
      BY <3>1
  <2>5. \A s \in Small(n) : g[s] = e[s]
    BY <2>1, <2>3
  <2>6. ASSUME NEW s \in Small(n + 1) PROVE g[s] = SumOf(f, g, s)
    <3>1. g[s] = SumOf(f, e, s)
      OBVIOUS
    <3>2. s # {} => g[s \ {First(s)}] = e[s \ {First(s)}]
      BY <2>2, <2>5
    <3> HIDE DEF g
    <3>3. SumOf(f, e, s) = SumOf(f, g, s)
      BY <3>2 DEF SumOf
    <3>4. QED
      BY <3>1, <3>3
  <2> HIDE DEF g, Small
  <2>7. Some(n + 1)
    BY <2>4, <2>6
  <2>8. QED
    BY <2>7
<1>5. N \in SUBSET Nat
  OBVIOUS
<1> HIDE DEF N
<1>6. N = Nat
  BY <1>3, <1>4, <1>5, SetInduction
<1>7. PICK n \in Nat : n = Cardinality(S)
  BY <1>1
<1>8. Small(n) = SUBSET S
  BY <1>7, FS_Subset
<1>9. PICK e \in [SUBSET S -> Int] : \A s \in SUBSET S : e[s] = SumOf(f, e, s)
  BY <1>6, <1>8 DEF N
<1>10. e = [s \in SUBSET S |-> SumOf(f, e, s)]
  <2> DEFINE g == [s \in SUBSET S |-> SumOf(f, e, s)]
  <2>1. e = [s \in SUBSET S |-> e[s]]
    OBVIOUS
  <2>2. QED
    BY <1>9, <2>1
<1>11. QED
  BY <1>9, <1>10 DEF Sums

(* Total, by its first element.                                             *)
LEMMA TotalFirst ==
    ASSUME NEW f, NEW S, IsFiniteSet(S), \A x \in S : f[x] \in Int
    PROVE  \A s \in SUBSET S :
              /\ Total(f, s) \in Int
              /\ Total(f, s) = IF s = {} THEN 0
                               ELSE f[First(s)] + Total(f, s \ {First(s)})
<1>1. PICK e \in [SUBSET S -> Int] : Sums(f, S, e)
  BY SumsExist
<1>2. \A s \in SUBSET S : e[s] = SumOf(f, e, s)
  <2>1. e = [s \in SUBSET S |-> SumOf(f, e, s)]
    BY <1>1 DEF Sums
  <2>2. QED
    BY <2>1, Zenon
<1>3. ASSUME NEW s \in SUBSET S PROVE Total(f, s) = e[s]
  <2> DEFINE d == [r \in SUBSET s |-> e[r]]
             c == CHOOSE c : Sums(f, s, c)
  <2>1. \A r \in SUBSET s : r \in SUBSET S /\ r \ {First(r)} \in SUBSET s
    BY <1>3
  <2>2. \A r \in SUBSET s : SumOf(f, d, r) = e[r]
    <3>1. ASSUME NEW r \in SUBSET s PROVE SumOf(f, d, r) = e[r]
      <4>1. d[r \ {First(r)}] = e[r \ {First(r)}]
        BY <2>1
      <4>2. e[r] = SumOf(f, e, r)
        BY <1>2, <2>1
      <4> HIDE DEF d
      <4>3. QED
        BY <4>1, <4>2 DEF SumOf
    <3>2. QED
      BY <3>1
  <2>3. Sums(f, s, d)
    <3>1. d = [r \in SUBSET s |-> SumOf(f, d, r)]
      <4> HIDE DEF d
      <4>1. d = [r \in SUBSET s |-> e[r]]
        BY DEF d
      <4>2. [r \in SUBSET s |-> e[r]] = [r \in SUBSET s |-> SumOf(f, d, r)]
        BY <2>2
      <4>3. QED
        BY <4>1, <4>2
    <3>2. QED
      BY <3>1, Zenon DEF Sums
  <2>4. Sums(f, s, c)
    BY <2>3
  <2>5. IsFiniteSet(s)
    BY FS_Subset
  <2>6. s \in SUBSET s /\ d[s] = e[s]
    OBVIOUS
  <2> HIDE DEF c, d
  <2>7. c[s] = d[s]
    BY <2>3, <2>4, <2>5, <2>6, SumsUnique
  <2>8. Total(f, s) = c[s]
    BY TotalIs DEF c
  <2>9. QED
    BY <2>6, <2>7, <2>8
<1>4. ASSUME NEW s \in SUBSET S
      PROVE /\ Total(f, s) \in Int
            /\ Total(f, s) = IF s = {} THEN 0 ELSE f[First(s)] + Total(f, s \ {First(s)})
  <2>1. Total(f, s) = e[s] /\ s \ {First(s)} \in SUBSET S
    BY <1>3
  <2>2. Total(f, s \ {First(s)}) = e[s \ {First(s)}]
    BY <1>3, <2>1
  <2>3. e[s] = SumOf(f, e, s) /\ e[s] \in Int
    BY <1>2
  <2>4. QED
    BY <2>1, <2>2, <2>3 DEF SumOf
<1>5. QED
  BY <1>4

(* A sum is a number, whichever element is taken out first.                 *)
LEMMA TotalRemove ==
    ASSUME NEW f, NEW S, IsFiniteSet(S), \A x \in S : f[x] \in Int
    PROVE  /\ Total(f, S) \in Int
           /\ \A x \in S : Total(f, S) = f[x] + Total(f, S \ {x})
<1> DEFINE Good(s) == \A x \in s : Total(f, s) = f[x] + Total(f, s \ {x})
           N == {n \in Nat : \A s \in SUBSET S : Cardinality(s) <= n => Good(s)}
<1>1. \A s \in SUBSET S : IsFiniteSet(s) /\ Cardinality(s) \in Nat
  BY FS_Subset, FS_CardinalityType
<1>2. \A s \in SUBSET S : Total(f, s) \in Int
  BY TotalFirst
<1>3. \A s \in SUBSET S : s # {} => /\ First(s) \in s
                                    /\ Total(f, s) = f[First(s)] + Total(f, s \ {First(s)})
  BY TotalFirst DEF First
<1>4. 0 \in N
  <2>1. \A s \in SUBSET S : Cardinality(s) <= 0 => s = {}
    BY <1>1, FS_EmptySet
  <2>2. QED
    BY <2>1
<1>5. ASSUME NEW n \in N PROVE n + 1 \in N
  <2>1. ASSUME NEW s \in SUBSET S, Cardinality(s) <= n + 1, NEW x \in s
        PROVE  Total(f, s) = f[x] + Total(f, s \ {x})
    <3> DEFINE c == First(s)
    <3>1. c \in s /\ Total(f, s) = f[c] + Total(f, s \ {c}) /\ Total(f, s) \in Int
      BY <1>2, <1>3, <2>1
    <3> HIDE DEF c
    <3>2. CASE x = c
      BY <3>1, <3>2
    <3>3. CASE x # c
      <4>1. s \ {c} \in SUBSET S /\ s \ {x} \in SUBSET S
        OBVIOUS
      <4>2. Cardinality(s \ {c}) = Cardinality(s) - 1 /\ Cardinality(s \ {x}) = Cardinality(s) - 1
        BY <1>1, <3>1, FS_RemoveElement
      <4>3. Good(s \ {c}) /\ Good(s \ {x})
        BY <1>1, <2>1, <4>1, <4>2
      <4>4. Total(f, s \ {c}) = f[x] + Total(f, (s \ {c}) \ {x})
        BY <3>3, <4>3
      <4>5. Total(f, s \ {x}) = f[c] + Total(f, (s \ {x}) \ {c})
        BY <3>1, <3>3, <4>3
      <4>6. (s \ {c}) \ {x} = (s \ {x}) \ {c} /\ (s \ {x}) \ {c} \in SUBSET S
        OBVIOUS
      <4>7. Total(f, (s \ {x}) \ {c}) \in Int
        BY <1>2, <4>6
      <4>8. f[x] \in Int /\ f[c] \in Int
        BY <3>1
      <4>9. PICK r \in Int : r = Total(f, (s \ {x}) \ {c})
        BY <4>7
      <4>10. Total(f, s \ {c}) = f[x] + r /\ Total(f, s \ {x}) = f[c] + r
        BY <4>4, <4>5, <4>6, <4>9, Zenon
      <4>11. Total(f, s) = f[c] + (f[x] + r) /\ f[x] + Total(f, s \ {x}) = f[x] + (f[c] + r)
        BY <3>1, <4>10, Zenon
      <4>12. f[c] + (f[x] + r) = f[x] + (f[c] + r)
        BY <4>8
      <4>13. QED
        BY <4>11, <4>12, Zenon
    <3>4. QED
      BY <3>2, <3>3
  <2>2. QED
    BY <2>1
<1>6. N \in SUBSET Nat
  OBVIOUS
<1> HIDE DEF N
<1>7. N = Nat
  BY <1>4, <1>5, <1>6, SetInduction
<1>8. Good(S)
  BY <1>1, <1>7 DEF N
<1>9. QED
  BY <1>2, <1>8

(* Sums of functions that agree on the set are the same.                    *)
LEMMA TotalSame ==
    ASSUME NEW f, NEW g, NEW S, IsFiniteSet(S), \A x \in S : f[x] \in Int,
           \A x \in S : g[x] = f[x]
    PROVE  Total(g, S) = Total(f, S)
<1> DEFINE T == {s \in SUBSET S : Total(g, s) = Total(f, s)}
<1>1. \A s \in SUBSET S :
         Total(f, s) = IF s = {} THEN 0 ELSE f[First(s)] + Total(f, s \ {First(s)})
  BY TotalFirst
<1>2. \A s \in SUBSET S :
         Total(g, s) = IF s = {} THEN 0 ELSE g[First(s)] + Total(g, s \ {First(s)})
  <2>1. \A x \in S : g[x] \in Int
    OBVIOUS
  <2>2. QED
    BY <2>1, TotalFirst
<1>3. {} \in T
  BY <1>1, <1>2
<1>4. ASSUME NEW s \in SUBSET S, s # {}, s \ {First(s)} \in T PROVE s \in T
  <2>1. First(s) \in S
    BY <1>4 DEF First
  <2>2. QED
    BY <1>1, <1>2, <1>4, <2>1
<1>5. T \in SUBSET (SUBSET S)
  OBVIOUS
<1> HIDE DEF T
<1>6. T = SUBSET S
  BY <1>3, <1>4, <1>5, SubsetInduction
<1>7. QED
  BY <1>6 DEF T

(* A sum of zeros, and an empty one.                                        *)
LEMMA TotalZero ==
    ASSUME NEW f, NEW S, IsFiniteSet(S), \A x \in S : f[x] = 0
    PROVE  Total(f, S) = 0
<1> DEFINE T == {s \in SUBSET S : Total(f, s) = 0}
<1>1. \A s \in SUBSET S :
         Total(f, s) = IF s = {} THEN 0 ELSE f[First(s)] + Total(f, s \ {First(s)})
  <2>1. \A x \in S : f[x] \in Int
    OBVIOUS
  <2>2. QED
    BY <2>1, TotalFirst
<1>3. {} \in T
  BY <1>1
<1>4. ASSUME NEW s \in SUBSET S, s # {}, s \ {First(s)} \in T PROVE s \in T
  <2>1. First(s) \in S
    BY <1>4 DEF First
  <2>2. QED
    BY <1>1, <1>4, <2>1
<1>5. T \in SUBSET (SUBSET S)
  OBVIOUS
<1> HIDE DEF T
<1>6. T = SUBSET S
  BY <1>3, <1>4, <1>5, SubsetInduction
<1>7. QED
  BY <1>6 DEF T

(* A sum in which one term has changed.                                     *)
LEMMA TotalChange ==
    ASSUME NEW f, NEW g, NEW S, IsFiniteSet(S), NEW x \in S,
           \A y \in S : f[y] \in Int /\ g[y] \in Int, \A y \in S \ {x} : g[y] = f[y]
    PROVE  /\ Total(f, S) \in Int
           /\ Total(g, S) = Total(f, S) + g[x] - f[x]
<1>1. IsFiniteSet(S \ {x})
  BY FS_Subset
<1>2. Total(g, S \ {x}) = Total(f, S \ {x})
  BY <1>1, TotalSame
<1>3. Total(f, S) = f[x] + Total(f, S \ {x}) /\ Total(f, S) \in Int
  BY TotalRemove
<1>4. Total(g, S) = g[x] + Total(g, S \ {x})
  BY TotalRemove
<1>5. Total(f, S \ {x}) \in Int
  BY <1>1, TotalRemove
<1>6. QED
  BY <1>2, <1>3, <1>4, <1>5

(* A sum with a single term that is not zero.                               *)
LEMMA TotalOne ==
    ASSUME NEW f, NEW S, IsFiniteSet(S), NEW x \in S, f[x] \in Int,
           \A y \in S \ {x} : f[y] = 0
    PROVE  Total(f, S) = f[x]
<1>1. IsFiniteSet(S \ {x})
  BY FS_Subset
<1>2. Total(f, S \ {x}) = 0
  BY <1>1, TotalZero
<1>3. \A y \in S : f[y] \in Int
  OBVIOUS
<1>4. Total(f, S) = f[x] + Total(f, S \ {x})
  BY <1>3, TotalRemove
<1>5. QED
  BY <1>2, <1>4

-----------------------------------------------------------------------------
(* The economy.                                                             *)

IInv == TypeOK /\ SlotsMatchUnits

(* A limited sum lies below the limit.                                      *)
LEMMA AtMostRange ==
    ASSUME NEW limit \in Nat, NEW n \in Nat
    PROVE  AtMost(limit, n) \in Nat /\ AtMost(limit, n) <= limit
  BY DEF AtMost

(* The capacity of a unit is a number.                                      *)
LEMMA CapacityRange ==
    ASSUME NEW o \in Objects
    PROVE  maxCapacity(o) \in Nat
  BY RuleAssumption DEF maxCapacity

(* What a unit carries after a collection fits its capacity.                *)
LEMMA CollectedRange ==
    ASSUME TypeOK, NEW o \in Objects, NEW t \in Tiles, NEW now \in Nat
    PROVE  Collected(o, t, now) \in Nat /\ Collected(o, t, now) <= maxCapacity(o)
<1>1. Gained(t, now) \in Nat
  BY RuleAssumption DEF Gained
<1>2. energy[o] + Gained(t, now) \in Nat
  BY <1>1 DEF TypeOK
<1>3. EnergyLimit \in Nat \ {0}
  BY RuleAssumption
<1> DEFINE sum == energy[o] + Gained(t, now)
<1>4. sum % EnergyLimit \in Nat
  <2> HIDE DEF sum
  <2> QED BY <1>2, <1>3 DEF sum
<1>5. QED
  BY <1>4, CapacityRange, AtMostRange DEF Collected

(* A unit in service is in play.                                            *)
LEMMA ServiceableUnit ==
    ASSUME IInv, NEW p \in Players, NEW id, Serviceable(p, id)
    PROVE  <<p, id>> \in Slots /\ slot[<<p, id>>] \in units /\ slot[<<p, id>>] \in Objects
  BY DEF IInv, TypeOK, SlotsMatchUnits, Serviceable, Slots

-----------------------------------------------------------------------------
(* The invariant holds at the start.                                        *)
LEMMA InitIInv == Init => IInv
<1> SUFFICES ASSUME Init PROVE IInv
  OBVIOUS
<1>1. TypeOK
  <2>1. \A s \in Slots : (\E o \in InitialUnits : SlotOf[o] = s)
           => (CHOOSE o \in InitialUnits : SlotOf[o] = s) \in Objects
    BY ObjectAssumption
  <2>2. slot \in [Slots -> Objects \cup {Null}]
    BY <2>1 DEF Init
  <2>3. \A o \in Objects : energy[o] <= maxCapacity(o)
    BY CapacityRange DEF Init
  <2>4. QED
    BY <2>2, <2>3, ObjectAssumption, RuleAssumption DEF Init, TypeOK
<1>2. SlotsMatchUnits
  <2>1. ASSUME NEW o \in units
        PROVE  health[o] > 0 /\ slot[SlotOf[o]] = o
    <3>1. o \in InitialUnits /\ SlotOf[o] \in Slots
      BY <2>1, ObjectAssumption DEF Init
    <3>2. (CHOOSE q \in InitialUnits : SlotOf[q] = SlotOf[o]) = o
      BY <3>1, ObjectAssumption
    <3>3. QED
      BY <3>1, <3>2, ObjectAssumption, RuleAssumption DEF Init
  <2>2. ASSUME NEW s \in Slots, slot[s] # Null
        PROVE  slot[s] \in units /\ SlotOf[slot[s]] = s
    BY <2>2 DEF Init
  <2>3. QED
    BY <2>1, <2>2 DEF SlotsMatchUnits
<1>3. QED
  BY <1>1, <1>2 DEF IInv

-----------------------------------------------------------------------------
(* The engine's part of a turn.                                             *)
LEMMA NewTurnIInv ==
    ASSUME IInv, NEW hit \in SUBSET units, NewTurn(hit)
    PROVE  IInv'
<1> USE DEF IInv
<1>1. units' \subseteq Objects /\ units' = units \ hit
  BY DEF NewTurn, TypeOK
<1>2. pos' \in [Objects -> Tiles]
  <2>1. CASE pos' = pos
    BY <2>1 DEF TypeOK
  <2>2. ASSUME NEW o \in units', NEW d \in Direction,
               pos' = [pos EXCEPT ![o] = TileAhead(pos[o], d)]
        PROVE  pos' \in [Objects -> Tiles]
    <3>1. o \in Objects /\ pos[o] \in Tiles
      BY <1>1 DEF TypeOK
    <3>2. pos'[o] = TileAhead(pos[o], d)
      BY <2>2, <3>1 DEF TypeOK
    <3>3. CASE pos'[o] = pos[o]
      BY <2>2, <3>1, <3>2, <3>3 DEF TypeOK
    <3>4. CASE pos'[o] # pos[o]
      <4>1. isInBounds(TileAhead(pos[o], d))
        BY <2>2, <3>2, <3>4 DEF NewTurn
      <4>2. Offset[d][1] \in Int /\ Offset[d][2] \in Int
        BY DEF Direction, Offset
      <4>3. pos[o][1] \in Int /\ pos[o][2] \in Int
        BY <3>1, SizeAssumption DEF Tiles
      <4>4. TileAhead(pos[o], d) \in Tiles
        BY <4>1, <4>2, <4>3, SizeAssumption DEF isInBounds, TileAhead, Tiles
      <4>5. QED
        BY <2>2, <3>1, <4>4 DEF TypeOK
    <3>5. QED
      BY <3>3, <3>4
  <2>3. QED
    BY <2>1, <2>2 DEF NewTurn, Moves
<1>3. health' \in [Objects -> 0 .. UnitHealth] /\ \A o \in units' : health'[o] > 0
  <2>1. CASE health' = [o \in Objects |-> IF o \in hit THEN 0 ELSE health[o]]
    BY <1>1, <2>1, RuleAssumption DEF TypeOK, SlotsMatchUnits
  <2>2. ASSUME NEW v \in units', NEW h \in 1 .. health[v] - 1,
               health' = [o \in Objects |-> IF o \in hit THEN 0
                                            ELSE IF o = v THEN h ELSE health[o]]
        PROVE  health' \in [Objects -> 0 .. UnitHealth] /\ \A o \in units' : health'[o] > 0
    <3>1. health[v] \in 0 .. UnitHealth
      BY <1>1 DEF TypeOK
    <3>2. h \in 1 .. UnitHealth
      BY <3>1, <2>2, RuleAssumption
    <3>3. QED
      BY <1>1, <2>2, <3>2, RuleAssumption DEF TypeOK, SlotsMatchUnits
  <2>3. QED
    BY <2>1, <2>2 DEF NewTurn
<1>4. energy' \in [Objects -> Nat] /\ \A o \in Objects : energy'[o] <= maxCapacity(o)'
  <2>1. turn + 1 \in Nat
    BY DEF TypeOK
  <2>2. \A o \in Objects : /\ Collected(o, pos'[o], turn + 1) \in Nat
                           /\ Collected(o, pos'[o], turn + 1) <= maxCapacity(o)
    BY <1>2, <2>1, CollectedRange
  <2>3. \A o \in Objects : maxCapacity(o)' = maxCapacity(o)
    BY DEF NewTurn, maxCapacity
  <2>4. QED
    BY <2>2, <2>3 DEF NewTurn, TypeOK
<1>5. slot' \in [Slots -> Objects \cup {Null}]
  BY DEF NewTurn, ClearedSlots, TypeOK
<1>6. TypeOK'
  BY <1>1, <1>2, <1>3, <1>4, <1>5 DEF NewTurn, TypeOK
<1>7. SlotsMatchUnits'
  <2>1. ASSUME NEW o \in units' PROVE slot'[SlotOf[o]] = o
    <3>1. o \in units /\ o \notin hit /\ SlotOf[o] \in Slots
      BY <1>1, ObjectAssumption DEF TypeOK
    <3>2. ~ \E q \in hit : SlotOf[q] = SlotOf[o]
      BY <3>1 DEF SlotsMatchUnits
    <3>3. QED
      BY <3>1, <3>2 DEF NewTurn, ClearedSlots, SlotsMatchUnits
  <2>2. ASSUME NEW s \in Slots, slot'[s] # Null
        PROVE  slot'[s] \in units' /\ SlotOf[slot'[s]] = s
    BY <1>1, <2>2 DEF NewTurn, ClearedSlots, SlotsMatchUnits
  <2>3. QED
    BY <1>3, <2>1, <2>2 DEF SlotsMatchUnits
<1>8. QED
  BY <1>6, <1>7

(* A new unit takes an id that no living unit has.                          *)
LEMMA ManufactIInv ==
    ASSUME IInv, NEW p \in Players, NEW raw \in RawIds, Manufact(p, raw)
    PROVE  IInv'
<1> USE DEF IInv
<1>1. baseEnergy' \in [Players -> 0 .. EnergyLimit - 1]
  BY RuleAssumption DEF Manufact, TypeOK
<1>2. CASE phase' = 4 /\ UNCHANGED <<unitState, health, energy, upgrades>>
  BY <1>1, <1>2 DEF Manufact, TypeOK, SlotsMatchUnits, maxCapacity, unitState
<1>3. ASSUME NEW o \in Objects \ units, NEW t \in FreeBaseTiles(p),
             SlotOf[o] = <<p, UnitId(raw)>>,
             units' = units \cup {o},
             slot' = [slot EXCEPT ![<<p, UnitId(raw)>>] = o],
             pos' = [pos EXCEPT ![o] = t],
             health' = [health EXCEPT ![o] = UnitHealth],
             energy' = [energy EXCEPT ![o] = 0],
             upgrades' = [upgrades EXCEPT ![o] = {}],
             phase' = phase
      PROVE  IInv'
  <2>1. t \in Tiles
    BY DEF FreeBaseTiles, BaseTiles
  <2>2. SlotOf[o] \in Slots
    BY ObjectAssumption
  <2>3. \A q \in Objects : maxCapacity(q)' \in Nat
    BY RuleAssumption DEF maxCapacity
  <2>4. \A q \in Objects : energy'[q] <= maxCapacity(q)'
    BY <1>3, <2>3 DEF TypeOK, maxCapacity
  <2>5. TypeOK'
    <3>1. turn' = turn
      BY DEF Manufact
    <3>2. slot' \in [Slots -> Objects \cup {Null}]
      BY <1>3, <2>2 DEF TypeOK
    <3>3. /\ units' \subseteq Objects
          /\ pos' \in [Objects -> Tiles]
          /\ health' \in [Objects -> 0 .. UnitHealth]
      BY <1>3, <2>1, RuleAssumption DEF TypeOK
    <3>4. /\ upgrades' \in [Objects -> SUBSET UpgradeType]
          /\ energy' \in [Objects -> Nat]
      BY <1>3, RuleAssumption DEF TypeOK
    <3>5. QED
      BY <1>1, <1>3, <2>4, <3>1, <3>2, <3>3, <3>4 DEF TypeOK
  <2>6. \A q \in units : SlotOf[q] # SlotOf[o]
    <3> SUFFICES ASSUME NEW q \in units, SlotOf[q] = SlotOf[o] PROVE FALSE
      OBVIOUS
    <3>1. slot[<<p, UnitId(raw)>>] = q /\ health[q] > 0 /\ q # Null
      BY <1>3, ObjectAssumption DEF SlotsMatchUnits, TypeOK
    <3>2. QED
      BY <3>1 DEF Manufact, IdIsFree
  <2>7. SlotsMatchUnits'
    BY <1>3, <2>2, <2>6, ObjectAssumption, RuleAssumption
      DEF SlotsMatchUnits, TypeOK
  <2>8. QED
    BY <2>5, <2>7
<1>4. QED
  BY <1>2, <1>3 DEF Manufact

-----------------------------------------------------------------------------
(* Every step keeps the invariant.                                          *)
LEMMA NextIInv == IInv /\ [Next]_vars => IInv'
<1> SUFFICES ASSUME IInv, [Next]_vars PROVE IInv'
  OBVIOUS
<1> USE DEF IInv
<1>1. CASE UNCHANGED vars
  BY <1>1 DEF vars, unitState, TypeOK, SlotsMatchUnits, maxCapacity
<1>2. CASE EndBaseProgram
  BY <1>2 DEF EndBaseProgram, unitState, TypeOK, SlotsMatchUnits, maxCapacity, Players
<1>3. ASSUME NEW p \in Players, NEW raw \in RawIds, Repair(p, raw)
      PROVE  IInv'
  <2> DEFINE o == slot[<<p, UnitId(raw)>>]
  <2>1. o \in units /\ o \in Objects
    BY <1>3, ServiceableUnit DEF Repair
  <2>2. RepairCost(o) \in Nat
    BY <2>1, RuleAssumption DEF RepairCost, TypeOK
  <2>3. baseEnergy' \in [Players -> 0 .. EnergyLimit - 1]
    BY <1>3, <2>2, RuleAssumption DEF Repair, TypeOK
  <2>4. health' = [health EXCEPT ![o] = UnitHealth]
    BY <1>3 DEF Repair
  <2>5. UNCHANGED <<turn, phase, unitState, energy, upgrades>>
    BY <1>3 DEF Repair
  <2>6. QED
    BY <2>1, <2>3, <2>4, <2>5, RuleAssumption
      DEF TypeOK, SlotsMatchUnits, maxCapacity, unitState
<1>4. ASSUME NEW p \in Players, NEW raw \in RawIds, NEW type \in UpgradeType,
             Upgrade(p, raw, type)
      PROVE  IInv'
  <2> DEFINE o == slot[<<p, UnitId(raw)>>]
  <2>1. o \in units /\ o \in Objects
    BY <1>4, ServiceableUnit DEF Upgrade
  <2>2. baseEnergy' \in [Players -> 0 .. EnergyLimit - 1]
    BY <1>4, RuleAssumption DEF Upgrade, TypeOK
  <2>3. upgrades' = [upgrades EXCEPT ![o] = @ \cup {type}]
    BY <1>4 DEF Upgrade
  <2>4. UNCHANGED <<turn, phase, unitState, health, energy>>
    BY <1>4 DEF Upgrade
  <2>5. \A q \in Objects : energy'[q] <= maxCapacity(q)'
    <3>1. \A q \in Objects : maxCapacity(q) \in Nat /\ maxCapacity(q)' \in Nat
      BY RuleAssumption DEF maxCapacity
    <3>2. \A q \in Objects : maxCapacity(q) <= maxCapacity(q)'
      BY <2>1, <2>3, RuleAssumption DEF maxCapacity, TypeOK
    <3>3. QED
      BY <2>4, <3>1, <3>2 DEF TypeOK
  <2>6. QED
    BY <2>1, <2>2, <2>3, <2>4, <2>5, RuleAssumption
      DEF TypeOK, SlotsMatchUnits, unitState
<1>5. ASSUME NEW o \in Objects, NEW amount \in Amounts, Deposit(o, amount)
      PROVE  IInv'
  <2>1. Owner(o) \in Players /\ EnergyLimit - 1 \in Nat /\ amount \in Nat
    BY ObjectAssumption, RuleAssumption DEF Owner, Slots
  <2>2. AtMost(EnergyLimit - 1, baseEnergy[Owner(o)] + amount) \in 0 .. EnergyLimit - 1
    <3>1. baseEnergy[Owner(o)] + amount \in Nat
      BY <2>1 DEF TypeOK
    <3>2. QED
      BY <2>1, <3>1 DEF AtMost
  <2>3. baseEnergy' \in [Players -> 0 .. EnergyLimit - 1]
    BY <1>5, <2>1, <2>2 DEF Deposit, TypeOK
  <2>4. energy' \in [Objects -> Nat] /\ \A q \in Objects : energy'[q] <= maxCapacity(q)
    BY <1>5, <2>1, CapacityRange DEF Deposit, TypeOK
  <2>5. QED
    BY <1>5, <2>3, <2>4 DEF Deposit, TypeOK, SlotsMatchUnits, maxCapacity, unitState
<1>6. ASSUME NEW o \in Objects, NEW amount \in Amounts, Withdraw(o, amount)
      PROVE  IInv'
  <2>1. Owner(o) \in Players /\ amount \in Nat
    BY ObjectAssumption, RuleAssumption DEF Owner, Slots
  <2>2. baseEnergy' \in [Players -> 0 .. EnergyLimit - 1]
    BY <1>6, <2>1, RuleAssumption DEF Withdraw, TypeOK
  <2>3. energy[o] + amount \in Nat
    BY <2>1 DEF TypeOK
  <2>4. energy' \in [Objects -> Nat] /\ \A q \in Objects : energy'[q] <= maxCapacity(q)
    BY <1>6, <2>3, CapacityRange, AtMostRange DEF Withdraw, TypeOK
  <2>5. QED
    BY <1>6, <2>2, <2>4 DEF Withdraw, TypeOK, SlotsMatchUnits, maxCapacity, unitState
<1>7. QED
  BY <1>1, <1>2, <1>3, <1>4, <1>5, <1>6, NewTurnIInv, ManufactIInv DEF Next

(* For every map, number of units and rule set with capacities that fit in   *)
(* energy_t: no unit has more health or energy than the rules allow it, and  *)
(* Player::units resolves every id to the one living unit that has it.       *)
THEOREM EnergyAndIds == Spec => [](TypeOK /\ SlotsMatchUnits)
<1>1. Init => IInv
  BY InitIInv
<1>2. IInv /\ [Next]_vars => IInv'
  BY NextIInv
<1>3. QED
  BY <1>1, <1>2, PTL DEF Spec, IInv

(* The limits hold whatever the programs ask for; that they hold does not    *)
(* mean that no sum is narrowed: a narrowed sum is below every limit.        *)
THEOREM TypeCorrect == Spec => []TypeOK
  BY EnergyAndIds, PTL

(* A sum with room is not narrowed, and its limit is no lower than what the  *)
(* unit had.                                                                 *)
LEMMA CollectedKeeps ==
    ASSUME TypeOK, NEW o \in Objects, NEW t \in Tiles, NEW now \in Nat, HasRoom(o)
    PROVE  Collected(o, t, now) >= energy[o]
<1>1. Gained(t, now) \in Nat /\ Gained(t, now) <= ZoneRate + 1
  BY RuleAssumption DEF Gained
<1>2. maxCapacity(o) \in Nat /\ energy[o] \in Nat /\ energy[o] <= maxCapacity(o)
  BY CapacityRange DEF TypeOK
<1>3. EnergyLimit \in Nat /\ ZoneRate \in Nat
  BY RuleAssumption
<1> DEFINE sum == energy[o] + Gained(t, now)
<1>4. sum \in 0 .. EnergyLimit - 1 /\ sum >= energy[o]
  BY <1>1, <1>2, <1>3 DEF HasRoom
<1>5. Collected(o, t, now) = AtMost(maxCapacity(o), sum % EnergyLimit)
  BY DEF Collected
<1> HIDE DEF sum
<1>6. sum % EnergyLimit = sum
  BY <1>3, <1>4
<1>7. QED
  BY <1>2, <1>4, <1>5, <1>6 DEF AtMost

(* _collectEnergy, for every map, number of units and rule set with          *)
(* capacities that fit in energy_t: collecting takes nothing from a unit     *)
(* whose capacity leaves room for a turn's gain.  Nothing is said of the     *)
(* capacities above, for which it is false.                                  *)
THEOREM CollectingIsLimited == Spec => CollectingNeverCosts
<1> DEFINE Kept == turn' # turn =>
                     \A o \in units' : HasRoom(o) => energy'[o] >= energy[o]
<1>1. ASSUME IInv, [Next]_vars
      PROVE  [Kept]_vars
  <2>1. ASSUME NEW hit \in SUBSET units, NewTurn(hit)
        PROVE  Kept
    <3>1. units' \subseteq Objects /\ pos' \in [Objects -> Tiles] /\ turn + 1 \in Nat
      BY <1>1, <2>1, NewTurnIInv DEF IInv, TypeOK
    <3>2. \A o \in units' : energy'[o] = Collected(o, pos'[o], turn + 1)
      BY <2>1, <3>1 DEF NewTurn
    <3>3. \A o \in units' : HasRoom(o) => Collected(o, pos'[o], turn + 1) >= energy[o]
      BY <1>1, <3>1, CollectedKeeps DEF IInv
    <3>4. QED
      BY <3>2, <3>3
  <2>2. CASE turn' = turn
    BY <2>2
  <2>3. QED
    BY <1>1, <2>1, <2>2 DEF Next, EndBaseProgram, Manufact, Repair, Upgrade, Deposit,
         Withdraw, vars
<1>2. Spec => []IInv
  BY EnergyAndIds DEF IInv
<1>3. QED
  BY <1>1, <1>2, PTL DEF Spec, CollectingNeverCosts

-----------------------------------------------------------------------------
(* What the programs of a turn do to the energy of a player.                *)

(* Every unit has its entry of the table, so there are finitely many.       *)
LEMMA UnitsFinite ==
    ASSUME IInv, NEW p
    PROVE  IsFiniteSet(OwnUnits(p)) /\ OwnUnits(p) \subseteq Objects
<1> DEFINE f == [o \in units |-> SlotOf[o]]
<1>1. units \subseteq Objects
  BY DEF IInv, TypeOK
<1>2. f \in [units -> Slots]
  BY <1>1, ObjectAssumption
<1>3. \A a, b \in units : f[a] = f[b] => a = b
  BY DEF IInv, SlotsMatchUnits
<1>4. f \in Injection(units, Slots)
  BY <1>2, <1>3 DEF Injection, IsInjective
<1>5. IsFiniteSet(Slots)
  <2>1. IsFiniteSet(Players) /\ IsFiniteSet(Ids)
    <3>1. Players = 1 .. 2
      BY DEF Players
    <3>2. IsFiniteSet(1 .. 2)
      <4>1. 1 \in Int /\ 2 \in Int
        OBVIOUS
      <4>2. QED
        BY <4>1, FS_Interval, Zenon
    <3>3. MaxUnits \in Int
      BY RuleAssumption
    <3>4. IsFiniteSet(1 .. MaxUnits)
      BY <3>3, FS_Interval
    <3>5. QED
      BY <3>1, <3>2, <3>4 DEF Ids
  <2>2. QED
    BY <2>1, FS_Product DEF Slots
<1> HIDE DEF f
<1>6. IsFiniteSet(units)
  BY <1>4, <1>5, FS_Injection
<1>7. OwnUnits(p) \in SUBSET units
  BY DEF OwnUnits
<1>8. QED
  BY <1>1, <1>6, <1>7, FS_Subset

\* What Bought counts: the points of health and the worth of the upgrades.
Restored == [o \in Objects |-> health'[o] - health[o]]
Upgraded == [o \in Objects |-> Total(UpgradeCost, upgrades'[o] \ upgrades[o])]

(* An upgrade that is there already, and one that is new.                   *)
LEMMA UpgradedIs ==
    ASSUME NEW o \in Objects
    PROVE  /\ upgrades'[o] = upgrades[o] => Upgraded[o] = 0
           /\ \A type \in UpgradeType :
                upgrades'[o] \ upgrades[o] = {type} => Upgraded[o] = UpgradeCost[type]
<1>1. ASSUME upgrades'[o] = upgrades[o] PROVE Upgraded[o] = 0
  <2>1. Total(UpgradeCost, {}) = 0
    BY FS_EmptySet, TotalZero
  <2>2. upgrades'[o] \ upgrades[o] = {}
    BY <1>1
  <2>3. QED
    BY <2>1, <2>2 DEF Upgraded
<1>2. ASSUME NEW type \in UpgradeType, upgrades'[o] \ upgrades[o] = {type}
      PROVE  Upgraded[o] = UpgradeCost[type]
  <2>1. Total(UpgradeCost, {type}) = UpgradeCost[type]
    <3>1. IsFiniteSet({type}) /\ type \in {type} /\ \A y \in {type} \ {type} : UpgradeCost[y] = 0
      BY FS_Singleton
    <3>2. UpgradeCost[type] \in Int
      BY RuleAssumption
    <3>3. QED
      BY <3>1, <3>2, TotalOne
  <2>2. QED
    BY <1>2, <2>1 DEF Upgraded
<1>3. QED
  BY <1>1, <1>2

(* Nothing is bought for the units a player already has when they keep      *)
(* their health and their upgrades.                                         *)
LEMMA NothingServiced ==
    ASSUME IInv, NEW p,
           \A o \in OwnUnits(p) : health'[o] = health[o] /\ upgrades'[o] = upgrades[o]
    PROVE  Total(Restored, OwnUnits(p)) = 0 /\ Total(Upgraded, OwnUnits(p)) = 0
<1>1. IsFiniteSet(OwnUnits(p)) /\ OwnUnits(p) \subseteq Objects
  BY UnitsFinite
<1>2. \A o \in OwnUnits(p) : Restored[o] = 0
  BY <1>1 DEF Restored, IInv, TypeOK
<1>3. \A o \in OwnUnits(p) : Upgraded[o] = 0
  BY <1>1, UpgradedIs
<1>4. QED
  BY <1>1, <1>2, <1>3, TotalZero

(* The property, for one step and one player.                               *)
Spends(p) == Wealth(p)' + Bought(p) <= Wealth(p)

(* When nothing is manufactured, only the base and the energy that the      *)
(* units carry count.                                                       *)
LEMMA SpendsIf ==
    ASSUME IInv, NEW p \in Players, units' = units,
           NEW b \in Int, 2 * Total(Restored, OwnUnits(p)) + Total(Upgraded, OwnUnits(p)) = b,
           Total(Restored, OwnUnits(p)) \in Int, Total(Upgraded, OwnUnits(p)) \in Int,
           baseEnergy'[p] \in Int, Total(energy', OwnUnits(p)) \in Int,
           baseEnergy'[p] + Total(energy', OwnUnits(p)) + b
             <= baseEnergy[p] + Total(energy, OwnUnits(p))
    PROVE  Spends(p)
<1>1. OwnUnits(p)' = OwnUnits(p) /\ OwnUnits(p)' \ OwnUnits(p) = {}
  BY DEF OwnUnits, Owner
<1>2. ManufactCost * Cardinality(OwnUnits(p)' \ OwnUnits(p)) = 0
  <2>1. Cardinality(OwnUnits(p)' \ OwnUnits(p)) = 0
    BY <1>1, FS_EmptySet, Zenon
  <2>2. ManufactCost * 0 = 0
    BY RuleAssumption
  <2>3. QED
    BY <2>1, <2>2, Zenon
<1>3. Bought(p) = ManufactCost * Cardinality(OwnUnits(p)' \ OwnUnits(p))
                    + 2 * Total(Restored, OwnUnits(p)) + Total(Upgraded, OwnUnits(p))
  BY Zenon DEF Bought, Restored, Upgraded
<1>4. Bought(p) = b
  BY <1>2, <1>3
<1>5. Wealth(p)' = baseEnergy'[p] + Total(energy', OwnUnits(p))
  BY <1>1, Zenon DEF Wealth
<1>6. Wealth(p) = baseEnergy[p] + Total(energy, OwnUnits(p))
  BY Zenon DEF Wealth
<1>7. QED
  BY <1>4, <1>5, <1>6 DEF Spends

(* The energy of a player is a number.                                      *)
LEMMA EnergyTotal ==
    ASSUME IInv, NEW p \in Players
    PROVE  Total(energy, OwnUnits(p)) \in Int /\ baseEnergy[p] \in Nat
<1>1. \A o \in OwnUnits(p) : energy[o] \in Int
  BY UnitsFinite DEF IInv, TypeOK
<1>2. QED
  BY <1>1, UnitsFinite, TotalRemove DEF IInv, TypeOK

(* Steps of programs that change nothing a player owns.                     *)
LEMMA IdleSpends ==
    ASSUME IInv, NEW p \in Players, UNCHANGED <<unitState, health, upgrades, energy>>,
           baseEnergy'[p] \in Int, baseEnergy'[p] <= baseEnergy[p]
    PROVE  Spends(p)
<1>1. units' = units /\ health' = health /\ upgrades' = upgrades /\ energy' = energy
  BY DEF unitState
<1>2. Total(Restored, OwnUnits(p)) = 0 /\ Total(Upgraded, OwnUnits(p)) = 0
  BY <1>1, NothingServiced
<1>3. Total(energy', OwnUnits(p)) = Total(energy, OwnUnits(p))
  BY <1>1, Zenon
<1>4. Total(energy, OwnUnits(p)) \in Int /\ baseEnergy[p] \in Nat
  BY EnergyTotal
<1>5. QED
  BY <1>1, <1>2, <1>3, <1>4, SpendsIf

(* manufactureUnit: the new unit costs its price and carries nothing.       *)
LEMMA ManufactSpends ==
    ASSUME IInv, NEW p \in Players, NEW raw \in RawIds, Manufact(p, raw), NEW q \in Players
    PROVE  Spends(q)
<1>1. /\ baseEnergy' = [baseEnergy EXCEPT ![p] = @ - ManufactCost]
      /\ ManufactCost \in Nat
  BY RuleAssumption DEF Manufact
<1>2. /\ Total(energy, OwnUnits(q)) \in Int /\ baseEnergy[q] \in Nat
      /\ baseEnergy'[q] = IF q = p THEN baseEnergy[q] - ManufactCost ELSE baseEnergy[q]
  BY <1>1, EnergyTotal DEF IInv, TypeOK
<1>3. CASE UNCHANGED <<unitState, health, energy, upgrades>>
  BY <1>1, <1>2, <1>3, IdleSpends
<1>4. ASSUME NEW o \in Objects \ units,
             SlotOf[o] = <<p, UnitId(raw)>>,
             units' = units \cup {o},
             health' = [health EXCEPT ![o] = UnitHealth],
             energy' = [energy EXCEPT ![o] = 0],
             upgrades' = [upgrades EXCEPT ![o] = {}]
      PROVE  Spends(q)
  <2> DEFINE U == OwnUnits(q)
  <2>1. IsFiniteSet(U) /\ U \subseteq Objects /\ o \notin U
    BY UnitsFinite DEF OwnUnits
  <2>2. \A u \in U : /\ health'[u] = health[u] /\ upgrades'[u] = upgrades[u]
                     /\ energy'[u] = energy[u] /\ energy[u] \in Int
    BY <1>4, <2>1 DEF IInv, TypeOK
  <2>3. Total(Restored, U) = 0 /\ Total(Upgraded, U) = 0
    BY <2>2, NothingServiced
  <2>4. Owner(o) = p
    BY <1>4 DEF Owner
  <2>5. OwnUnits(q)' = IF q = p THEN U \cup {o} ELSE U
    BY <1>4, <2>4 DEF OwnUnits, Owner
  <2>6. Total(energy', U) = Total(energy, U)
    BY <2>1, <2>2, TotalSame
  <2>7. Bought(q) = ManufactCost * Cardinality(OwnUnits(q)' \ U) + 2 * Total(Restored, U)
                      + Total(Upgraded, U)
    BY Zenon DEF Bought, Restored, Upgraded
  <2>8. Wealth(q)' = baseEnergy'[q] + Total(energy', OwnUnits(q)')
        /\ Wealth(q) = baseEnergy[q] + Total(energy, U)
    BY Zenon DEF Wealth
  <2> HIDE DEF U
  <2>9. CASE q = p
    <3>1. OwnUnits(q)' = U \cup {o} /\ OwnUnits(q)' \ U = {o} /\ (U \cup {o}) \ {o} = U
      BY <2>1, <2>5, <2>9
    <3>2. Cardinality(OwnUnits(q)' \ U) = 1
      BY <3>1, FS_Singleton, Zenon
    <3>3. Bought(q) = ManufactCost
      BY <1>1, <2>3, <2>7, <3>2
    <3>4. IsFiniteSet(U \cup {o})
      BY <2>1, FS_AddElement
    <3>5. energy'[o] = 0
      BY <1>4 DEF IInv, TypeOK
    <3>6. \A u \in U \cup {o} : energy'[u] \in Int
      BY <2>2, <3>5
    <3>7. Total(energy', U \cup {o}) = energy'[o] + Total(energy', (U \cup {o}) \ {o})
      BY <3>4, <3>6, TotalRemove
    <3>8. Total(energy', U \cup {o}) = 0 + Total(energy, U)
      BY <2>6, <3>1, <3>5, <3>7, Zenon
    <3>9. Total(energy, U) \in Int
      BY <1>2 DEF U
    <3>10. Wealth(q)' = baseEnergy[q] - ManufactCost + (0 + Total(energy, U))
      BY <1>2, <2>8, <2>9, <3>1, <3>8, Zenon
    <3>11. QED
      BY <1>1, <1>2, <2>8, <3>3, <3>9, <3>10 DEF Spends
  <2>10. CASE q # p
    <3>1. OwnUnits(q)' = U /\ OwnUnits(q)' \ U = {}
      BY <2>5, <2>10
    <3>2. Cardinality(OwnUnits(q)' \ U) = 0
      BY <3>1, FS_EmptySet, Zenon
    <3>3. Bought(q) = 0
      BY <1>1, <2>3, <2>7, <3>2
    <3>4. Wealth(q)' = Wealth(q)
      BY <1>2, <2>6, <2>8, <2>10, <3>1, Zenon
    <3>5. Wealth(q) \in Int
      BY <1>2, <2>8 DEF U
    <3>6. QED
      BY <3>3, <3>4, <3>5 DEF Spends
  <2>11. QED
    BY <2>9, <2>10
<1>5. QED
  BY <1>3, <1>4 DEF Manufact

(* repairUnit: twice the restored health is paid.                           *)
LEMMA RepairSpends ==
    ASSUME IInv, NEW p \in Players, NEW raw \in RawIds, Repair(p, raw), NEW q \in Players
    PROVE  Spends(q)
<1> DEFINE o == slot[<<p, UnitId(raw)>>]
           U == OwnUnits(q)
<1>1. o \in units /\ o \in Objects /\ Owner(o) = p
  <2>1. Serviceable(p, UnitId(raw))
    BY DEF Repair
  <2>2. <<p, UnitId(raw)>> \in Slots /\ o \in units /\ o \in Objects
    BY <2>1, ServiceableUnit
  <2>3. SlotOf[o] = <<p, UnitId(raw)>>
    BY <2>1, <2>2 DEF IInv, SlotsMatchUnits, Serviceable
  <2>4. QED
    BY <2>2, <2>3 DEF Owner
<1>2. /\ baseEnergy' = [baseEnergy EXCEPT ![p] = @ - RepairCost(o)]
      /\ health' = [health EXCEPT ![o] = UnitHealth]
      /\ UNCHANGED <<unitState, energy, upgrades>>
      /\ units' = units /\ energy' = energy /\ upgrades' = upgrades
  BY DEF Repair, unitState
<1> HIDE DEF o
<1>3. /\ Total(energy, U) \in Int /\ baseEnergy[q] \in Nat
      /\ RepairCost(o) \in Int /\ RepairCost(o) = 2 * (UnitHealth - health[o])
      /\ health[o] \in Int /\ UnitHealth \in Int
      /\ baseEnergy'[q] = IF q = p THEN baseEnergy[q] - RepairCost(o) ELSE baseEnergy[q]
  BY <1>1, <1>2, EnergyTotal, RuleAssumption DEF IInv, TypeOK, RepairCost
<1>4. IsFiniteSet(U) /\ U \subseteq Objects
  BY UnitsFinite
<1>5. Total(energy', U) = Total(energy, U)
  BY <1>2, Zenon
<1>6. CASE q = p
  <2>1. o \in U
    BY <1>1, <1>6 DEF OwnUnits
  <2> HIDE DEF U
  <2>2. \A u \in U \ {o} : Restored[u] = 0
    BY <1>2, <1>4 DEF Restored, IInv, TypeOK
  <2>3. Restored[o] = UnitHealth - health[o]
    BY <1>1, <1>2 DEF Restored, IInv, TypeOK
  <2>4. Total(Restored, U) = Restored[o]
    BY <1>3, <1>4, <2>1, <2>2, <2>3, TotalOne
  <2>5. \A u \in U : Upgraded[u] = 0
    BY <1>2, <1>4, UpgradedIs
  <2>6. Total(Upgraded, U) = 0
    BY <1>4, <2>5, TotalZero
  <2>7. /\ 2 * Total(Restored, U) + Total(Upgraded, U) = RepairCost(o)
        /\ Total(Restored, U) \in Int /\ Total(Upgraded, U) \in Int
    BY <1>3, <2>3, <2>4, <2>6
  <2>8. /\ baseEnergy'[q] \in Int /\ Total(energy', U) \in Int
        /\ baseEnergy'[q] + Total(energy', U) + RepairCost(o) <= baseEnergy[q] + Total(energy, U)
    BY <1>3, <1>5, <1>6
  <2>9. QED
    BY <1>2, <1>3, <2>7, <2>8, SpendsIf DEF U
<1>7. CASE q # p
  <2>1. \A u \in U : health'[u] = health[u] /\ upgrades'[u] = upgrades[u]
    BY <1>1, <1>2, <1>4, <1>7 DEF OwnUnits, IInv, TypeOK
  <2>2. Total(Restored, U) = 0 /\ Total(Upgraded, U) = 0
    BY <2>1, NothingServiced
  <2>3. QED
    BY <1>2, <1>3, <1>5, <1>7, <2>2, SpendsIf
<1>8. QED
  BY <1>6, <1>7

(* upgradeUnit: the upgrade costs its price.                                *)
LEMMA UpgradeSpends ==
    ASSUME IInv, NEW p \in Players, NEW raw \in RawIds, NEW type \in UpgradeType,
           Upgrade(p, raw, type), NEW q \in Players
    PROVE  Spends(q)
<1> DEFINE o == slot[<<p, UnitId(raw)>>]
           U == OwnUnits(q)
<1>1. o \in units /\ o \in Objects /\ Owner(o) = p
  <2>1. Serviceable(p, UnitId(raw))
    BY DEF Upgrade
  <2>2. <<p, UnitId(raw)>> \in Slots /\ o \in units /\ o \in Objects
    BY <2>1, ServiceableUnit
  <2>3. SlotOf[o] = <<p, UnitId(raw)>>
    BY <2>1, <2>2 DEF IInv, SlotsMatchUnits, Serviceable
  <2>4. QED
    BY <2>2, <2>3 DEF Owner
<1>2. /\ baseEnergy' = [baseEnergy EXCEPT ![p] = @ - UpgradeCost[type]]
      /\ type \notin upgrades[o]
      /\ upgrades' = [upgrades EXCEPT ![o] = @ \cup {type}]
      /\ UNCHANGED <<unitState, energy, health>>
      /\ units' = units /\ energy' = energy /\ health' = health
  BY DEF Upgrade, unitState
<1> HIDE DEF o
<1>3. /\ Total(energy, U) \in Int /\ baseEnergy[q] \in Nat
      /\ UpgradeCost[type] \in Int
      /\ baseEnergy'[q] = IF q = p THEN baseEnergy[q] - UpgradeCost[type] ELSE baseEnergy[q]
  BY <1>2, EnergyTotal, RuleAssumption DEF IInv, TypeOK
<1>4. IsFiniteSet(U) /\ U \subseteq Objects
  BY UnitsFinite
<1>5. Total(energy', U) = Total(energy, U)
  BY <1>2, Zenon
<1>6. CASE q = p
  <2>1. o \in U
    BY <1>1, <1>6 DEF OwnUnits
  <2> HIDE DEF U
  <2>2. \A u \in U \ {o} : Upgraded[u] = 0
    <3>1. \A u \in U \ {o} : upgrades'[u] = upgrades[u] /\ u \in Objects
      BY <1>2, <1>4 DEF IInv, TypeOK
    <3>2. QED
      BY <3>1, UpgradedIs
  <2>3. Upgraded[o] = UpgradeCost[type]
    <3>1. upgrades'[o] \ upgrades[o] = {type}
      BY <1>1, <1>2 DEF IInv, TypeOK
    <3>2. QED
      BY <1>1, <3>1, UpgradedIs
  <2>4. Total(Upgraded, U) = UpgradeCost[type]
    BY <1>3, <1>4, <2>1, <2>2, <2>3, TotalOne
  <2>5. \A u \in U : Restored[u] = 0
    BY <1>2, <1>4 DEF Restored, IInv, TypeOK
  <2>6. Total(Restored, U) = 0
    BY <1>4, <2>5, TotalZero
  <2>7. /\ 2 * Total(Restored, U) + Total(Upgraded, U) = UpgradeCost[type]
        /\ Total(Restored, U) \in Int /\ Total(Upgraded, U) \in Int
    BY <1>3, <2>4, <2>6
  <2>8. /\ baseEnergy'[q] \in Int /\ Total(energy', U) \in Int
        /\ baseEnergy'[q] + Total(energy', U) + UpgradeCost[type] <= baseEnergy[q] + Total(energy, U)
    BY <1>3, <1>5, <1>6
  <2>9. QED
    BY <1>2, <1>3, <2>7, <2>8, SpendsIf DEF U
<1>7. CASE q # p
  <2>1. \A u \in U : health'[u] = health[u] /\ upgrades'[u] = upgrades[u]
    BY <1>1, <1>2, <1>4, <1>7 DEF OwnUnits, IInv, TypeOK
  <2>2. Total(Restored, U) = 0 /\ Total(Upgraded, U) = 0
    BY <2>1, NothingServiced
  <2>3. QED
    BY <1>2, <1>3, <1>5, <1>7, <2>2, SpendsIf
<1>8. QED
  BY <1>6, <1>7

(* The base of a unit's owner.                                              *)
LEMMA OwnerHasBase ==
    ASSUME IInv, NEW o \in Objects
    PROVE  /\ Owner(o) \in Players /\ energy[o] \in Nat
           /\ baseEnergy[Owner(o)] \in Nat
<1>1. SlotOf[o] \in Players \X Ids
  BY ObjectAssumption DEF Slots
<1>2. Owner(o) \in Players
  BY <1>1 DEF Owner
<1>3. QED
  BY <1>2, RuleAssumption DEF IInv, TypeOK

(* Deposits and withdrawals: what one side gains the other side pays, and   *)
(* what does not fit is lost.                                               *)
LEMMA TransferSpends ==
    ASSUME IInv, NEW o \in units, NEW e \in Nat, NEW b \in Nat,
           e + b <= energy[o] + baseEnergy[Owner(o)],
           energy' = [energy EXCEPT ![o] = e],
           baseEnergy' = [baseEnergy EXCEPT ![Owner(o)] = b],
           UNCHANGED <<unitState, health, upgrades>>, NEW q \in Players
    PROVE  Spends(q)
<1> DEFINE U == OwnUnits(q)
<1>1. units' = units /\ health' = health /\ upgrades' = upgrades
  BY DEF unitState
<1>2. Total(Restored, U) = 0 /\ Total(Upgraded, U) = 0
  BY <1>1, NothingServiced
<1>3. Total(energy, U) \in Int /\ baseEnergy[q] \in Nat
  BY EnergyTotal
<1>4. /\ o \in Objects /\ Owner(o) \in Players /\ energy[o] \in Nat
      /\ baseEnergy[Owner(o)] \in Nat
  <2>1. o \in Objects
    BY DEF IInv, TypeOK
  <2>2. QED
    BY <2>1, OwnerHasBase
<1>5. baseEnergy'[q] = IF q = Owner(o) THEN b ELSE baseEnergy[q]
  BY <1>4 DEF IInv, TypeOK
<1>6. \A u \in U : energy[u] \in Int /\ energy'[u] \in Int
  BY UnitsFinite DEF IInv, TypeOK
<1>7. \A u \in U \ {o} : energy'[u] = energy[u]
  BY UnitsFinite DEF IInv, TypeOK
<1>8. CASE q = Owner(o)
  <2>1. o \in U
    BY <1>8 DEF OwnUnits
  <2>2. energy'[o] = e
    BY <1>4 DEF IInv, TypeOK
  <2>3. Total(energy', U) = Total(energy, U) + energy'[o] - energy[o]
    <3>1. IsFiniteSet(U)
      BY UnitsFinite
    <3> HIDE DEF U
    <3>2. PICK f, g : f = energy /\ g = energy'
      OBVIOUS
    <3>3. /\ \A u \in U : f[u] \in Int /\ g[u] \in Int
          /\ \A u \in U \ {o} : g[u] = f[u]
      BY <1>6, <1>7, <3>2
    <3>4. Total(g, U) = Total(f, U) + g[o] - f[o]
      BY <2>1, <3>1, <3>3, TotalChange
    <3>5. QED
      BY <3>2, <3>4, Zenon
  <2> HIDE DEF U
  <2>4. /\ baseEnergy'[q] \in Int /\ Total(energy', U) \in Int
        /\ baseEnergy'[q] + Total(energy', U) + 0 <= baseEnergy[q] + Total(energy, U)
    BY <1>3, <1>4, <1>5, <1>8, <2>2, <2>3
  <2>5. QED
    <3>1. 0 \in Int /\ 2 * Total(Restored, U) + Total(Upgraded, U) = 0
          /\ Total(Restored, U) \in Int /\ Total(Upgraded, U) \in Int
      BY <1>2
    <3>2. QED
      BY <1>1, <2>4, <3>1, SpendsIf DEF U
<1>9. CASE q # Owner(o)
  <2>1. o \notin U
    BY <1>9 DEF OwnUnits
  <2>2. Total(energy', U) = Total(energy, U)
    BY <1>6, <1>7, <2>1, UnitsFinite, TotalSame
  <2> HIDE DEF U
  <2>3. /\ baseEnergy'[q] \in Int /\ Total(energy', U) \in Int
        /\ baseEnergy'[q] + Total(energy', U) + 0 <= baseEnergy[q] + Total(energy, U)
    BY <1>3, <1>5, <1>9, <2>2
  <2>4. QED
    <3>1. 0 \in Int /\ 2 * Total(Restored, U) + Total(Upgraded, U) = 0
          /\ Total(Restored, U) \in Int /\ Total(Upgraded, U) \in Int
      BY <1>2
    <3>2. QED
      BY <1>1, <2>3, <3>1, SpendsIf DEF U
<1>10. QED
  BY <1>8, <1>9

(* Every step within a turn.                                                *)
LEMMA StepSpends ==
    ASSUME IInv, [Next]_vars, turn' = turn, NEW q \in Players
    PROVE  Spends(q)
<1>1. CASE UNCHANGED vars
  BY <1>1, IdleSpends, EnergyTotal DEF vars
<1>2. CASE EndBaseProgram
  BY <1>2, IdleSpends, EnergyTotal DEF EndBaseProgram
<1>3. ASSUME NEW hit \in SUBSET units, NewTurn(hit) PROVE FALSE
  BY <1>3 DEF NewTurn, IInv, TypeOK
<1>4. ASSUME NEW o \in Objects, NEW amount \in Amounts, Deposit(o, amount)
      PROVE  Spends(q)
  <2>1. /\ o \in units /\ energy[o] \in Nat /\ Owner(o) \in Players
        /\ baseEnergy[Owner(o)] \in Nat /\ amount \in Nat /\ amount <= energy[o]
        /\ EnergyLimit - 1 \in Nat
    BY <1>4, OwnerHasBase, RuleAssumption DEF Deposit, MayTransfer
  <2>2. energy[o] - amount \in Nat
    BY <2>1
  <2>3. /\ AtMost(EnergyLimit - 1, baseEnergy[Owner(o)] + amount) \in Nat
        /\ AtMost(EnergyLimit - 1, baseEnergy[Owner(o)] + amount) <= baseEnergy[Owner(o)] + amount
    BY <2>1 DEF AtMost
  <2>4. /\ energy' = [energy EXCEPT ![o] = energy[o] - amount]
        /\ baseEnergy' = [baseEnergy EXCEPT
                            ![Owner(o)] = AtMost(EnergyLimit - 1, baseEnergy[Owner(o)] + amount)]
        /\ UNCHANGED <<unitState, health, upgrades>>
    BY <1>4 DEF Deposit
  <2>5. energy[o] - amount + AtMost(EnergyLimit - 1, baseEnergy[Owner(o)] + amount)
          <= energy[o] + baseEnergy[Owner(o)]
    BY <2>1, <2>3
  <2>6. QED
    BY <2>1, <2>2, <2>3, <2>4, <2>5, TransferSpends
<1>5. ASSUME NEW o \in Objects, NEW amount \in Amounts, Withdraw(o, amount)
      PROVE  Spends(q)
  <2>1. /\ o \in units /\ energy[o] \in Nat /\ Owner(o) \in Players
        /\ baseEnergy[Owner(o)] \in Nat /\ amount \in Nat /\ amount <= baseEnergy[Owner(o)]
    BY <1>5, OwnerHasBase, RuleAssumption DEF Withdraw, MayTransfer
  <2>2. baseEnergy[Owner(o)] - amount \in Nat
    BY <2>1
  <2>3. /\ AtMost(maxCapacity(o), energy[o] + amount) \in Nat
        /\ AtMost(maxCapacity(o), energy[o] + amount) <= energy[o] + amount
    BY <2>1, CapacityRange DEF AtMost
  <2>4. /\ energy' = [energy EXCEPT ![o] = AtMost(maxCapacity(o), energy[o] + amount)]
        /\ baseEnergy' = [baseEnergy EXCEPT ![Owner(o)] = baseEnergy[Owner(o)] - amount]
        /\ UNCHANGED <<unitState, health, upgrades>>
    BY <1>5 DEF Withdraw
  <2>5. AtMost(maxCapacity(o), energy[o] + amount) + (baseEnergy[Owner(o)] - amount)
          <= energy[o] + baseEnergy[Owner(o)]
    BY <2>1, <2>3
  <2>6. QED
    BY <2>1, <2>2, <2>3, <2>4, <2>5, TransferSpends
<1>6. QED
  BY <1>1, <1>2, <1>3, <1>4, <1>5, ManufactSpends, RepairSpends, UpgradeSpends DEF Next

(* For every map, rule set and number of units: whatever the programs of a  *)
(* turn do (manufact, repair, upgrade, deposit and withdraw, in any order), *)
(* a player's energy never grows and pays for all that is bought.           *)
THEOREM EnergyIsOnlySpent == Spec => ProgramsOnlySpend
<1>1. IInv /\ [Next]_vars => [turn' = turn => \A p \in Players : Wealth(p)' + Bought(p) <= Wealth(p)]_vars
  BY StepSpends DEF Spends
<1>2. QED
  BY <1>1, InitIInv, NextIInv, PTL DEF Spec, ProgramsOnlySpend

-----------------------------------------------------------------------------
(***************************************************************************)
(* The end of the match: Match, for every threshold, judge and turn limit.  *)
(* It shares no state with the economy.                                     *)
(***************************************************************************)
\* While nobody has won, a counter is the length of the streak, and a base
\* that has been captured together with the other stays one turn short.
CounterInv ==
    termination # "Victory" =>
        /\ winner = 0
        /\ Captured(1) <=> Captured(2)
        /\ \A p \in PlayerIds :
             counter[p] = IF Captured(p) THEN Threshold - 1 ELSE streak[p]

\* Where the loop of the driver is and what it knows there.
DriverInv ==
    /\ pc \in {"loop", "signal", "judge"} => termination = "Ongoing" /\ exitCode = 0
    /\ pc # "done" => endMarker = "none"
    /\ exitCode = 1 <=> pc \in {"end", "done"} /\ termination = "Ongoing"
    /\ exitCode = 1 => signal
    /\ frames = tick

\* The limit of the judge has not been passed.
LimitInv ==
    /\ kind = "dynamic" => maxTurn = StartLimit + Extension(seen)
    /\ kind = "dynamic" /\ pc = "loop" => tick < maxTurn
    /\ kind = "dynamic" /\ pc \in {"signal", "judge"} => tick <= maxTurn
    /\ kind = "max_ticks" /\ MaxTicks # 0 /\ pc = "loop" => tick < MaxTicks
    /\ kind = "max_ticks" /\ MaxTicks # 0 /\ pc \in {"signal", "judge"} => tick <= MaxTicks

MatchInv ==
    /\ MatchTypeOK
    /\ CounterInv
    /\ VictoryByCapture
    /\ DriverInv
    /\ ReplayTellsTheOutcome
    /\ LimitInv
    /\ DrawAtTheLimit

-----------------------------------------------------------------------------
(* The invariant holds at the start.                                        *)
LEMMA MatchInvInit ==
    ASSUME MatchInit
    PROVE  MatchInv
<1> USE MatchAssumption DEF MatchInit, PlayerIds
<1>1. MatchTypeOK
  <2>1. signal \in BOOLEAN
    OBVIOUS
  <2>2. 0 \in 0 .. Threshold /\ 0 \in Nat /\ maxTurn \in Nat
    OBVIOUS
  <2>3. counter \in [PlayerIds -> 0 .. Threshold] /\ streak \in [PlayerIds -> 0 .. Threshold]
    BY <2>2
  <2>4. QED
    BY <2>1, <2>2, <2>3 DEF MatchTypeOK
<1>2. \A p \in PlayerIds : ~Captured(p)
  BY DEF Captured
<1>3. CounterInv /\ VictoryByCapture
  BY <1>2 DEF CounterInv, VictoryByCapture
<1>4. DriverInv /\ ReplayTellsTheOutcome
  BY DEF DriverInv, ReplayTellsTheOutcome
<1>5. Extension(seen) = 0
  BY DEF Extension
<1>6. LimitInv /\ DrawAtTheLimit
  BY <1>5 DEF LimitInv, DrawAtTheLimit
<1>7. QED
  BY <1>1, <1>3, <1>4, <1>6 DEF MatchInv

(* The capture check keeps the counters in step with the streaks and ends    *)
(* the match exactly when one base alone is captured.                        *)
LEMMA StepCapture ==
    ASSUME MatchInv, Step
    PROVE  /\ counter' \in [PlayerIds -> 0 .. Threshold]
           /\ streak' \in [PlayerIds -> 0 .. Threshold]
           /\ termination' \in {"Ongoing", "Victory"}
           /\ winner' \in {0, 1, 2}
           /\ CounterInv'
           /\ VictoryByCapture'
<1> USE MatchAssumption DEF MatchInv, MatchTypeOK, PlayerIds
<1>1. PICK here \in Presence :
        /\ CheckBaseCapture(here)
        /\ streak' = [p \in PlayerIds |->
                         IF ~InCaptureCondition(here, p) THEN 0
                         ELSE IF streak[p] < Threshold THEN streak[p] + 1 ELSE streak[p]]
  BY DEF Step
<1>2. /\ termination = "Ongoing" /\ winner = 0
      /\ Captured(1) <=> Captured(2)
      /\ \A p \in PlayerIds : counter[p] = IF Captured(p) THEN Threshold - 1 ELSE streak[p]
  BY DEF Step, gameOver, CounterInv
<1> DEFINE c == NewCounter(here)
<1>3. c \in [PlayerIds -> 0 .. Threshold]
  BY <1>2 DEF NewCounter, Captured
<1>4. streak' \in [PlayerIds -> 0 .. Threshold]
  BY <1>1
<1>5. \A p \in PlayerIds : Captured(p)' <=> c[p] = Threshold
  BY <1>1, <1>2 DEF NewCounter, Captured
<1>6. \A p \in PlayerIds : c[p] < Threshold => c[p] = streak'[p]
  BY <1>1, <1>2 DEF NewCounter, Captured
<1> HIDE DEF c
<1>7. CASE c[1] = Threshold /\ c[2] = Threshold
  <2>1. counter' = [p \in PlayerIds |-> c[p] - 1] /\ termination' = termination /\ winner' = winner
    BY <1>1, <1>7 DEF CheckBaseCapture, SteppedBack, c
  <2>2. QED
    BY <1>2, <1>3, <1>4, <1>5, <1>7, <2>1 DEF CounterInv, VictoryByCapture
<1>8. CASE ~(c[1] = Threshold /\ c[2] = Threshold)
  <2>1. /\ counter' = c
        /\ IF \E p \in PlayerIds : c[p] >= Threshold
           THEN termination' = "Victory" /\ winner' = IF c[1] >= Threshold THEN 2 ELSE 1
           ELSE termination' = termination /\ winner' = winner
    BY <1>1, <1>8 DEF CheckBaseCapture, SteppedBack, c
  <2>2. CASE \E p \in PlayerIds : c[p] >= Threshold
    BY <1>3, <1>4, <1>5, <1>8, <2>1, <2>2 DEF CounterInv, VictoryByCapture
  <2>3. CASE ~ \E p \in PlayerIds : c[p] >= Threshold
    BY <1>2, <1>3, <1>4, <1>5, <1>6, <2>1, <2>3 DEF CounterInv, VictoryByCapture
  <2>4. QED
    BY <2>2, <2>3
<1>9. QED
  BY <1>7, <1>8

(* New events extend the limit by what they add to the total.               *)
LEMMA ExtensionAdds ==
    ASSUME NEW old \in SUBSET Events, NEW more \in SUBSET Events
    PROVE  /\ Extension(old \cup more) = Extension(old) + Extension(more \ old)
           /\ Extension(old) \in Nat
  BY MatchAssumption DEF Extension

(* The invariant is inductive: one step per action of Next.                 *)
LEMMA MatchInvStep ==
    ASSUME MatchInv, [MatchNext]_matchVars
    PROVE  MatchInv'
<1> USE MatchAssumption
<1>1. CASE Step
  <2>1. /\ counter' \in [PlayerIds -> 0 .. Threshold]
        /\ streak' \in [PlayerIds -> 0 .. Threshold]
        /\ termination' \in {"Ongoing", "Victory"}
        /\ winner' \in {0, 1, 2}
        /\ CounterInv'
        /\ VictoryByCapture'
    BY <1>1, StepCapture
  <2>2. /\ tick' = Counted(tick) /\ frames' = Counted(frames)
        /\ pc = "loop" /\ termination = "Ongoing"
        /\ pc' = IF termination' # "Ongoing" THEN "end" ELSE "signal"
        /\ kind' = kind /\ seen' = seen /\ maxTurn' = maxTurn /\ signal' = signal
        /\ exitCode' = exitCode /\ endMarker' = endMarker
    BY <1>1 DEF Step, judge, gameOver
  <2>3. turnEvents' \subseteq Events
    <3>1. PICK here \in Presence, others \in EventSets :
            turnEvents' = IF \E p \in PlayerIds : InCaptureCondition(here, p)
                      THEN others \cup {"base_entered_capture_condition"} ELSE others
      BY <1>1 DEF Step
    <3>2. QED
      BY <3>1 DEF Events, LargeEvents
  <2>4. tick' \in Nat /\ frames' \in Nat /\ tick' <= tick + 1 /\ tick \in Nat
        /\ (frames = tick => frames' = tick')
    BY <2>2 DEF MatchInv, MatchTypeOK, Counted
  <2>5. MatchTypeOK'
    BY <2>1, <2>2, <2>3, <2>4 DEF MatchInv, MatchTypeOK
  <2>6. DriverInv' /\ ReplayTellsTheOutcome'
    BY <2>1, <2>2, <2>4 DEF MatchInv, DriverInv, ReplayTellsTheOutcome
  <2>7. LimitInv' /\ DrawAtTheLimit'
    BY <2>1, <2>2, <2>4 DEF MatchInv, LimitInv, DrawAtTheLimit, MatchTypeOK, Extension
  <2>8. QED
    BY <2>1, <2>5, <2>6, <2>7 DEF MatchInv
<1>2. CASE ReceiveSignal
  BY <1>2 DEF ReceiveSignal, world, judge, output, MatchInv, MatchTypeOK,
       CounterInv,
       VictoryByCapture, Captured, DriverInv, ReplayTellsTheOutcome, LimitInv,
       DrawAtTheLimit
<1>3. CASE CheckSignal
  BY <1>3 DEF CheckSignal, world, judge, MatchInv, MatchTypeOK, CounterInv,
       VictoryByCapture, Captured, DriverInv, ReplayTellsTheOutcome, LimitInv,
       DrawAtTheLimit
<1>4. CASE AskJudge
  <2>1. /\ pc = "judge" /\ termination = "Ongoing"
        /\ UNCHANGED <<tick, counter, turnEvents, winner, streak, exitCode, frames, endMarker, signal>>
        /\ IF ShouldDraw THEN termination' = "RuleDraw" /\ pc' = "end"
           ELSE termination' = "Ongoing" /\ pc' = "loop"
    BY <1>4 DEF AskJudge, gameOver, output, MatchInv, DriverInv
  <2>2. kind' = kind /\ seen' \subseteq Events /\ maxTurn' \in Nat /\ maxTurn' >= maxTurn
        /\ (kind = "dynamic" => maxTurn' = StartLimit + Extension(seen'))
        /\ (kind # "dynamic" => UNCHANGED judge)
    <3>1. CASE kind = "dynamic"
      <4>1. kind' = kind /\ seen' = seen \cup turnEvents /\ maxTurn' = maxTurn + Extension(turnEvents \ seen)
        BY <1>4, <3>1 DEF AskJudge, ObserveEvents
      <4>2. Extension(seen') = Extension(seen) + Extension(turnEvents \ seen)
            /\ Extension(seen) \in Nat /\ Extension(turnEvents \ seen) \in Nat
        BY <4>1, ExtensionAdds DEF MatchInv, MatchTypeOK
      <4>3. QED
        BY <3>1, <4>1, <4>2 DEF MatchInv, MatchTypeOK, LimitInv
    <3>2. CASE kind # "dynamic"
      BY <1>4, <3>2 DEF AskJudge, ObserveEvents, judge, MatchInv, MatchTypeOK
    <3>3. QED
      BY <3>1, <3>2
  <2>3. MatchTypeOK'
    BY <2>1, <2>2 DEF MatchInv, MatchTypeOK
  <2>4. CounterInv' /\ VictoryByCapture'
    BY <2>1 DEF MatchInv, CounterInv, VictoryByCapture, Captured
  <2>5. DriverInv' /\ ReplayTellsTheOutcome'
    BY <2>1 DEF MatchInv, DriverInv, ReplayTellsTheOutcome
  <2>6. LimitInv' /\ DrawAtTheLimit'
    <3>1. CASE kind = "dynamic"
      BY <2>1, <2>2, <3>1 DEF MatchInv, MatchTypeOK, LimitInv, DrawAtTheLimit, ShouldDraw
    <3>2. CASE kind = "max_ticks"
      BY <2>1, <2>2, <3>2 DEF MatchInv, MatchTypeOK, LimitInv, DrawAtTheLimit, ShouldDraw
    <3>3. CASE kind = "noop"
      BY <2>1, <2>2, <3>3 DEF MatchInv, LimitInv, DrawAtTheLimit, ShouldDraw
    <3>4. QED
      BY <3>1, <3>2, <3>3 DEF MatchInv, MatchTypeOK
  <2>7. QED
    BY <2>3, <2>4, <2>5, <2>6 DEF MatchInv
<1>5. CASE WriteEnd
  <2>1. /\ pc = "end" /\ pc' = "done"
        /\ endMarker' = CASE termination = "Victory" -> "Completed"
                          [] termination = "RuleDraw" -> "RuleDraw"
                          [] termination = "Ongoing" -> "Aborted"
        /\ UNCHANGED <<tick, counter, turnEvents, termination, winner, streak,
                       kind, seen, maxTurn, exitCode, frames, signal>>
    BY <1>5 DEF WriteEnd, world, judge
  <2>2. /\ termination = "Victory" => endMarker' = "Completed"
        /\ termination = "RuleDraw" => endMarker' = "RuleDraw"
        /\ termination = "Ongoing" => endMarker' = "Aborted"
    BY <2>1
  <2>3. QED
    BY <2>1, <2>2 DEF MatchInv, MatchTypeOK, CounterInv, VictoryByCapture, Captured,
         DriverInv, ReplayTellsTheOutcome, LimitInv, DrawAtTheLimit
<1>6. CASE UNCHANGED matchVars
  BY <1>6 DEF matchVars, world, judge, output, MatchInv, MatchTypeOK, CounterInv,
       VictoryByCapture, Captured, DriverInv, ReplayTellsTheOutcome, LimitInv,
       DrawAtTheLimit
<1>7. QED
  BY <1>1, <1>2, <1>3, <1>4, <1>5, <1>6 DEF MatchNext, Driver, Exited

(* Whatever the units and the programs do, a match is won exactly by the    *)
(* rule of capture, drawn exactly at the judge's limit, and the replay's    *)
(* end marker and the exit code report that outcome.                        *)
THEOREM MatchSafety ==
    MatchSpec => [](/\ MatchTypeOK /\ VictoryByCapture
                    /\ ReplayTellsTheOutcome /\ DrawAtTheLimit)
<1>1. MatchInv => MatchTypeOK /\ VictoryByCapture /\ ReplayTellsTheOutcome /\ DrawAtTheLimit
  BY DEF MatchInv
<1>2. QED
  BY MatchInvInit, MatchInvStep, <1>1, PTL DEF MatchSpec

(* Type correctness of the match, its judge and the headless driver.        *)
THEOREM MatchTypeCorrect == MatchSpec => []MatchTypeOK
  BY MatchSafety, PTL

(* What the headless driver reports, in the end marker and in its exit      *)
(* code, is the outcome of the match.                                       *)
THEOREM ReportedOutcome == MatchSpec => []ReplayTellsTheOutcome
  BY MatchSafety, PTL

(* Every kind of event extends the match once, and a draw is declared       *)
(* exactly at the limit of the judge.                                       *)
THEOREM DrawLimit == MatchSpec => []DrawAtTheLimit
  BY MatchSafety, PTL

(* The outcome of a match that is over never changes.                       *)
THEOREM FinalOutcome == MatchSpec => OutcomeIsFinal
<1>1. MatchInv /\ [MatchNext]_matchVars =>
        [termination # "Ongoing" => UNCHANGED <<termination, winner, tick, counter, frames>>]_matchVars
  BY DEF MatchInv, DriverInv, MatchNext, Driver, Step, CheckSignal, AskJudge,
       WriteEnd,
       ReceiveSignal, Exited, matchVars, world, judge, output,
       gameOver
<1>2. QED
  BY MatchInvInit, MatchInvStep, <1>1, PTL DEF MatchSpec, OutcomeIsFinal
=============================================================================
