---------------------------- MODULE CombatProofs ----------------------------
(***************************************************************************)
(* Proofs about Combat for every map, every number of units and bullets and *)
(* every order in which _units and _bullets are gone through.               *)
(***************************************************************************)
EXTENDS Combat, WellFoundedInduction, TLAPS

InFlight == ElementsOf(bullets)

\* What TypeOK leaves open: the sequences, the cursor and the counters.
SequencesOK ==
    /\ turn \in Nat
    /\ cursor \in Nat \ {0}
    /\ units \in Seq(Units)
    /\ bullets \in Seq(BulletIds)
    /\ lastBullet \in [Units -> Int]

\* A tile points to a bullet that _bullets still owns and that is there.
BulletTiles ==
    \A t \in Tiles : occupant[t] \in BulletIds =>
        occupant[t] \in InFlight /\ bpos[occupant[t]] = t

\* The turns since a unit's last bullet; in "programs" the turn to come counts.
Waited(u) == turn - lastBullet[u] + (IF phase = "programs" THEN 1 ELSE 0)

\* The cooldown is at least what is left to wait, and a pending attack waits for
\* nothing any more.
CooldownInv ==
    \A u \in Units :
        /\ cooldown[u] + Waited(u) >= AttackCooldown
        /\ attack[u].damage > 0 => Waited(u) >= AttackCooldown

IInv ==
    /\ TypeOK
    /\ SequencesOK
    /\ TilesAgree
    /\ BulletTiles
    /\ CooldownInv

-----------------------------------------------------------------------------
(* Sequences.                                                               *)

(* A set of natural numbers has a least element.                            *)
LEMMA LeastElement ==
    ASSUME NEW M \in SUBSET Nat, M # {}
    PROVE  \E m \in M : \A k \in M : m <= k
<1>1. PICK m \in M : \A k \in M : <<k, m>> \notin OpToRel(<, Nat)
  BY WFMin, NatLessThanWellFounded, Zenon
<1>2. \A k \in M : ~(k < m)
  BY <1>1, Zenon DEF OpToRel
<1>3. QED
  BY <1>2

(* Induction over the natural numbers, for a set of them.                   *)
LEMMA SetInduction ==
    ASSUME NEW T \in SUBSET Nat, 0 \in T, \A n \in T : n + 1 \in T
    PROVE  T = Nat
<1>1. SUFFICES ASSUME Nat \ T # {} PROVE FALSE
  OBVIOUS
<1>2. PICK m \in Nat \ T : \A k \in Nat \ T : m <= k
  BY <1>1, LeastElement
<1>3. m - 1 \in T
  BY <1>2
<1>4. QED
  BY <1>2, <1>3

(* A longer sequence has the new element as well.                           *)
LEMMA AppendedElement ==
    ASSUME NEW S, NEW s \in Seq(S), NEW x \in S
    PROVE  ElementsOf(Append(s, x)) = ElementsOf(s) \cup {x}
<1> DEFINE a == Append(s, x)
<1>1. /\ Len(a) = Len(s) + 1 /\ a[Len(s) + 1] = x /\ Len(s) \in Nat
      /\ \A i \in 1 .. Len(s) : a[i] = s[i]
  OBVIOUS
<1> HIDE DEF a
<1>2. 1 .. Len(a) = (1 .. Len(s)) \cup {Len(s) + 1}
  BY <1>1
<1>3. {a[i] : i \in 1 .. Len(a)} = {s[i] : i \in 1 .. Len(s)} \cup {x}
  BY <1>1, <1>2
<1>4. QED
  BY <1>3 DEF a, ElementsOf

(* The elements that erase_if keeps: those of the sequence that are in K.   *)
LEMMA KeptElements ==
    ASSUME NEW S, NEW s \in Seq(S), NEW K
    PROVE  Kept(s, K) \in Seq(S) /\ ElementsOf(Kept(s, K)) = ElementsOf(s) \cap K
<1> DEFINE Value(f, i) == IF i = 0 THEN <<>>
                          ELSE IF s[i] \in K THEN Append(f[i - 1], s[i]) ELSE f[i - 1]
           Defined(n) == \E f : f = [i \in 0 .. n |-> Value(f, i)]
           T == {n \in Nat : n <= Len(s) => Defined(n)}
<1>1. 0 \in T
  <2> DEFINE f == [i \in 0 .. 0 |-> <<>>]
  <2>1. f = [i \in 0 .. 0 |-> Value(f, i)]
    OBVIOUS
  <2>2. QED
    BY <2>1
<1>2. ASSUME NEW n \in T, n + 1 <= Len(s)
      PROVE  Defined(n + 1)
  <2>1. PICK f : f = [i \in 0 .. n |-> Value(f, i)]
    BY <1>2
  <2> DEFINE g == [i \in 0 .. n + 1 |-> IF i <= n THEN f[i] ELSE Value(f, i)]
  <2>2. ASSUME NEW i \in 0 .. n + 1 PROVE g[i] = Value(g, i)
    <3>1. CASE i = 0
      BY <2>1, <3>1
    <3>2. CASE i # 0 /\ i <= n
      <4>1. g[i] = f[i] /\ g[i - 1] = f[i - 1]
        BY <3>2
      <4>2. f[i] = Value(f, i)
        <5> HIDE DEF Value
        <5> QED BY <2>1, <3>2
      <4>3. QED
        BY <3>2, <4>1, <4>2
    <3>3. CASE i = n + 1
      <4>1. g[i] = Value(f, i) /\ g[i - 1] = f[i - 1]
        BY <3>3
      <4>2. QED
        BY <3>3, <4>1
    <3>4. QED
      BY <3>1, <3>2, <3>3
  <2>3. g = [i \in 0 .. n + 1 |-> Value(g, i)]
    <3> DEFINE h == [i \in 0 .. n + 1 |-> Value(g, i)]
    <3>1. \A i \in 0 .. n + 1 : g[i] = h[i]
      BY <2>2
    <3> HIDE DEF Value
    <3>2. QED
      BY <3>1
  <2>4. QED
    BY <2>3
<1>3. Defined(Len(s))
  <2> HIDE DEF Defined
  <2>1. \A n \in T : n + 1 \in T
    BY <1>2
  <2>2. T \in SUBSET Nat
    OBVIOUS
  <2>3. T = Nat
    <3> HIDE DEF T
    <3> QED BY <1>1, <2>1, <2>2, SetInduction
  <2>4. QED
    BY <2>3
<1> DEFINE kept == CHOOSE f : f = [i \in 0 .. Len(s) |-> Value(f, i)]
<1>4. kept = [i \in 0 .. Len(s) |-> Value(kept, i)]
  BY <1>3
<1>5. Kept(s, K) = kept[Len(s)]
  BY DEF Kept
<1> HIDE DEF kept
<1>6. /\ kept[0] = <<>>
      /\ \A i \in 1 .. Len(s) : kept[i] = IF s[i] \in K THEN Append(kept[i - 1], s[i])
                                        ELSE kept[i - 1]
  <2>1. \A i \in 0 .. Len(s) : kept[i] = Value(kept, i)
    <3> HIDE DEF Value
    <3> QED BY <1>4
  <2>2. QED
    BY <2>1
<1> DEFINE Right(n) == /\ kept[n] \in Seq(S)
                       /\ ElementsOf(kept[n]) = {s[i] : i \in 1 .. n} \cap K
           R == {n \in Nat : n <= Len(s) => Right(n)}
<1>7. 0 \in R
  <2>1. <<>> \in Seq(S) /\ Len(<<>>) = 0
    OBVIOUS
  <2>2. ElementsOf(<<>>) = {}
    BY <2>1 DEF ElementsOf
  <2>3. {s[i] : i \in 1 .. 0} = {}
    OBVIOUS
  <2>4. QED
    BY <1>6, <2>1, <2>2, <2>3
<1>8. ASSUME NEW n \in R, n + 1 <= Len(s)
      PROVE  Right(n + 1)
  <2>1. /\ n \in Nat /\ n + 1 \in 1 .. Len(s) /\ s[n + 1] \in S
        /\ kept[n] \in Seq(S) /\ ElementsOf(kept[n]) = {s[i] : i \in 1 .. n} \cap K
    BY <1>8
  <2>2. {s[i] : i \in 1 .. n + 1} = {s[i] : i \in 1 .. n} \cup {s[n + 1]}
    BY <2>1
  <2>3. CASE s[n + 1] \in K
    <3>1. kept[n + 1] = Append(kept[n], s[n + 1])
      <4>1. (n + 1) - 1 = n
        BY <2>1
      <4>2. QED
        BY <1>6, <2>1, <2>3, <4>1
    <3>2. ElementsOf(Append(kept[n], s[n + 1])) = ElementsOf(kept[n]) \cup {s[n + 1]}
      BY <2>1, AppendedElement
    <3>3. QED
      BY <2>1, <2>2, <2>3, <3>1, <3>2
  <2>4. CASE s[n + 1] \notin K
    <3>1. kept[n + 1] = kept[n]
      BY <1>6, <2>1, <2>4
    <3>2. QED
      BY <2>1, <2>2, <2>4, <3>1
  <2>5. QED
    BY <2>3, <2>4
<1>9. Right(Len(s))
  <2> HIDE DEF Right
  <2>1. \A n \in R : n + 1 \in R
    BY <1>8
  <2>2. R \in SUBSET Nat
    OBVIOUS
  <2>3. R = Nat
    <3> HIDE DEF R
    <3> QED BY <1>7, <2>1, <2>2, SetInduction
  <2>4. QED
    BY <2>3
<1>10. QED
  BY <1>5, <1>9 DEF ElementsOf

-----------------------------------------------------------------------------
(* Collisions.  While a bullet b is on its way from one tile to another, no  *)
(* tile points to it, and everything else is where it should be.             *)

Fields == [health : [Units -> 0 .. UnitHealth],
           bdamage : [BulletIds -> 0 .. HealthLimit],
           occupant : [Tiles -> Units \cup BulletIds \cup {Nobody, Dangling}],
           registered : SUBSET Units]

UnitsAgree(f) ==
    /\ \A u \in InPlay : f.health[u] > 0 => f.occupant[pos[u]] = u
    /\ \A t \in Tiles : f.occupant[t] \in Units =>
          f.occupant[t] \in InPlay /\ pos[f.occupant[t]] = t

BulletsAgree(f, b) ==
    /\ \A c \in BulletIds \ {b} : f.bdamage[c] > 0 =>
          c \in InFlight /\ f.occupant[bpos[c]] = c /\ bpos[c] \notin Obstacle
    /\ \A t \in Tiles : f.occupant[t] \in BulletIds =>
          /\ f.occupant[t] # b
          /\ f.occupant[t] \in InFlight /\ bpos[f.occupant[t]] = t

\* What a collision on tile t leaves behind.
Resolved(f, b, t) ==
    /\ f \in Fields
    /\ UnitsAgree(f)
    /\ BulletsAgree(f, b)
    /\ f.bdamage[b] > 0 => f.occupant[t] = Nobody

(* The units in play are units, the bullets in flight bullets.              *)
LEMMA InPlayUnits ==
    ASSUME IInv
    PROVE  InPlay \subseteq Units /\ InFlight \subseteq BulletIds
  BY DEF IInv, SequencesOK, InPlay, InFlight, ElementsOf

(* A hit on a unit.                                                         *)
LEMMA HitUnitResolved ==
    ASSUME IInv, NEW f \in Fields, NEW b \in BulletIds, NEW t \in Tiles,
           UnitsAgree(f), BulletsAgree(f, b), f.occupant[t] \in Units
    PROVE  Resolved(HitUnit(b, f.occupant[t], t, f), b, t)
<1> DEFINE u == f.occupant[t]
           g == HitUnit(b, u, t, f)
<1> USE MarkerAssumption, NumberAssumption
<1>1. u \in Units /\ u \in InPlay /\ pos[u] = t
  BY DEF UnitsAgree
<1>2. CASE f.bdamage[b] > f.health[u]
  <2>1. /\ g.health = [f.health EXCEPT ![u] = 0]
        /\ g.bdamage = [f.bdamage EXCEPT ![b] = f.bdamage[b] - f.health[u]]
        /\ g.occupant = [f.occupant EXCEPT ![t] = Nobody]
        /\ g.registered = f.registered \ {u}
        /\ g = [health |-> g.health, bdamage |-> g.bdamage, occupant |-> g.occupant,
                registered |-> g.registered]
    BY <1>2 DEF HitUnit, Fields
  <2> HIDE DEF g, u
  <2>2. g \in Fields
    <3>1. f.bdamage[b] - f.health[u] \in 0 .. HealthLimit
      BY <1>1, <1>2 DEF Fields
    <3>2. QED
      BY <1>1, <2>1, <3>1 DEF Fields
  <2>3. UnitsAgree(g)
    BY <1>1, <2>1 DEF Fields, UnitsAgree, u
  <2>4. BulletsAgree(g, b)
    BY <1>1, <2>1 DEF Fields, BulletsAgree, u
  <2>5. g.occupant[t] = Nobody
    BY <2>1 DEF Fields
  <2>6. QED
    BY <2>2, <2>3, <2>4, <2>5 DEF Resolved, g, u
<1>3. CASE ~(f.bdamage[b] > f.health[u])
  <2>1. /\ g.health = [f.health EXCEPT ![u] = f.health[u] - f.bdamage[b]]
        /\ g.bdamage = [f.bdamage EXCEPT ![b] = 0]
        /\ g.occupant = f.occupant
        /\ g.registered = f.registered
        /\ g = [health |-> g.health, bdamage |-> g.bdamage, occupant |-> g.occupant,
                registered |-> g.registered]
    BY <1>3 DEF HitUnit, Fields
  <2> HIDE DEF g, u
  <2>2. g \in Fields /\ g.bdamage[b] = 0 /\ 0 <= g.health[u] /\ g.health[u] <= f.health[u]
    <3>1. f.health[u] - f.bdamage[b] \in 0 .. UnitHealth /\ f.bdamage[b] \in Nat
      BY <1>1, <1>3 DEF Fields
    <3>2. QED
      BY <1>1, <2>1, <3>1 DEF Fields
  <2>3. UnitsAgree(g)
    BY <1>1, <2>1 DEF Fields, UnitsAgree, u
  <2>4. BulletsAgree(g, b)
    BY <1>1, <2>1 DEF Fields, BulletsAgree, u
  <2>5. QED
    BY <2>2, <2>3, <2>4 DEF Resolved, g, u
<1>4. QED
  BY <1>2, <1>3

(* The other bullet is the one on the tile, or any in flight if the tile     *)
(* dangles: it may even be b itself, whose address the tile points to.       *)
LEMMA HitBulletResolved ==
    ASSUME IInv, NEW f \in Fields, NEW b \in BulletIds, NEW t \in Tiles, NEW c \in BulletIds,
           UnitsAgree(f), BulletsAgree(f, b),
           f.occupant[t] = c \/ (f.occupant[t] = Dangling /\ f.bdamage[c] > 0)
    PROVE  Resolved(HitBullet(b, c, t, f), b, t)
<1> DEFINE g == HitBullet(b, c, t, f)
<1> USE MarkerAssumption, NumberAssumption
<1>1. f.occupant[t] \notin Units
  OBVIOUS
<1>2. f.bdamage[b] \in 0 .. HealthLimit /\ f.bdamage[c] \in 0 .. HealthLimit
  BY DEF Fields
<1>3. CASE c = b
  <2>1. f.occupant[t] = Dangling
    BY <1>3 DEF BulletsAgree
  <2>2. /\ g.health = f.health
        /\ g.bdamage = [f.bdamage EXCEPT ![b] = 0]
        /\ g.occupant = [f.occupant EXCEPT ![t] = Nobody]
        /\ g.registered = f.registered
        /\ g = [health |-> g.health, bdamage |-> g.bdamage, occupant |-> g.occupant,
                registered |-> g.registered]
    BY <1>2, <1>3 DEF HitBullet, Fields
  <2> HIDE DEF g
  <2>3. g \in Fields /\ g.bdamage[b] = 0
    BY <2>2 DEF Fields
  <2>4. UnitsAgree(g)
    BY <1>1, <2>2, InPlayUnits DEF Fields, UnitsAgree
  <2>5. BulletsAgree(g, b)
    BY <2>1, <2>2 DEF Fields, BulletsAgree
  <2>6. QED
    BY <2>3, <2>4, <2>5 DEF Resolved, g
<1>4. CASE c # b /\ f.bdamage[b] > f.bdamage[c]
  <2>1. /\ g.health = f.health
        /\ g.bdamage = [f.bdamage EXCEPT ![b] = f.bdamage[b] - f.bdamage[c], ![c] = 0]
        /\ g.occupant = [f.occupant EXCEPT ![t] = Nobody]
        /\ g.registered = f.registered
        /\ g = [health |-> g.health, bdamage |-> g.bdamage, occupant |-> g.occupant,
                registered |-> g.registered]
    BY <1>4 DEF HitBullet, Fields
  <2> HIDE DEF g
  <2>2. g \in Fields
    BY <1>2, <1>4, <2>1 DEF Fields
  <2>3. UnitsAgree(g)
    BY <1>1, <2>1, InPlayUnits DEF Fields, UnitsAgree
  <2>4. BulletsAgree(g, b)
    BY <1>4, <2>1 DEF Fields, BulletsAgree
  <2>5. g.occupant[t] = Nobody
    BY <2>1 DEF Fields
  <2>6. QED
    BY <2>2, <2>3, <2>4, <2>5 DEF Resolved, g
<1>5. CASE c # b /\ ~(f.bdamage[b] > f.bdamage[c])
  <2>1. /\ g.health = f.health
        /\ g.bdamage = [f.bdamage EXCEPT ![c] = f.bdamage[c] - f.bdamage[b], ![b] = 0]
        /\ g.occupant = [f.occupant EXCEPT ![t] = IF f.bdamage[c] = f.bdamage[b] THEN Nobody
                                                  ELSE f.occupant[t]]
        /\ g.registered = f.registered
        /\ g = [health |-> g.health, bdamage |-> g.bdamage, occupant |-> g.occupant,
                registered |-> g.registered]
    BY <1>5 DEF HitBullet, Fields
  <2> HIDE DEF g
  <2>2. g \in Fields /\ g.bdamage[b] = 0
    BY <1>2, <1>5, <2>1 DEF Fields
  <2>3. UnitsAgree(g)
    BY <1>1, <2>1, InPlayUnits DEF Fields, UnitsAgree
  <2>4. BulletsAgree(g, b)
    <3>1. \A x \in BulletIds \ {b} : g.bdamage[x] > 0 => f.bdamage[x] > 0
      BY <1>2, <1>5, <2>1 DEF Fields
    <3>2. \A x \in BulletIds \ {b} : g.bdamage[x] > 0 /\ bpos[x] = t => g.occupant[t] = f.occupant[t]
      BY <1>2, <1>5, <2>1, <3>1 DEF Fields, BulletsAgree
    <3>3. QED
      BY <1>5, <2>1, <3>1, <3>2 DEF Fields, BulletsAgree
  <2>5. QED
    BY <2>2, <2>3, <2>4 DEF Resolved, g
<1>6. QED
  BY <1>3, <1>4, <1>5

(* A hit through a pointer to a unit that is gone.                          *)
LEMMA HitFreedMemoryResolved ==
    ASSUME IInv, NEW f \in Fields, NEW b \in BulletIds, NEW t \in Tiles, NEW n \in 0 .. HealthLimit,
           UnitsAgree(f), BulletsAgree(f, b), f.occupant[t] = Dangling
    PROVE  Resolved(HitFreedMemory(b, n, t, f), b, t)
<1> DEFINE g == HitFreedMemory(b, n, t, f)
<1> USE MarkerAssumption, NumberAssumption
<1>1. f.bdamage[b] \in 0 .. HealthLimit /\ n \in Nat
  BY DEF Fields
<1>2. PICK d \in 0 .. HealthLimit, o \in {Nobody, Dangling} :
        /\ g.health = f.health
        /\ g.bdamage = [f.bdamage EXCEPT ![b] = d]
        /\ g.occupant = [f.occupant EXCEPT ![t] = o]
        /\ g.registered = f.registered
        /\ g = [health |-> g.health, bdamage |-> g.bdamage, occupant |-> g.occupant,
                registered |-> g.registered]
        /\ d > 0 => o = Nobody
  <2>1. CASE f.bdamage[b] > n
    <3>1. /\ g.health = f.health
          /\ g.bdamage = [f.bdamage EXCEPT ![b] = f.bdamage[b] - n]
          /\ g.occupant = [f.occupant EXCEPT ![t] = Nobody]
          /\ g.registered = f.registered
          /\ g = [health |-> g.health, bdamage |-> g.bdamage, occupant |-> g.occupant,
                  registered |-> g.registered]
      BY <2>1 DEF HitFreedMemory, Fields
    <3> HIDE DEF g
    <3>2. f.bdamage[b] - n \in 0 .. HealthLimit
      BY <1>1, <2>1
    <3>3. QED
      BY <3>1, <3>2
  <2>2. CASE ~(f.bdamage[b] > n)
    <3>1. /\ g.health = f.health
          /\ g.bdamage = [f.bdamage EXCEPT ![b] = 0]
          /\ g.occupant = [f.occupant EXCEPT ![t] = IF f.bdamage[b] = n THEN Nobody
                                                    ELSE f.occupant[t]]
          /\ g.registered = f.registered
          /\ g = [health |-> g.health, bdamage |-> g.bdamage, occupant |-> g.occupant,
                  registered |-> g.registered]
      BY <2>2 DEF HitFreedMemory, Fields
    <3> HIDE DEF g
    <3>2. 0 \in 0 .. HealthLimit /\ ~(0 > 0)
      OBVIOUS
    <3>3. QED
      BY <3>1, <3>2
  <2>3. QED
    BY <2>1, <2>2
<1> HIDE DEF g
<1>3. g \in Fields
  BY <1>2 DEF Fields
<1>4. UnitsAgree(g)
  BY <1>2, InPlayUnits DEF Fields, UnitsAgree
<1>5. BulletsAgree(g, b)
  BY <1>2 DEF Fields, BulletsAgree
<1>6. g.bdamage[b] > 0 => g.occupant[t] = Nobody
  BY <1>2 DEF Fields
<1>7. QED
  BY <1>3, <1>4, <1>5, <1>6 DEF Resolved, g

(* Whatever the bullet meets, and whatever freed memory reads as.           *)
LEMMA CollisionResolved ==
    ASSUME IInv, NEW f \in Fields, NEW b \in BulletIds, NEW t \in Tiles,
           UnitsAgree(f), BulletsAgree(f, b), NEW g \in Collisions(b, t, f)
    PROVE  Resolved(g, b, t)
<1> USE MarkerAssumption
<1>1. CASE f.occupant[t] = Nobody
  <2>1. g = f
    BY <1>1 DEF Collisions
  <2>2. QED
    BY <1>1, <2>1 DEF Resolved
<1>2. CASE f.occupant[t] \in Units
  <2>1. g = HitUnit(b, f.occupant[t], t, f)
    BY <1>2 DEF Collisions
  <2>2. QED
    BY <1>2, <2>1, HitUnitResolved
<1>3. CASE f.occupant[t] \in BulletIds
  <2>1. g = HitBullet(b, f.occupant[t], t, f)
    BY <1>3 DEF Collisions
  <2>2. QED
    BY <1>3, <2>1, HitBulletResolved
<1>4. CASE f.occupant[t] = Dangling
  <2>1. \/ \E n \in 0 .. HealthLimit : g = HitFreedMemory(b, n, t, f)
        \/ \E c \in BulletIds : f.bdamage[c] > 0 /\ g = HitBullet(b, c, t, f)
    BY <1>4 DEF Collisions
  <2>2. QED
    BY <1>4, <2>1, HitFreedMemoryResolved, HitBulletResolved
<1>5. QED
  BY <1>1, <1>2, <1>3, <1>4 DEF Fields

-----------------------------------------------------------------------------
(* The invariant holds at the start.                                        *)
LEMMA InitIInv == Init => IInv
<1> SUFFICES ASSUME Init PROVE IInv
  OBVIOUS
<1> USE StartAssumption, NumberAssumption, MarkerAssumption
<1>1. \A t \in Tiles : occupant[t] \in Units \cup {Nobody} /\
         (occupant[t] \in Units => StartTile[occupant[t]] = t)
  BY DEF Init
<1>2. \A u \in Units : occupant[StartTile[u]] = u
  <2>1. ASSUME NEW u \in Units
        PROVE  (CHOOSE v \in Units : StartTile[v] = StartTile[u]) = u
    OBVIOUS
  <2>2. QED
    BY <2>1 DEF Init
<1>3. InPlay = Units
  BY DEF Init, InPlay, ElementsOf
<1>4. <<0, 0>> \in Tiles
  <2>1. BaseCorner[1] \in Tiles
    BY BaseAssumption DEF Players
  <2>2. QED
    BY <2>1, SizeAssumption DEF Tiles
<1>5. TypeOK
  <2>1. attack \in [Units -> [damage : 0 .. HealthLimit, dir : Direction]]
    BY DEF Init, NoAttack, Direction
  <2>2. bpos \in [BulletIds -> Tiles] /\ bdir \in [BulletIds -> Direction]
    BY <1>4 DEF Init, Direction
  <2>3. occupant \in [Tiles -> Units \cup BulletIds \cup {Nobody, Dangling}]
    BY <1>1 DEF Init
  <2>4. QED
    BY <2>1, <2>2, <2>3 DEF Init, TypeOK
<1>6. SequencesOK
  BY DEF Init, SequencesOK
<1>7. TilesAgree /\ BulletTiles
  BY <1>1, <1>2, <1>3 DEF Init, TilesAgree, BulletTiles
<1>8. CooldownInv
  BY DEF Init, CooldownInv, Waited, NoAttack
<1>9. QED
  BY <1>5, <1>6, <1>7, <1>8 DEF IInv

-----------------------------------------------------------------------------
(* The field between steps, with bullet b taken off its tile.               *)
Lifted(b) == [Field EXCEPT !.occupant[bpos[b]] = Nobody]

(* The tiles agree, but for the bullet that has been taken off its tile.    *)
LEMMA LiftedAgrees ==
    ASSUME IInv, NEW b \in BulletIds, bdamage[b] > 0
    PROVE  Lifted(b) \in Fields /\ UnitsAgree(Lifted(b)) /\ BulletsAgree(Lifted(b), b)
<1> DEFINE f == Lifted(b)
<1> USE MarkerAssumption
<1>1. /\ f.health = health /\ f.bdamage = bdamage /\ f.registered = registered
      /\ f.occupant = [occupant EXCEPT ![bpos[b]] = Nobody]
      /\ f = [health |-> f.health, bdamage |-> f.bdamage, occupant |-> f.occupant,
              registered |-> f.registered]
  BY DEF Lifted, Field
<1> HIDE DEF f
<1>2. f \in Fields
  BY <1>1 DEF IInv, TypeOK, Fields
<1>3. occupant[bpos[b]] = b /\ bpos[b] \in Tiles
  BY DEF IInv, TilesAgree, TypeOK
<1>4. UnitsAgree(f)
  BY <1>1, <1>3, InPlayUnits DEF IInv, TypeOK, TilesAgree, UnitsAgree
<1>5. BulletsAgree(f, b)
  BY <1>1, <1>3 DEF IInv, TypeOK, TilesAgree, BulletTiles, BulletsAgree, InFlight
<1>6. QED
  BY <1>2, <1>4, <1>5 DEF f

(* The tile ahead, if it is in bounds, is a tile.                           *)
LEMMA AheadIsTile ==
    ASSUME NEW t \in Tiles, NEW d \in Direction, isInBounds(TileAhead(t, d))
    PROVE  TileAhead(t, d) \in Tiles
  BY SizeAssumption DEF Tiles, Direction, TileAhead, Offset, isInBounds

(* The part of the invariant that only bullets and their targets can break. *)
HitInv ==
    /\ registered \subseteq Units
    /\ health \in [Units -> 0 .. UnitHealth]
    /\ bpos \in [BulletIds -> Tiles]
    /\ bdamage \in [BulletIds -> 0 .. HealthLimit]
    /\ occupant \in [Tiles -> Units \cup BulletIds \cup {Nobody, Dangling}]
    /\ TilesAgree
    /\ BulletTiles

(* A bullet that survives a collision takes the tile, one that does not is   *)
(* on no tile.                                                               *)
LEMMA SettledHitInv ==
    ASSUME IInv, NEW b \in BulletIds, NEW t \in Tiles \ Obstacle, NEW f,
           Resolved(f, b, t), Becomes(Settle(b, t, f)),
           units' = units, pos' = pos,
           InFlight \subseteq InFlight', f.bdamage[b] > 0 => b \in InFlight',
           bpos' = IF f.bdamage[b] = 0 THEN bpos ELSE [bpos EXCEPT ![b] = t]
    PROVE  HitInv'
<1> USE MarkerAssumption, NumberAssumption
<1>1. /\ f \in Fields /\ UnitsAgree(f) /\ BulletsAgree(f, b)
      /\ f.bdamage[b] > 0 => f.occupant[t] = Nobody
  BY DEF Resolved
<1>2. InPlay' = InPlay
  BY DEF InPlay, ElementsOf
<1>3. CASE f.bdamage[b] = 0
  <2>1. health' = f.health /\ bdamage' = f.bdamage /\ occupant' = f.occupant
        /\ registered' = f.registered /\ bpos' = bpos
    BY <1>3 DEF Becomes, Settle
  <2>2. TilesAgree'
    BY <1>1, <1>2, <1>3, <2>1 DEF Fields, UnitsAgree, BulletsAgree, TilesAgree, InFlight
  <2>3. BulletTiles'
    BY <1>1, <1>3, <2>1 DEF Fields, BulletsAgree, BulletTiles
  <2>4. QED
    BY <1>1, <2>1, <2>2, <2>3 DEF HitInv, Fields, IInv, TypeOK
<1>4. CASE f.bdamage[b] # 0
  <2>1. f.bdamage[b] > 0 /\ f.occupant[t] = Nobody /\ b \in InFlight'
    BY <1>1, <1>4 DEF Fields
  <2>2. /\ health' = f.health /\ bdamage' = f.bdamage
        /\ occupant' = [f.occupant EXCEPT ![t] = b]
        /\ registered' = f.registered /\ bpos' = [bpos EXCEPT ![b] = t]
    BY <1>1, <1>4 DEF Becomes, Settle, Fields
  <2>3. bpos \in [BulletIds -> Tiles] /\ pos \in [Units -> Tiles]
    BY DEF IInv, TypeOK
  <2>4. TilesAgree'
    <3>1. \A u \in InPlay : health'[u] > 0 => occupant'[pos[u]] = u
      BY <1>1, <2>1, <2>2, <2>3, InPlayUnits DEF Fields, UnitsAgree
    <3>2. \A c \in BulletIds : bdamage'[c] > 0 =>
             c \in InFlight' /\ occupant'[bpos'[c]] = c /\ bpos'[c] \notin Obstacle
      BY <1>1, <2>1, <2>2, <2>3 DEF Fields, BulletsAgree
    <3>3. \A x \in Tiles : occupant'[x] \in Units =>
             occupant'[x] \in InPlay /\ pos[occupant'[x]] = x
      BY <1>1, <2>1, <2>2, <2>3 DEF Fields, UnitsAgree
    <3>4. QED
      BY <1>2, <3>1, <3>2, <3>3 DEF TilesAgree, InFlight
  <2>5. BulletTiles'
    BY <1>1, <2>1, <2>2, <2>3 DEF Fields, BulletsAgree, BulletTiles
  <2>6. QED
    BY <1>1, <2>2, <2>3, <2>4, <2>5 DEF HitInv, Fields
<1>5. QED
  BY <1>3, <1>4

-----------------------------------------------------------------------------
(* The steps in which bullets hit something.                                *)

(* A bullet flies on, or hits something.                                    *)
LEMMA AdvanceBulletIInv ==
    ASSUME IInv, AdvanceBullet
    PROVE  IInv'
<1> DEFINE b == Current
<1>1. b \in BulletIds /\ bdamage[b] > 0
  BY DEF AdvanceBullet, Current, IInv, SequencesOK
<1>2. Ahead \in Tiles \ Obstacle
  <2>1. bpos[b] \in Tiles /\ bdir[b] \in Direction
    BY <1>1 DEF IInv, TypeOK
  <2>2. QED
    BY <2>1, AheadIsTile DEF AdvanceBullet, Stopped, Blocked, Ahead, NextTile
<1>3. PICK f \in Collisions(b, Ahead, Lifted(b)) :
        /\ Becomes(Settle(b, Ahead, f))
        /\ bpos' = IF f.bdamage[b] = 0 THEN bpos ELSE [bpos EXCEPT ![b] = Ahead]
  BY DEF AdvanceBullet, Lifted
<1>4. /\ cursor' = cursor + 1
      /\ UNCHANGED <<turn, phase, substep, units, pos, energy, cooldown, attack, fired, lastBullet,
                     bullets, bdir>>
  BY DEF AdvanceBullet, unitVars, history
<1>5. b \in InFlight /\ InFlight' = InFlight
  BY <1>1, <1>4 DEF IInv, TilesAgree, InFlight, ElementsOf
<1> HIDE DEF b
<1>6. Resolved(f, b, Ahead)
  BY <1>1, <1>2, <1>3, LiftedAgrees, CollisionResolved
<1>7. HitInv'
  BY <1>1, <1>2, <1>3, <1>4, <1>5, <1>6, SettledHitInv
<1>8. TypeOK'
  BY <1>4, <1>7 DEF HitInv, IInv, TypeOK
<1>9. SequencesOK'
  BY <1>4 DEF IInv, SequencesOK
<1>10. CooldownInv'
  BY <1>4 DEF IInv, CooldownInv, Waited
<1>11. QED
  BY <1>7, <1>8, <1>9, <1>10 DEF HitInv, IInv

(* A new bullet on the tile ahead, or a hit at once.                        *)
LEMMA ShotIInv ==
    ASSUME IInv, NEW b \in BulletIds, Shot(b)
    PROVE  IInv'
<1> DEFINE u == Shooter
           f0 == [Field EXCEPT !.bdamage[b] = attack[u].damage]
<1> USE MarkerAssumption, NumberAssumption
<1>1. u \in Units /\ cursor \in Nat
  BY DEF Shot, Shooter, IInv, SequencesOK
<1>2. Target \in Tiles \ Obstacle
  <2>1. pos[u] \in Tiles /\ attack[u].dir \in Direction
    BY <1>1 DEF IInv, TypeOK
  <2>2. QED
    BY <2>1, AheadIsTile DEF Shot, Target
<1>3. b \notin InFlight
  BY DEF Shot, FreeBulletIds, InFlight
<1>4. f0 \in Fields /\ UnitsAgree(f0) /\ BulletsAgree(f0, b)
  <2>1. /\ f0.health = health /\ f0.occupant = occupant /\ f0.registered = registered
        /\ f0.bdamage = [bdamage EXCEPT ![b] = attack[u].damage]
        /\ f0 = [health |-> f0.health, bdamage |-> f0.bdamage, occupant |-> f0.occupant,
                 registered |-> f0.registered]
    BY DEF Field
  <2> HIDE DEF f0, u
  <2>2. attack[u].damage \in 0 .. HealthLimit
    BY <1>1 DEF IInv, TypeOK
  <2>3. f0 \in Fields
    BY <2>1, <2>2 DEF IInv, TypeOK, Fields
  <2>4. UnitsAgree(f0)
    BY <2>1 DEF IInv, TilesAgree, UnitsAgree
  <2>5. BulletsAgree(f0, b)
    BY <1>3, <2>1 DEF IInv, TypeOK, TilesAgree, BulletTiles, BulletsAgree, InFlight
  <2>6. QED
    BY <2>3, <2>4, <2>5
<1>5. PICK f \in Collisions(b, Target, f0) :
        /\ Becomes(Settle(b, Target, f))
        /\ IF f.bdamage[b] = 0
           THEN UNCHANGED <<cooldown, attack, lastBullet, bulletVars>>
           ELSE /\ bullets' = Append(bullets, b)
                /\ bpos' = [bpos EXCEPT ![b] = Target]
                /\ bdir' = [bdir EXCEPT ![b] = attack[u].dir]
                /\ cooldown' = [cooldown EXCEPT ![u] = AttackCooldown]
                /\ attack' = [attack EXCEPT ![u].damage = 0]
                /\ lastBullet' = [lastBullet EXCEPT ![u] = turn]
  BY DEF Shot
<1>6. /\ phase = "attacks" /\ cursor' = cursor + 1
      /\ UNCHANGED <<turn, phase, substep, units, pos, energy>>
  BY DEF Shot, NextShooter
<1> HIDE DEF u, f0
<1>7. Resolved(f, b, Target)
  BY <1>2, <1>4, <1>5, CollisionResolved
<1>8. bullets \in Seq(BulletIds) /\ bdir \in [BulletIds -> Direction]
      /\ cooldown \in [Units -> 0 .. AttackCooldown]
      /\ attack \in [Units -> [damage : 0 .. HealthLimit, dir : Direction]]
  BY DEF IInv, TypeOK, SequencesOK
<1>9. /\ bullets' \in Seq(BulletIds) /\ InFlight \subseteq InFlight'
      /\ f.bdamage[b] > 0 => b \in InFlight'
      /\ bpos' = IF f.bdamage[b] = 0 THEN bpos ELSE [bpos EXCEPT ![b] = Target]
      /\ bdir' \in [BulletIds -> Direction]
      /\ attack' \in [Units -> [damage : 0 .. HealthLimit, dir : Direction]]
      /\ \/ cooldown' = cooldown
         \/ cooldown' = [cooldown EXCEPT ![u] = AttackCooldown]
  <2>1. CASE f.bdamage[b] = 0
    BY <1>5, <1>8, <2>1 DEF bulletVars, InFlight, ElementsOf
  <2>2. CASE f.bdamage[b] # 0
    <3>1. bullets' = Append(bullets, b) /\ InFlight' = InFlight \cup {b}
      BY <1>5, <1>8, <2>2, AppendedElement DEF InFlight
    <3>2. bdir' \in [BulletIds -> Direction]
      BY <1>1, <1>5, <1>8, <2>2
    <3>3. attack' \in [Units -> [damage : 0 .. HealthLimit, dir : Direction]]
      <4>1. attack' = [attack EXCEPT ![u] = [attack[u] EXCEPT !.damage = 0]]
        BY <1>5, <2>2
      <4>2. [attack[u] EXCEPT !.damage = 0] \in [damage : 0 .. HealthLimit, dir : Direction]
        <5>1. attack[u] \in [damage : 0 .. HealthLimit, dir : Direction] /\ 0 \in 0 .. HealthLimit
          BY <1>1, <1>8
        <5>2. QED
          BY <5>1
      <4>3. QED
        BY <1>8, <4>1, <4>2
    <3>4. bpos' = [bpos EXCEPT ![b] = Target] /\ cooldown' = [cooldown EXCEPT ![u] = AttackCooldown]
      BY <1>5, <2>2
    <3>5. QED
      BY <1>8, <2>2, <3>1, <3>2, <3>3, <3>4
  <2>3. QED
    BY <2>1, <2>2
<1>10. HitInv'
  BY <1>2, <1>5, <1>6, <1>7, <1>9, SettledHitInv
<1>11. TypeOK'
  <2>1. cooldown' \in [Units -> 0 .. AttackCooldown]
    <3>1. AttackCooldown \in 0 .. AttackCooldown
      OBVIOUS
    <3>2. QED
      BY <1>1, <1>8, <1>9, <3>1
  <2>2. QED
    BY <1>6, <1>9, <1>10, <2>1 DEF HitInv, IInv, TypeOK
<1>12. SequencesOK'
  <2>1. lastBullet \in [Units -> Int] /\ turn \in Int
    BY DEF IInv, SequencesOK
  <2>2. lastBullet' \in [Units -> Int]
    BY <1>1, <1>5, <2>1
  <2>3. QED
    BY <1>1, <1>6, <1>9, <2>2 DEF IInv, SequencesOK
<1>13. CooldownInv'
  <2>1. /\ turn \in Nat /\ lastBullet \in [Units -> Int]
        /\ \A v \in Units : /\ cooldown[v] + (turn - lastBullet[v]) >= AttackCooldown
                            /\ attack[v].damage > 0 => turn - lastBullet[v] >= AttackCooldown
    BY <1>6, <1>8 DEF IInv, SequencesOK, CooldownInv, Waited
  <2>2. CASE f.bdamage[b] = 0
    BY <1>5, <1>6, <2>1, <2>2, <1>8 DEF CooldownInv, Waited
  <2>3. CASE f.bdamage[b] # 0
    <3>1. /\ cooldown' = [cooldown EXCEPT ![u] = AttackCooldown]
          /\ attack' = [attack EXCEPT ![u] = [attack[u] EXCEPT !.damage = 0]]
          /\ lastBullet' = [lastBullet EXCEPT ![u] = turn]
      BY <1>5, <2>3
    <3>2. ASSUME NEW v \in Units
          PROVE  /\ cooldown'[v] + (turn - lastBullet'[v]) >= AttackCooldown
                 /\ attack'[v].damage > 0 => turn - lastBullet'[v] >= AttackCooldown
      <4>1. CASE v = u
        <5>1. cooldown'[v] = AttackCooldown /\ lastBullet'[v] = turn
          BY <1>1, <1>8, <2>1, <3>1, <4>1
        <5>2. attack'[v] = [attack[u] EXCEPT !.damage = 0]
          BY <1>1, <1>8, <3>1, <4>1
        <5>3. attack[u] \in [damage : 0 .. HealthLimit, dir : Direction]
          BY <1>1, <1>8
        <5>4. attack'[v].damage = 0
          BY <5>2, <5>3
        <5>5. QED
          BY <2>1, <5>1, <5>4
      <4>2. CASE v # u
        <5>1. cooldown'[v] = cooldown[v] /\ lastBullet'[v] = lastBullet[v]
          BY <1>8, <2>1, <3>1, <4>2
        <5>2. attack'[v] = attack[v]
          BY <1>8, <3>1, <4>2
        <5>3. QED
          BY <2>1, <5>1, <5>2
      <4>3. QED
        BY <4>1, <4>2
    <3>3. \A v \in Units : Waited(v)' = turn - lastBullet'[v]
      <4>1. \A v \in Units : lastBullet'[v] \in Int
        BY <1>1, <2>1, <3>1
      <4>2. QED
        BY <1>6, <2>1, <4>1 DEF Waited
    <3>4. QED
      BY <3>2, <3>3 DEF CooldownInv
  <2>4. QED
    BY <2>2, <2>3
<1>14. QED
  BY <1>10, <1>11, <1>12, <1>13 DEF HitInv, IInv

(* The spent bullets are erased.                                            *)
LEMMA EndBulletPhaseIInv ==
    ASSUME IInv, EndBulletPhase
    PROVE  IInv'
<1> DEFINE K == {b \in BulletIds : bdamage[b] # 0}
<1> USE MarkerAssumption, NumberAssumption
<1>1. /\ phase = "bullets" /\ phase' = "units"
      /\ bullets' = Kept(bullets, K)
      /\ occupant' = [t \in Tiles |-> IF occupant[t] \in BulletIds /\ bdamage[occupant[t]] = 0
                                       THEN Dangling ELSE occupant[t]]
      /\ UNCHANGED <<turn, substep, cursor, units, pos, energy, cooldown, attack, fired, lastBullet,
                     bpos, bdir, health, bdamage, registered>>
  BY DEF EndBulletPhase, unitVars, history
<1>2. bullets' \in Seq(BulletIds) /\ InFlight' = InFlight \cap K
  BY <1>1, KeptElements DEF IInv, SequencesOK, InFlight
<1>3. TypeOK'
  <2>1. occupant' \in [Tiles -> Units \cup BulletIds \cup {Nobody, Dangling}]
    BY <1>1 DEF IInv, TypeOK
  <2>2. QED
    BY <1>1, <2>1 DEF IInv, TypeOK
<1>4. InPlay' = InPlay
  BY <1>1 DEF InPlay, ElementsOf
<1>5. TilesAgree'
  <2>1. \A u \in InPlay : health'[u] > 0 => occupant'[pos'[u]] = u
    BY <1>1, InPlayUnits DEF IInv, TypeOK, TilesAgree
  <2>2. \A b \in BulletIds : bdamage'[b] > 0 =>
           b \in InFlight' /\ occupant'[bpos'[b]] = b /\ bpos'[b] \notin Obstacle
    BY <1>1, <1>2 DEF IInv, TypeOK, TilesAgree, InFlight
  <2>3. \A t \in Tiles : occupant'[t] \in Units =>
           occupant'[t] \in InPlay /\ pos'[occupant'[t]] = t
    BY <1>1 DEF IInv, TypeOK, TilesAgree
  <2>4. QED
    BY <1>4, <2>1, <2>2, <2>3 DEF TilesAgree, InFlight
<1>6. BulletTiles'
  BY <1>1, <1>2 DEF IInv, BulletTiles
<1>7. SequencesOK'
  BY <1>1, <1>2 DEF IInv, SequencesOK
<1>8. CooldownInv'
  BY <1>1 DEF IInv, CooldownInv, Waited
<1>9. QED
  BY <1>3, <1>5, <1>6, <1>7, <1>8 DEF IInv

-----------------------------------------------------------------------------
(* The rest of the turn.                                                    *)

(* The destroyed units are erased, and a unit may move.                     *)
LEMMA UnitPhaseIInv ==
    ASSUME IInv, UnitPhase
    PROVE  IInv'
<1> DEFINE K == {u \in Units : health[u] # 0}
<1> USE MarkerAssumption, NumberAssumption
<1>1. /\ phase = "units" /\ phase' = "programs"
      /\ units' = Kept(units, K)
      /\ registered' = {u \in registered : health[u] # 0}
      /\ energy' = [u \in Units |-> IF health[u] # 0 /\ energy[u] < Capacity
                                     THEN energy[u] + 1 ELSE energy[u]]
      /\ cooldown' = [u \in Units |-> IF health[u] # 0 /\ cooldown[u] > 0
                                       THEN cooldown[u] - 1 ELSE cooldown[u]]
      /\ UNCHANGED <<turn, substep, cursor, attack, fired, lastBullet, bullets, bpos, bdir,
                     health, bdamage>>
  BY DEF UnitPhase, EndTurn, history, bulletVars
<1>2. units' \in Seq(Units) /\ InPlay' = InPlay \cap K
  BY <1>1, KeptElements DEF IInv, SequencesOK, InPlay
<1>3. /\ health \in [Units -> 0 .. UnitHealth] /\ pos \in [Units -> Tiles]
      /\ occupant \in [Tiles -> Units \cup BulletIds \cup {Nobody, Dangling}]
      /\ bpos \in [BulletIds -> Tiles]
  BY DEF IInv, TypeOK
<1>4. InFlight' = InFlight
  BY <1>1 DEF InFlight, ElementsOf
<1> DEFINE Tidy(occ, at) ==
             /\ occ \in [Tiles -> Units \cup BulletIds \cup {Nobody, Dangling}]
             /\ \A u \in InPlay' : occ[at[u]] = u
             /\ \A t \in Tiles : occ[t] \in Units => occ[t] \in InPlay' /\ at[occ[t]] = t
             /\ \A t \in Tiles : occ[t] \in BulletIds => occ[t] = occupant[t]
             /\ \A t \in Tiles : occupant[t] \in BulletIds => occ[t] = occupant[t]
<1>5. Tidy(Released, pos)
  <2>1. \A t \in Tiles : occupant[t] \in Units /\ health[occupant[t]] # 0
            => occupant[t] \in InPlay' /\ pos[occupant[t]] = t
    BY <1>2 DEF IInv, TilesAgree
  <2>2. \A u \in InPlay' : occupant[pos[u]] = u /\ health[u] # 0 /\ u \in Units
    BY <1>2, <1>3 DEF IInv, TilesAgree
  <2>3. QED
    BY <1>3, <2>1, <2>2 DEF Released
<1>6. /\ pos' \in [Units -> Tiles]
      /\ Tidy(occupant', pos')
  <2>1. CASE occupant' = Released /\ pos' = pos
    BY <1>3, <1>5, <2>1
  <2>2. ASSUME NEW u \in InPlay, NEW t \in Tiles, Walk(u, t),
               pos' = [pos EXCEPT ![u] = t],
               occupant' = [Released EXCEPT ![pos[u]] = Nobody, ![t] = u]
        PROVE  pos' \in [Units -> Tiles] /\ Tidy(occupant', pos')
    <3>1. u \in Units /\ u \in InPlay' /\ occupant[t] = Nobody /\ Released[t] = Nobody
      BY <1>2, <1>3, <2>2, InPlayUnits DEF Walk, Released
    <3>2. Released[pos[u]] = u /\ occupant[pos[u]] = u /\ pos[u] \in Tiles
      BY <1>3, <1>5, <2>2, <3>1 DEF Walk, IInv, TilesAgree
    <3>3. pos' \in [Units -> Tiles]
      BY <1>3, <2>2, <3>1
    <3>4. InPlay' \subseteq Units
      BY <1>2
    <3>5. /\ \A v \in Units \ {u} : pos'[v] = pos[v]
          /\ pos'[u] = t
      BY <1>3, <2>2, <3>1
    <3>6. /\ occupant'[t] = u /\ pos[u] # t /\ occupant'[pos[u]] = Nobody
          /\ \A x \in Tiles \ {t, pos[u]} : occupant'[x] = Released[x]
          /\ occupant' \in [Tiles -> Units \cup BulletIds \cup {Nobody, Dangling}]
      BY <1>5, <2>2, <3>1, <3>2
    <3>7. QED
      BY <1>3, <1>5, <3>1, <3>2, <3>3, <3>4, <3>5, <3>6
  <2>3. QED
    BY <2>1, <2>2 DEF UnitPhase
<1>7. TypeOK'
  <2>1. energy' \in [Units -> 0 .. Capacity]
    BY <1>1 DEF IInv, TypeOK
  <2>2. cooldown' \in [Units -> 0 .. AttackCooldown]
    BY <1>1 DEF IInv, TypeOK
  <2>3. QED
    BY <1>1, <1>6, <2>1, <2>2 DEF IInv, TypeOK
<1>8. TilesAgree'
  BY <1>1, <1>3, <1>4, <1>6 DEF IInv, TilesAgree, InFlight
<1>9. BulletTiles'
  BY <1>1, <1>4, <1>6 DEF IInv, BulletTiles
<1>10. SequencesOK'
  BY <1>1, <1>2 DEF IInv, SequencesOK
<1>11. CooldownInv'
  <2>1. ASSUME NEW u \in Units
        PROVE  /\ cooldown'[u] + (turn - lastBullet[u] + 1) >= AttackCooldown
               /\ attack[u].damage > 0 => turn - lastBullet[u] + 1 >= AttackCooldown
    <3>1. turn \in Nat /\ lastBullet[u] \in Int /\ cooldown[u] \in Nat
      BY DEF IInv, TypeOK, SequencesOK
    <3>2. /\ cooldown[u] + (turn - lastBullet[u]) >= AttackCooldown
          /\ attack[u].damage > 0 => turn - lastBullet[u] >= AttackCooldown
      BY <1>1, <3>1 DEF IInv, CooldownInv, Waited
    <3>3. cooldown'[u] \in {cooldown[u], cooldown[u] - 1}
      BY <1>1
    <3>4. QED
      BY <3>1, <3>2, <3>3
  <2>2. QED
    BY <1>1, <2>1 DEF CooldownInv, Waited
<1>12. QED
  BY <1>7, <1>8, <1>9, <1>10, <1>11 DEF IInv

(* The ecall fire.                                                          *)
LEMMA FireIInv ==
    ASSUME IInv, NEW u \in Units, NEW d \in Direction, NEW power \in Powers, Fire(u, d, power)
    PROVE  IInv'
<1> USE NumberAssumption
<1>1. /\ phase = "programs" /\ power <= energy[u] /\ BulletDamage(u, power) <= HealthLimit
      /\ energy' = [energy EXCEPT ![u] = energy[u] - power]
      /\ attack' = [attack EXCEPT ![u] = [damage |-> BulletDamage(u, power), dir |-> d]]
      /\ cooldown' = [cooldown EXCEPT ![u] = AttackCooldown]
      /\ cooldown[u] = 0
      /\ UNCHANGED <<turn, phase, substep, cursor, units, pos, lastBullet, bullets, bpos, bdir,
                     registered, health, bdamage, occupant>>
  BY DEF Fire, canAttack, clock, bulletVars, hitVars
<1>2. energy[u] \in 0 .. Capacity /\ power \in Nat
  BY DEF IInv, TypeOK
<1>3. TypeOK'
  <2>1. BulletDamage(u, power) \in 0 .. HealthLimit
    BY <1>1, <1>2 DEF BulletDamage
  <2>2. energy[u] - power \in 0 .. Capacity /\ AttackCooldown \in 0 .. AttackCooldown
    BY <1>1, <1>2
  <2>3. energy' \in [Units -> 0 .. Capacity] /\ cooldown' \in [Units -> 0 .. AttackCooldown]
    BY <1>1, <2>2 DEF IInv, TypeOK
  <2>4. attack' \in [Units -> [damage : 0 .. HealthLimit, dir : Direction]]
    BY <1>1, <2>1 DEF IInv, TypeOK
  <2>5. QED
    BY <1>1, <2>3, <2>4 DEF IInv, TypeOK
<1>4. TilesAgree' /\ BulletTiles'
  BY <1>1 DEF IInv, TilesAgree, BulletTiles, InPlay, InFlight, ElementsOf
<1>5. SequencesOK'
  BY <1>1 DEF IInv, SequencesOK
<1>6. CooldownInv'
  <2>1. ASSUME NEW v \in Units
        PROVE  /\ cooldown'[v] + (turn - lastBullet[v] + 1) >= AttackCooldown
               /\ attack'[v].damage > 0 => turn - lastBullet[v] + 1 >= AttackCooldown
    <3>1. /\ turn \in Nat /\ lastBullet[v] \in Int
          /\ cooldown \in [Units -> 0 .. AttackCooldown]
          /\ attack \in [Units -> [damage : 0 .. HealthLimit, dir : Direction]]
      BY DEF IInv, SequencesOK, TypeOK
    <3>2. /\ cooldown[v] + (turn - lastBullet[v] + 1) >= AttackCooldown
          /\ attack[v].damage > 0 => turn - lastBullet[v] + 1 >= AttackCooldown
      BY <1>1, <3>1 DEF IInv, CooldownInv, Waited
    <3>3. CASE v = u
      BY <1>1, <3>1, <3>2, <3>3
    <3>4. CASE v # u
      BY <1>1, <3>1, <3>2, <3>4
    <3>5. QED
      BY <3>3, <3>4
  <2>2. QED
    BY <1>1, <2>1 DEF CooldownInv, Waited
<1>7. QED
  BY <1>3, <1>4, <1>5, <1>6 DEF IInv

(* A bullet that is stopped leaves its tile as it is.                       *)
LEMMA StopBulletIInv ==
    ASSUME IInv, StopBullet
    PROVE  IInv'
<1> USE NumberAssumption
<1>1. /\ cursor' = cursor + 1 /\ bdamage' = [bdamage EXCEPT ![Current] = 0]
      /\ UNCHANGED <<turn, phase, substep, units, pos, energy, cooldown, attack, lastBullet,
                     bullets, bpos, bdir, registered, health, occupant>>
  BY DEF StopBullet, unitVars, history, bulletVars
<1>2. \A b \in BulletIds : bdamage'[b] \in {bdamage[b], 0}
  BY <1>1 DEF IInv, TypeOK
<1>3. TypeOK'
  <2>1. bdamage' \in [BulletIds -> 0 .. HealthLimit]
    <3>1. bdamage \in [BulletIds -> 0 .. HealthLimit] /\ 0 \in 0 .. HealthLimit
      BY DEF IInv, TypeOK
    <3>2. QED
      BY <1>1, <3>1
  <2>2. QED
    BY <1>1, <2>1 DEF IInv, TypeOK
<1>4. TilesAgree' /\ BulletTiles'
  BY <1>1, <1>2 DEF IInv, TilesAgree, BulletTiles, InPlay, InFlight, ElementsOf
<1>5. SequencesOK' /\ CooldownInv'
  BY <1>1 DEF IInv, SequencesOK, CooldownInv, Waited
<1>6. QED
  BY <1>3, <1>4, <1>5 DEF IInv

(* Steps that only move the clock on.                                       *)
LEMMA ClockIInv ==
    ASSUME IInv, UNCHANGED <<unitVars, bulletVars, hitVars>>,
           phase' \in {"programs", "bullets", "attacks", "units", "aborted"},
           cursor' \in Nat \ {0},
           \/ turn' = turn /\ (phase' = "programs" <=> phase = "programs")
           \/ turn' = turn + 1 /\ phase = "programs" /\ phase' # "programs"
    PROVE  IInv'
<1> USE DEF unitVars, history, bulletVars, hitVars
<1>1. TypeOK'
  BY DEF IInv, TypeOK
<1>2. TilesAgree' /\ BulletTiles'
  BY DEF IInv, TilesAgree, BulletTiles, InPlay, InFlight, ElementsOf
<1>3. SequencesOK'
  BY DEF IInv, SequencesOK
<1>4. CooldownInv'
  <2>1. ASSUME NEW u \in Units
        PROVE  turn \in Nat /\ lastBullet[u] \in Int /\ cooldown[u] \in Int /\ AttackCooldown \in Nat
    BY NumberAssumption DEF IInv, SequencesOK, TypeOK
  <2>2. CASE turn' = turn /\ (phase' = "programs" <=> phase = "programs")
    BY <2>2 DEF IInv, CooldownInv, Waited
  <2>3. CASE turn' = turn + 1 /\ phase = "programs" /\ phase' # "programs"
    BY <2>1, <2>3 DEF IInv, CooldownInv, Waited
  <2>4. QED
    BY <2>2, <2>3
<1>5. QED
  BY <1>1, <1>2, <1>3, <1>4 DEF IInv

(* Every step keeps the invariant.                                          *)
LEMMA StepIInv ==
    ASSUME IInv, [Next]_vars
    PROVE  IInv'
<1>1. cursor \in Nat \ {0} /\ phase \in {"programs", "bullets", "attacks", "units", "aborted"}
  BY DEF IInv, SequencesOK, TypeOK
<1>2. CASE BeginTurn
  BY <1>2, ClockIInv DEF BeginTurn
<1>3. CASE SkipBullet
  BY <1>1, <1>3, ClockIInv DEF SkipBullet
<1>4. CASE EndFirstSubstep
  BY <1>4, ClockIInv DEF EndFirstSubstep
<1>5. CASE EndSubstep
  BY <1>1, <1>5, ClockIInv DEF EndSubstep
<1>6. CASE NoShot
  BY <1>1, <1>6, ClockIInv DEF NoShot, NextShooter
<1>7. CASE ShotOffTheMap
  BY <1>1, <1>7, ClockIInv DEF ShotOffTheMap
<1>8. CASE EndAttacks
  BY <1>8, ClockIInv DEF EndAttacks
<1>9. CASE UNCHANGED vars
  BY <1>1, <1>9, ClockIInv DEF vars, clock
<1>10. QED
  BY <1>2, <1>3, <1>4, <1>5, <1>6, <1>7, <1>8, <1>9, FireIInv, StopBulletIInv, AdvanceBulletIInv,
     EndBulletPhaseIInv, ShotIInv, UnitPhaseIInv DEF Next, BulletStep, AttackStep

(* The inductive invariant.                                                 *)
LEMMA InvariantHolds == Spec => []IInv
  BY InitIInv, StepIInv, PTL DEF Spec

-----------------------------------------------------------------------------
(* Health, energy, damage and cooldowns stay in the range of their types,    *)
(* whatever collides and whatever freed memory reads as.                     *)
THEOREM TypeCorrect == Spec => []TypeOK
<1>1. IInv => TypeOK
  BY DEF IInv
<1>2. QED
  BY <1>1, InvariantHolds, PTL

(* _moveBulletOneStep, _handleBulletCollision, _commitPendingAttacks: the    *)
(* tiles, the units and the bullets agree at every point of a turn, although *)
(* tiles are left pointing to bullets that have been freed.                  *)
THEOREM TilesAlwaysAgree == Spec => []TilesAgree
<1>1. IInv => TilesAgree
  BY DEF IInv
<1>2. QED
  BY <1>1, InvariantHolds, PTL

(* ecall_fire, Unit::step, _commitPendingAttacks: after a bullet of a unit   *)
(* is on the field the unit attempts no shot for AttackCooldown - 1 turns,   *)
(* for every cooldown of at least one turn; shots that follow each other     *)
(* more closely are repetitions of one that was consumed where it appeared.  *)
THEOREM Spacing == Spec => []BulletSpacing
<1>1. ASSUME IInv PROVE BulletSpacing
  <2> SUFFICES ASSUME phase = "attacks", cursor <= Len(units), HasAttack(Shooter)
               PROVE  turn - lastBullet[Shooter] >= AttackCooldown
    BY DEF BulletSpacing
  <2>1. Shooter \in Units
    BY <1>1 DEF Shooter, IInv, SequencesOK
  <2>2. Waited(Shooter) >= AttackCooldown /\ lastBullet[Shooter] \in Int /\ turn \in Int
    BY <1>1, <2>1 DEF IInv, SequencesOK, CooldownInv, HasAttack
  <2>3. QED
    BY <2>2 DEF Waited
<1>2. QED
  BY <1>1, InvariantHolds, PTL
=============================================================================
