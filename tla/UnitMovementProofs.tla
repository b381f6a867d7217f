------------------------- MODULE UnitMovementProofs -------------------------
(***************************************************************************)
(* Proofs about UnitMovement for every map and every number of units: the   *)
(* occupation of tiles is exclusive, no tile points to a removed unit, and  *)
(* the breadth-first cancellation computes what the rules say.              *)
(***************************************************************************)
EXTENDS UnitMovement, TLAPS

Attempts == {u \in units : CanAttempt(u)}

\* What the local variables of _processUnitMovement mean at each step.
ResolutionInv ==
    /\ step # "cleanup" => destroyed = {}
    /\ step # "propagate" => queue = {}
    /\ step \notin {"collisions", "propagate"} => active = {}
    /\ step = "collisions" => active = Attempts
    /\ step = "propagate" =>
         /\ active \subseteq Attempts
         /\ queue \cap active = {}
         /\ \A u \in active : \A v \in Attempts \ {u} : Intended(v) # Intended(u)
         /\ \A j \in units \ active : j \in queue \/ BlockedBy(j) = {}

\* Whatever has been cancelled so far had to be cancelled.
CancelledForAReason ==
    step = "propagate" =>
        \A C \in SUBSET units : RuleClosed(C) => units \ active \subseteq C

IInv == TypeOK /\ ExclusiveOccupancy /\ NoDanglingUnit /\ ResolutionInv

-----------------------------------------------------------------------------
(* A step in some direction that stays in bounds ends on a tile.            *)
LEMMA InBoundsIsTile ==
    ASSUME NEW t \in Tiles, NEW d \in Direction, isInBounds(TileAhead(t, d))
    PROVE  TileAhead(t, d) \in Tiles
<1>1. Offset[d][1] \in Int /\ Offset[d][2] \in Int
  BY DEF Direction, Offset
<1>2. t[1] \in Int /\ t[2] \in Int
  BY SizeAssumption DEF Tiles
<1>3. QED
  BY <1>1, <1>2, SizeAssumption DEF isInBounds, TileAhead, Tiles

(* The tile that an attempted move aims at exists.                          *)
LEMMA AttemptIsTile ==
    ASSUME TypeOK, NEW u \in Units, CanAttempt(u)
    PROVE  Intended(u) \in Tiles
  BY InBoundsIsTile DEF TypeOK, CanAttempt, Wants, Intended

(* The corner of a base is on the map.                                      *)
LEMMA BaseCornerIsTile ==
    ASSUME NEW u \in Units
    PROVE  BaseCorner[Owner[u]] \in Tiles
  BY BaseAssumption, OwnerAssumption

-----------------------------------------------------------------------------
(* The invariant holds at the start.                                        *)
LEMMA InitIInv == Init => IInv
<1> SUFFICES ASSUME Init PROVE IInv
  OBVIOUS
<1> USE DEF Init
<1>1. TypeOK
  <2>1. \A t \in Tiles : (\E u \in units : pos[u] = t)
            => (CHOOSE u \in units : pos[u] = t) \in Units
    BY OwnerAssumption
  <2>2. occupant \in [Tiles -> Units \cup {Nobody, Bullet}]
    BY <2>1
  <2>3. QED
    BY <2>2, OwnerAssumption DEF TypeOK, Steps
<1>2. \A u \in units : occupant[pos[u]] = u
  <2> TAKE u \in units
  <2>1. pos[u] \in Tiles
    BY OwnerAssumption
  <2>2. (CHOOSE w \in units : pos[w] = pos[u]) = u
    OBVIOUS
  <2>3. QED
    BY <2>1, <2>2
<1>3. ExclusiveOccupancy
  BY <1>2 DEF ExclusiveOccupancy
<1>4. NoDanglingUnit
  <2> SUFFICES ASSUME NEW t \in Tiles, occupant[t] \in Units
               PROVE  occupant[t] \in units /\ pos[occupant[t]] = t
    BY DEF NoDanglingUnit
  <2>1. \E u \in units : pos[u] = t
    BY MarkerAssumption
  <2>2. QED
    BY <2>1
<1>5. ResolutionInv
  BY DEF ResolutionInv
<1>6. QED
  BY <1>1, <1>3, <1>4, <1>5 DEF IInv

-----------------------------------------------------------------------------
(* The type invariant is inductive.                                         *)
LEMMA StepTypeOK ==
    ASSUME IInv, [Next]_vars
    PROVE  TypeOK'
<1> USE DEF IInv, TypeOK
<1>1. ASSUME NEW u \in Units, NEW d \in Direction \cup {NoMove}, Move(u, d)
      PROVE  TypeOK'
  BY <1>1 DEF Move, resolution
<1>2. ASSUME NEW u \in Units, NEW t \in Tiles, Spawn(u, t)
      PROVE  TypeOK'
  BY <1>2 DEF Spawn, resolution
<1>3. ASSUME NEW bullets \in BulletSets, NEW hit \in HitSets,
             NEW cleared \in SUBSET hit, BulletsLeave(bullets, hit, cleared)
      PROVE  TypeOK'
  BY <1>3 DEF BulletsLeave, Steps, resolution
<1>4. CASE RemoveDestroyed
  <2>1. pos' \in [Units -> Tiles]
    BY <1>4, BaseCornerIsTile DEF RemoveDestroyed, ReleasedTiles
  <2>2. pendingMove' \in [Units -> Direction \cup {NoMove}]
    BY <1>4 DEF RemoveDestroyed, ReleasedTiles
  <2>3. occupant' \in [Tiles -> Units \cup {Nobody, Bullet}]
    BY <1>4 DEF RemoveDestroyed, ReleasedTiles
  <2>4. active' = {} /\ queue' = {}
    <3>1. active = {}
      BY <1>4 DEF RemoveDestroyed, ReleasedTiles, ResolutionInv
    <3>2. QED
      BY <1>4, <3>1 DEF RemoveDestroyed, ReleasedTiles, ResolutionInv, resolution
  <2>5. QED
    BY <1>4, <2>1, <2>2, <2>3, <2>4 DEF RemoveDestroyed, ReleasedTiles, Steps
<1>5. CASE CollectMoves
  BY <1>5 DEF CollectMoves, field, Steps
<1>6. CASE CancelCollisions
  BY <1>6 DEF CancelCollisions, field, Steps
<1>7. ASSUME NEW curr \in queue, Propagate(curr)
      PROVE  TypeOK'
  BY <1>7 DEF Propagate, BlockedBy, field, Steps
<1>8. CASE ExecuteMoves
  <2>1. \A u \in active : Intended(u) \in Tiles
    BY <1>8, AttemptIsTile DEF ExecuteMoves, MovedTiles, ResolutionInv, Attempts
  <2>2. pos' \in [Units -> Tiles]
    BY <1>8, <2>1 DEF ExecuteMoves, MovedTiles
  <2>3. occupant' \in [Tiles -> Units \cup {Nobody, Bullet}]
    <3>1. \A t \in Tiles : (\E u \in active : Intended(u) = t)
              => (CHOOSE u \in active : Intended(u) = t) \in Units
      OBVIOUS
    <3>2. QED
      BY <1>8, <3>1 DEF ExecuteMoves, MovedTiles
  <2>4. pendingMove' \in [Units -> Direction \cup {NoMove}]
    BY <1>8 DEF ExecuteMoves, MovedTiles
  <2>5. QED
    BY <1>8, <2>2, <2>3, <2>4 DEF ExecuteMoves, MovedTiles, Steps
<1>9. CASE UNCHANGED vars
  BY <1>9 DEF vars
<1>10. QED
  BY <1>1, <1>2, <1>3, <1>4, <1>5, <1>6, <1>7, <1>8, <1>9 DEF Next, Engine, BulletPhase

-----------------------------------------------------------------------------
(* Executing the surviving moves keeps the occupation exclusive: a unit      *)
(* that stays is not moved into, because its dependents were cancelled with  *)
(* it, and no two units move to the same tile.                               *)
LEMMA ExecuteKeepsOccupancy ==
    ASSUME IInv, ExecuteMoves
    PROVE  ExclusiveOccupancy' /\ NoDanglingUnit'
<1> USE DEF IInv, TypeOK
<1>1. destroyed = {} /\ destroyed' = {} /\ units' = units
  BY DEF ExecuteMoves, MovedTiles, ResolutionInv
<1>2. \A u \in active : CanAttempt(u) /\ u \in units
  BY DEF ExecuteMoves, MovedTiles, ResolutionInv, Attempts
<1>3. \A u, v \in active : Intended(u) = Intended(v) => u = v
  BY <1>2 DEF ExecuteMoves, MovedTiles, ResolutionInv, Attempts
<1>4. \A u \in active : Intended(u) \in Tiles
  BY <1>2, AttemptIsTile
<1>5. \A u \in units : occupant[pos[u]] = u
  BY <1>1 DEF ExclusiveOccupancy
<1>6. \A u \in units \ active, v \in active : Intended(v) # pos[u]
  BY <1>5 DEF ExecuteMoves, MovedTiles, ResolutionInv, BlockedBy
<1>7. \A u \in units, v \in units : pos[u] = pos[v] => u = v
  BY <1>1 DEF ExclusiveOccupancy
<1>8. \A u \in units : pos'[u] = IF u \in active THEN Intended(u) ELSE pos[u]
  BY DEF ExecuteMoves, MovedTiles
<1>9. \A u \in units : occupant'[pos'[u]] = u
  <2> SUFFICES ASSUME NEW u \in units PROVE occupant'[pos'[u]] = u
    OBVIOUS
  <2>1. CASE u \in active
    <3>1. pos'[u] = Intended(u) /\ Intended(u) \in Tiles
      BY <1>4, <1>8, <2>1
    <3>2. (CHOOSE v \in active : Intended(v) = Intended(u)) = u
      BY <1>3, <2>1
    <3>3. occupant'[Intended(u)] = CHOOSE v \in active : Intended(v) = Intended(u)
      BY <3>1, <2>1 DEF ExecuteMoves, MovedTiles
    <3>4. QED
      BY <3>1, <3>2, <3>3
  <2>2. CASE u \notin active
    <3>1. pos'[u] = pos[u] /\ pos[u] \in Tiles
      BY <1>8, <2>2
    <3>2. ~ \E v \in active : Intended(v) = pos[u]
      BY <1>6, <2>2
    <3>3. ~ \E v \in active : pos[v] = pos[u]
      BY <1>7, <2>2
    <3>4. occupant'[pos[u]] = occupant[pos[u]]
      BY <3>1, <3>2, <3>3 DEF ExecuteMoves, MovedTiles
    <3>5. QED
      BY <1>5, <3>1, <3>4
  <2>3. QED
    BY <2>1, <2>2
<1>10. ExclusiveOccupancy'
  BY <1>1, <1>9 DEF ExclusiveOccupancy
<1>11. NoDanglingUnit'
  <2> SUFFICES ASSUME NEW t \in Tiles, occupant'[t] \in Units
               PROVE  occupant'[t] \in units /\ pos'[occupant'[t]] = t
    BY <1>1 DEF NoDanglingUnit
  <2>1. CASE \E u \in active : Intended(u) = t
    <3>1. PICK u \in active : Intended(u) = t
      BY <2>1
    <3>2. pos'[u] = t /\ u \in units
      BY <1>2, <1>8, <3>1
    <3>3. QED
      BY <1>9, <3>2
  <2>2. CASE ~ \E u \in active : Intended(u) = t
    <3>1. occupant'[t] = occupant[t] /\ ~ \E u \in active : pos[u] = t
      BY <2>2, MarkerAssumption DEF ExecuteMoves, MovedTiles
    <3>2. occupant[t] \in units /\ pos[occupant[t]] = t
      BY <3>1 DEF NoDanglingUnit
    <3>3. QED
      BY <1>8, <3>1, <3>2
  <2>3. QED
    BY <2>1, <2>2
<1>12. QED
  BY <1>10, <1>11

(* Exclusive occupation and the absence of dangling unit pointers are       *)
(* preserved by every step.                                                 *)
LEMMA StepOccupancy ==
    ASSUME IInv, [Next]_vars
    PROVE  ExclusiveOccupancy' /\ NoDanglingUnit'
<1> USE DEF IInv, TypeOK, ExclusiveOccupancy, NoDanglingUnit
<1>1. ASSUME NEW u \in Units, NEW d \in Direction \cup {NoMove}, Move(u, d)
      PROVE  ExclusiveOccupancy' /\ NoDanglingUnit'
  BY <1>1 DEF Move
<1>2. ASSUME NEW u \in Units, NEW t \in Tiles, Spawn(u, t)
      PROVE  ExclusiveOccupancy' /\ NoDanglingUnit'
  <2>1. occupant' = [occupant EXCEPT ![t] = u] /\ pos' = [pos EXCEPT ![u] = t]
        /\ units' = units \cup {u} /\ destroyed' = destroyed
        /\ u \notin units /\ occupant[t] = Nobody
    BY <1>2 DEF Spawn
  <2>2. \A v \in units \ destroyed : pos[v] # t
    BY <2>1, MarkerAssumption
  <2>3. ExclusiveOccupancy'
    BY <2>1, <2>2
  <2>4. NoDanglingUnit'
    BY <2>1, <2>2
  <2>5. QED
    BY <2>3, <2>4
<1>3. ASSUME NEW bullets \in BulletSets, NEW hit \in HitSets,
             NEW cleared \in SUBSET hit, BulletsLeave(bullets, hit, cleared)
      PROVE  ExclusiveOccupancy' /\ NoDanglingUnit'
  <2>1. destroyed = {} /\ units' = units /\ pos' = pos /\ destroyed' = hit
    BY <1>3 DEF BulletsLeave, ResolutionInv
  <2>2. ExclusiveOccupancy'
    BY <1>3, <2>1 DEF BulletsLeave
  <2>3. NoDanglingUnit'
    BY <1>3, <2>1, MarkerAssumption DEF BulletsLeave
  <2>4. QED
    BY <2>2, <2>3
<1>4. CASE RemoveDestroyed
  <2>1. units' = units \ destroyed /\ destroyed' = {}
        /\ \A u \in units \ destroyed : pos'[u] = pos[u]
    BY <1>4 DEF RemoveDestroyed, ReleasedTiles
  <2>2. \A u \in units \ destroyed : occupant'[pos[u]] = occupant[pos[u]]
    BY <1>4 DEF RemoveDestroyed, ReleasedTiles
  <2>3. ExclusiveOccupancy'
    BY <2>1, <2>2
  <2>4. \A t \in Tiles : occupant'[t] \in Units =>
            occupant'[t] = occupant[t] /\ occupant[t] \in units \ destroyed
    BY <1>4, MarkerAssumption DEF RemoveDestroyed, ReleasedTiles
  <2>5. NoDanglingUnit'
    BY <2>1, <2>4
  <2>6. QED
    BY <2>3, <2>5
<1>5. CASE CollectMoves
  BY <1>5 DEF CollectMoves, field
<1>6. CASE CancelCollisions
  BY <1>6 DEF CancelCollisions, field
<1>7. ASSUME NEW curr \in queue, Propagate(curr)
      PROVE  ExclusiveOccupancy' /\ NoDanglingUnit'
  BY <1>7 DEF Propagate, field
<1>8. CASE ExecuteMoves
  BY <1>8, ExecuteKeepsOccupancy
<1>9. CASE UNCHANGED vars
  BY <1>9 DEF vars
<1>10. QED
  BY <1>1, <1>2, <1>3, <1>4, <1>5, <1>6, <1>7, <1>8, <1>9 DEF Next, Engine, BulletPhase

-----------------------------------------------------------------------------
(* The bookkeeping of the resolution is inductive.                          *)
LEMMA StepResolution ==
    ASSUME IInv, [Next]_vars
    PROVE  ResolutionInv'
<1> USE DEF IInv, TypeOK, ResolutionInv
<1>1. ASSUME NEW u \in Units, NEW d \in Direction \cup {NoMove}, Move(u, d)
      PROVE  ResolutionInv'
  BY <1>1 DEF Move, resolution
<1>2. ASSUME NEW u \in Units, NEW t \in Tiles, Spawn(u, t)
      PROVE  ResolutionInv'
  BY <1>2 DEF Spawn, resolution
<1>3. ASSUME NEW bullets \in BulletSets, NEW hit \in HitSets,
             NEW cleared \in SUBSET hit, BulletsLeave(bullets, hit, cleared)
      PROVE  ResolutionInv'
  BY <1>3 DEF BulletsLeave, resolution
<1>4. CASE RemoveDestroyed
  BY <1>4 DEF RemoveDestroyed, ReleasedTiles, resolution
<1>5. CASE CollectMoves
  <2>1. Attempts' = Attempts
    BY <1>5 DEF CollectMoves, field, Attempts, CanAttempt, Wants, Intended
  <2>2. QED
    BY <1>5, <2>1 DEF CollectMoves, field, Attempts
<1>6. CASE CancelCollisions
  <2>1. /\ Attempts' = Attempts
        /\ \A u \in units : Intended(u)' = Intended(u)
    BY <1>6 DEF CancelCollisions, field, Attempts, CanAttempt, Wants, Intended
  <2>2. active' \subseteq Attempts /\ queue' = units \ active'
        /\ units' = units /\ destroyed' = destroyed /\ step' = "propagate"
    BY <1>6 DEF CancelCollisions, field
  <2>3. \A u \in active' : \A v \in Attempts \ {u} : Intended(v) # Intended(u)
    BY <1>6 DEF CancelCollisions
  <2>4. \A u \in active' : \A v \in Attempts' \ {u} : Intended(v)' # Intended(u)'
    BY <2>1, <2>2, <2>3 DEF Attempts
  <2>5. \A j \in units' \ active' : j \in queue'
    BY <2>2
  <2>6. QED
    BY <1>6, <2>1, <2>2, <2>4, <2>5 DEF CancelCollisions
<1>7. ASSUME NEW curr \in queue, Propagate(curr)
      PROVE  ResolutionInv'
  <2>1. /\ Attempts' = Attempts
        /\ \A u \in units : Intended(u)' = Intended(u)
    BY <1>7 DEF Propagate, field, Attempts, CanAttempt, Wants, Intended
  <2>2. active' = active \ BlockedBy(curr) /\ queue' = (queue \ {curr}) \cup BlockedBy(curr)
        /\ units' = units /\ destroyed' = destroyed /\ step' = "propagate"
        /\ step = "propagate" /\ occupant' = occupant
    BY <1>7 DEF Propagate, field
  <2>3. \A j : BlockedBy(j)' = BlockedBy(j) \ BlockedBy(curr)
    BY <2>1, <2>2 DEF BlockedBy
  <2>4. \A j \in units' \ active' : j \in queue' \/ BlockedBy(j)' = {}
    <3> SUFFICES ASSUME NEW j \in units, j \notin active'
                 PROVE  j \in queue' \/ BlockedBy(j)' = {}
      BY <2>2
    <3>1. CASE j \in active
      BY <2>2, <3>1
    <3>2. CASE j = curr
      BY <2>3, <3>2
    <3>3. CASE j \notin active /\ j # curr
      BY <2>2, <2>3, <3>3
    <3>4. QED
      BY <3>1, <3>2, <3>3
  <2>5. queue' \cap active' = {} /\ active' \subseteq Attempts'
    BY <2>1, <2>2
  <2>6. \A u \in active' : \A v \in Attempts' \ {u} : Intended(v)' # Intended(u)'
    BY <2>1, <2>2 DEF Attempts
  <2>7. QED
    BY <2>2, <2>4, <2>5, <2>6
<1>8. CASE ExecuteMoves
  BY <1>8 DEF ExecuteMoves, MovedTiles
<1>9. CASE UNCHANGED vars
  BY <1>9 DEF vars, Attempts, CanAttempt, Wants, Intended, BlockedBy
<1>10. QED
  BY <1>1, <1>2, <1>3, <1>4, <1>5, <1>6, <1>7, <1>8, <1>9 DEF Next, Engine, BulletPhase

(* TypeOK, exclusive occupation and the absence of dangling unit pointers   *)
(* hold in every reachable state, whatever the map, the number of units and *)
(* the order in which cancellations are processed.                          *)
THEOREM Occupancy == Spec => [](TypeOK /\ ExclusiveOccupancy /\ NoDanglingUnit)
<1>1. IInv /\ [Next]_vars => IInv'
  BY StepTypeOK, StepOccupancy, StepResolution DEF IInv
<1>2. IInv => TypeOK /\ ExclusiveOccupancy /\ NoDanglingUnit
  BY DEF IInv
<1>3. QED
  BY InitIInv, <1>1, <1>2, PTL DEF Spec

(* Type correctness of World::_resolveMovement and of what it works on.     *)
THEOREM TypeCorrect == Spec => []TypeOK
  BY Occupancy, PTL

(* Tile::unit_ptr never dangles: after every step of a turn, the moves and  *)
(* the removal of destroyed units included, it points to a unit that is     *)
(* still owned by _units and stands on that tile.                           *)
THEOREM UnitPointers == Spec => []NoDanglingUnit
  BY Occupancy, PTL

-----------------------------------------------------------------------------
(* A step leaves its tile.                                                  *)
LEMMA TileAheadDiffers ==
    ASSUME NEW t \in Tiles, NEW d \in Direction
    PROVE  TileAhead(t, d) # t
<1>1. t[1] \in Int /\ t[2] \in Int
  BY SizeAssumption DEF Tiles
<1>2. TileAhead(t, d)[1] = t[1] + Offset[d][1] /\ TileAhead(t, d)[2] = t[2] + Offset[d][2]
  BY DEF TileAhead
<1>3. Offset[d][1] \in {-1, 1} \/ Offset[d][2] \in {-1, 1}
  BY DEF Direction, Offset
<1>4. Offset[d][1] \in Int /\ Offset[d][2] \in Int
  BY DEF Direction, Offset
<1>5. QED
  BY <1>1, <1>2, <1>3, <1>4

(* A unit outside some closed set passes every per-unit check.              *)
LEMMA OutsideClosedSetAttempts ==
    ASSUME IInv, destroyed = {}, NEW C \in SUBSET units, RuleClosed(C),
           NEW u \in units \ C
    PROVE  CanAttempt(u)
<1> USE DEF IInv, TypeOK
<1>1. /\ Wants(u)
      /\ isInBounds(Intended(u))
      /\ Intended(u) \notin Obstacle \cup Water
      /\ occupant[Intended(u)] # Bullet
      /\ \A o \in units \ {u} : pos[o] = Intended(u) =>
            Wants(o) /\ Intended(o) # pos[u]
  BY DEF RuleClosed
<1>2. Intended(u) \in Tiles /\ Intended(u) # pos[u]
  BY <1>1, InBoundsIsTile, TileAheadDiffers DEF Wants, Intended
<1>3. ASSUME occupant[Intended(u)] \in Units
      PROVE  /\ Wants(occupant[Intended(u)])
             /\ Intended(occupant[Intended(u)]) # pos[u]
  <2>1. occupant[Intended(u)] \in units /\ pos[occupant[Intended(u)]] = Intended(u)
    BY <1>2, <1>3 DEF NoDanglingUnit
  <2>2. QED
    BY <1>1, <1>2, <2>1
<1>4. QED
  BY <1>1, <1>3 DEF CanAttempt

(* No cancellation happens that the rules do not force.                     *)
LEMMA StepReason ==
    ASSUME IInv, CancelledForAReason, [Next]_vars
    PROVE  CancelledForAReason'
<1> USE DEF IInv, TypeOK
<1>1. CASE CancelCollisions
  <2>1. units' = units /\ \A C : RuleClosed(C)' = RuleClosed(C)
    BY <1>1 DEF CancelCollisions, field, RuleClosed, Wants, Intended
  <2>2. destroyed = {} /\ active = Attempts
    BY <1>1 DEF CancelCollisions, ResolutionInv
  <2>3. ASSUME NEW C \in SUBSET units, RuleClosed(C), NEW u \in units \ C
        PROVE  u \in active'
    <3>1. u \in active
      BY <2>2, <2>3, OutsideClosedSetAttempts DEF Attempts
    <3>2. \A v \in active \ {u} : Intended(v) # Intended(u)
      BY <2>2, <2>3 DEF Attempts, CanAttempt, RuleClosed
    <3>3. QED
      BY <1>1, <3>1, <3>2 DEF CancelCollisions
  <2>4. QED
    BY <2>1, <2>3 DEF CancelledForAReason
<1>2. ASSUME NEW curr \in queue, Propagate(curr)
      PROVE  CancelledForAReason'
  <2>1. units' = units /\ \A C : RuleClosed(C)' = RuleClosed(C)
    BY <1>2 DEF Propagate, field, RuleClosed, Wants, Intended
  <2>2. curr \in units \ active /\ step = "propagate"
    BY <1>2 DEF Propagate, ResolutionInv
  <2>3. ASSUME NEW C \in SUBSET units, RuleClosed(C), NEW u \in units \ C
        PROVE  u \in active'
    <3>1. units \ active \subseteq C
      BY <2>2, <2>3 DEF CancelledForAReason
    <3>2. u \in active /\ curr \in C
      BY <2>2, <2>3, <3>1
    <3>3. CanAttempt(u)
      BY <2>2, <3>2 DEF ResolutionInv, Attempts
    <3>4. occupant[Intended(u)] # curr
      <4> SUFFICES ASSUME occupant[Intended(u)] = curr PROVE FALSE
        OBVIOUS
      <4>1. pos[curr] = Intended(u)
        BY <2>2, <3>3, AttemptIsTile DEF NoDanglingUnit
      <4>2. QED
        BY <2>2, <2>3, <3>2, <4>1 DEF RuleClosed
    <3>5. QED
      BY <1>2, <3>2, <3>4 DEF Propagate, BlockedBy
  <2>4. QED
    BY <2>1, <2>3 DEF CancelledForAReason
<1>3. CASE UNCHANGED vars
  BY <1>3 DEF vars, CancelledForAReason, RuleClosed, Wants, Intended
<1>4. ASSUME NEW u \in Units, NEW d \in Direction \cup {NoMove}, Move(u, d)
      PROVE  CancelledForAReason'
  BY <1>4 DEF Move, CancelledForAReason
<1>5. ASSUME NEW u \in Units, NEW t \in Tiles, Spawn(u, t)
      PROVE  CancelledForAReason'
  BY <1>5 DEF Spawn, CancelledForAReason
<1>6. CASE BulletPhase
  BY <1>6 DEF BulletPhase, BulletsLeave, CancelledForAReason
<1>7. CASE RemoveDestroyed \/ CollectMoves \/ ExecuteMoves
  BY <1>7 DEF RemoveDestroyed, ReleasedTiles, CollectMoves, ExecuteMoves, MovedTiles, CancelledForAReason
<1>8. QED
  BY <1>1, <1>2, <1>3, <1>4, <1>5, <1>6, <1>7 DEF Next, Engine

(* When the queue is empty, what is cancelled is closed under the rules.    *)
LEMMA CancelledIsClosed ==
    ASSUME IInv, step = "propagate", queue = {}
    PROVE  RuleClosed(units \ active)
<1> USE DEF IInv, TypeOK
<1>1. destroyed = {} /\ active \subseteq Attempts
      /\ \A j \in units \ active : BlockedBy(j) = {}
  BY DEF ResolutionInv
<1>2. \A u \in units : occupant[pos[u]] = u
  BY <1>1 DEF ExclusiveOccupancy
<1>3. ASSUME NEW u \in active
      PROVE  /\ CanAttempt(u)
             /\ \A o \in units : occupant[Intended(u)] = o => o \in active
  BY <1>1, <1>3 DEF Attempts, BlockedBy
<1>4. ASSUME NEW u \in active, NEW v \in units \ {u}, Wants(v), Intended(v) = Intended(u)
      PROVE  FALSE
  <2>1. ~CanAttempt(v)
    BY <1>4 DEF ResolutionInv, Attempts
  <2>2. CanAttempt(u) /\ Intended(u) \in Tiles
    BY <1>3, <1>1, AttemptIsTile
  <2>3. PICK o \in Units : occupant[Intended(u)] = o /\ Wants(o) /\ Intended(o) = pos[v]
    BY <1>4, <2>1, <2>2 DEF CanAttempt
  <2>4. o \in units /\ pos[o] = Intended(u)
    BY <2>2, <2>3 DEF NoDanglingUnit
  <2>5. o \in active
    BY <1>3, <2>3, <2>4
  <2>6. ~CanAttempt(o)
    BY <1>2, <1>4, <2>3, <2>4 DEF CanAttempt
  <2>7. QED
    BY <1>3, <2>5, <2>6
<1>5. ASSUME NEW u \in active, NEW o \in units \ {u}, pos[o] = Intended(u)
      PROVE  Wants(o) /\ Intended(o) # pos[u] /\ o \in active
  <2>1. occupant[Intended(u)] = o
    BY <1>2, <1>5
  <2>2. QED
    BY <1>3, <2>1 DEF CanAttempt
<1>6. QED
  BY <1>3, <1>4, <1>5 DEF RuleClosed, CanAttempt

(* The breadth-first cancellation executes exactly the moves that the       *)
(* movement rules of docs/rule-spec.md do not cancel.                       *)
THEOREM Resolution == Spec => []ResolvedByTheRules
<1>1. Init => IInv /\ CancelledForAReason
  BY InitIInv DEF Init, CancelledForAReason
<1>2. IInv /\ CancelledForAReason /\ [Next]_vars => (IInv /\ CancelledForAReason)'
  BY StepTypeOK, StepOccupancy, StepResolution, StepReason DEF IInv
<1>3. IInv /\ CancelledForAReason => ResolvedByTheRules
  <2> SUFFICES ASSUME IInv, CancelledForAReason, step = "propagate", queue = {}
               PROVE  active = units \ RuleCancelled
    BY DEF ResolvedByTheRules
  <2>1. RuleClosed(units \ active)
    BY CancelledIsClosed
  <2>2. units \ active \subseteq RuleCancelled
    BY DEF CancelledForAReason, RuleCancelled
  <2>3. RuleCancelled \subseteq units \ active
    BY <2>1 DEF RuleCancelled
  <2>4. active \subseteq units
    BY DEF IInv, TypeOK
  <2>5. QED
    BY <2>2, <2>3, <2>4
<1>4. QED
  BY <1>1, <1>2, <1>3, PTL DEF Spec

-----------------------------------------------------------------------------
(* A unit only ever moves one tile, to the passable, bullet-free tile that  *)
(* its program asked for, and two units never trade places.                 *)
THEOREM LegalMoves == Spec => MovesAreLegal
<1>1. IInv /\ [Next]_vars => IInv'
  BY StepTypeOK, StepOccupancy, StepResolution DEF IInv
<1>2. IInv /\ [Next]_vars => [LegalMove]_vars
  <2> SUFFICES ASSUME IInv, Next PROVE LegalMove
    OBVIOUS
  <2> USE DEF IInv, TypeOK
  <2>1. CASE ExecuteMoves
    <3>1. destroyed = {} /\ units' = units
      BY <2>1 DEF ExecuteMoves, MovedTiles, ResolutionInv
    <3>2. \A u \in active : CanAttempt(u) /\ Intended(u) \in Tiles
      BY <2>1, AttemptIsTile DEF ExecuteMoves, MovedTiles, ResolutionInv, Attempts
    <3>3. \A u \in units : pos'[u] = IF u \in active THEN Intended(u) ELSE pos[u]
      BY <2>1 DEF ExecuteMoves, MovedTiles
    <3>4. \A u, v \in units : u # v => pos[u] # pos[v]
      BY <3>1 DEF ExclusiveOccupancy
    <3>5. \A u \in units : occupant[pos[u]] = u
      BY <3>1 DEF ExclusiveOccupancy
    <3>6. ASSUME NEW u \in units, NEW v \in units, u # v,
                 pos'[v] = pos[u], pos'[u] = pos[v]
          PROVE  FALSE
      <4>1. u \in active /\ v \in active /\ Intended(u) = pos[v] /\ Intended(v) = pos[u]
        BY <3>3, <3>4, <3>6
      <4>2. QED
        BY <3>2, <3>5, <4>1 DEF CanAttempt
    <3>7. QED
      BY <3>1, <3>2, <3>3, <3>6 DEF LegalMove, CanAttempt
  <2>2. ASSUME NEW u \in Units, NEW t \in Tiles, Spawn(u, t)
        PROVE  LegalMove
    BY <2>2 DEF Spawn, LegalMove
  <2>3. CASE RemoveDestroyed
    BY <2>3 DEF RemoveDestroyed, ReleasedTiles, LegalMove
  <2>4. ASSUME NEW u \in Units, NEW d \in Direction \cup {NoMove}, Move(u, d)
        PROVE  LegalMove
    BY <2>4 DEF Move, LegalMove
  <2>5. CASE BulletPhase
    BY <2>5 DEF BulletPhase, BulletsLeave, LegalMove
  <2>6. CASE CollectMoves \/ CancelCollisions \/ \E curr \in queue : Propagate(curr)
    BY <2>6 DEF CollectMoves, CancelCollisions, Propagate, field, LegalMove
  <2>7. QED
    BY <2>1, <2>2, <2>3, <2>4, <2>5, <2>6 DEF Next, Engine
<1>3. QED
  BY InitIInv, <1>1, <1>2, PTL DEF Spec, MovesAreLegal
=============================================================================
