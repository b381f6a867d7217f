---------------------------- MODULE UnitMovement ----------------------------
(***************************************************************************)
(* Simultaneous unit movement: World::_processUnitMovement, with the move   *)
(* requests and spawns of the program phase that feed it and the bullet     *)
(* phase that precedes it as its environment.                               *)
(*                                                                          *)
(* _units is a set here.  The loops over the vector are order independent   *)
(* except for the cancellation queue, which is a set from which any element *)
(* may be taken next: every order of the FIFO is among the behaviours.      *)
(***************************************************************************)
EXTENDS Battlefield

CONSTANTS
    Units,      \* the unit slots of both players
    Owner,      \* Owner[u]: player_id of unit u
    Nobody,     \* Tile::NOT_OCCUPIED
    Bullet,     \* Tile::OCCUPIED_BY_BULLET (dangling bullet pointers included)
    NoMove,     \* pending_move without a value
    InitialUnits, \* the units each player starts with
    BulletSets, \* the sets of bullet tiles considered (bounds the model)
    HitSets     \* the sets of units destroyed in one turn (bounds the model)

ASSUME OwnerAssumption == Owner \in [Units -> Players] /\ InitialUnits \subseteq Units
ASSUME EnvironmentAssumption ==
    BulletSets \subseteq SUBSET (Tiles \ Obstacle) /\ HitSets \subseteq SUBSET Units
ASSUME MarkerAssumption ==
    /\ Nobody \notin Units /\ Bullet \notin Units /\ Nobody # Bullet
    /\ NoMove \notin Direction

VARIABLES
    units,        \* the Unit objects owned by World::_units
    destroyed,    \* those among them whose health is 0
    pos,          \* Unit::x, Unit::y
    pendingMove,  \* Unit::pending_move
    moved,        \* units whose EcallContext::flags.move is set this turn
    occupant,     \* Tile::occupied_state with Tile::unit_ptr
    events,       \* the World::_turn_events raised by this phase
    step,         \* where in the turn the engine is
    active,       \* the local vector<bool> active
    queue         \* the local cancel_queue

vars == <<units, destroyed, pos, pendingMove, moved, occupant, events, step,
          active, queue>>
resolution == <<active, queue>>
field == <<units, destroyed, pos, pendingMove, moved, occupant, events>>

Steps == {"programs", "cleanup", "collect", "collisions", "propagate"}

Init ==
    /\ units = InitialUnits
    /\ destroyed = {}
    /\ pos \in [Units -> Tiles]
    /\ \A u \in units : isInBase(pos[u], Owner[u])
    /\ \A u, v \in units : u # v => pos[u] # pos[v]
    /\ \A u \in Units \ units : pos[u] = BaseCorner[Owner[u]]
    /\ pendingMove = [u \in Units |-> NoMove]
    /\ moved = {}
    /\ occupant = [t \in Tiles |->
                     IF \E u \in units : pos[u] = t
                     THEN CHOOSE u \in units : pos[u] = t
                     ELSE Nobody]
    /\ events = {}
    /\ step = "programs"
    /\ active = {}
    /\ queue = {}

-----------------------------------------------------------------------------
(* The program phase: ecalls of this turn's programs.                       *)

\* ecall_move: one successful request per turn.  A direction out of range (NoMove
\* here) is refused and clears pending_move; it can be followed by another request.
Move(u, d) ==
    /\ step = "programs"
    /\ u \in units
    /\ u \notin moved
    /\ pendingMove' = [pendingMove EXCEPT ![u] = d]
    /\ moved' = IF d = NoMove THEN moved ELSE moved \cup {u}
    /\ UNCHANGED <<units, destroyed, pos, occupant, events, step, resolution>>

\* _spawnUnitAtBase / _spawnUnit: a new object on an empty tile of the base.
Spawn(u, t) ==
    /\ step = "programs"
    /\ u \notin units
    /\ t \in BaseTiles(Owner[u])
    /\ occupant[t] = Nobody
    /\ units' = units \cup {u}
    /\ pos' = [pos EXCEPT ![u] = t]
    /\ pendingMove' = [pendingMove EXCEPT ![u] = NoMove]
    /\ occupant' = [occupant EXCEPT ![t] = u]
    /\ UNCHANGED <<destroyed, moved, events, step, resolution>>

(* The next turn starts: _turn_events is reset, then the bullets move.  The *)
(* bullet phase as units see it: it may take the health of any unit to 0,   *)
(* and then leave that unit on its tile, a bullet there, or nothing; a tile *)
(* without a unit may or may not hold a bullet afterwards.                  *)
BulletsLeave(bullets, hit, cleared) ==
    /\ step = "programs"
    /\ hit \subseteq units
    /\ \A u \in units \ cleared : pos[u] \notin bullets
    /\ destroyed' = hit
    /\ occupant' = [t \in Tiles |->
                      IF t \in bullets THEN Bullet
                      ELSE IF occupant[t] \in units \ cleared
                           THEN occupant[t]
                           ELSE Nobody]
    /\ events' = {}
    /\ moved' = {}
    /\ step' = "cleanup"
    /\ UNCHANGED <<units, pos, pendingMove, resolution>>

BulletPhase ==
    \E bullets \in BulletSets, hit \in HitSets :
        \E cleared \in SUBSET hit : BulletsLeave(bullets, hit, cleared)

-----------------------------------------------------------------------------
(* _processUnitMovement.                                                    *)

\* Mutant of ReleasedTiles: the tile of a removed unit is not released.
ReleasedTiles_None == occupant

\* A tile is released only when it still points to the destroyed unit.
ReleasedTiles ==
    [t \in Tiles |-> IF \E u \in destroyed : pos[u] = t /\ occupant[t] = u
                     THEN Nobody ELSE occupant[t]]

\* Mutant of RemoveDestroyed: the health-0 flags survive the removal.
RemoveDestroyed_KeepFlags ==
    /\ step = "cleanup"
    /\ units' = units \ destroyed
    /\ occupant' = ReleasedTiles
    /\ step' = "collect"
    /\ UNCHANGED <<destroyed, pos, pendingMove, events, moved, resolution>>

\* Destroyed units are logged and removed; their freed fields get a fixed value.
RemoveDestroyed ==
    /\ step = "cleanup"
    /\ units' = units \ destroyed
    /\ destroyed' = {}
    /\ occupant' = ReleasedTiles
    /\ events' = IF destroyed # {} THEN events \cup {"unit_destroyed"} ELSE events
    /\ pos' = [u \in Units |-> IF u \in destroyed THEN BaseCorner[Owner[u]] ELSE pos[u]]
    /\ pendingMove' = [u \in Units |-> IF u \in destroyed THEN NoMove ELSE pendingMove[u]]
    /\ step' = "collect"
    /\ UNCHANGED <<moved, resolution>>

Wants(u) == pendingMove[u] # NoMove

\* The intended tile of a unit that wants to move.
Intended(u) == TileAhead(pos[u], pendingMove[u])

\* Mutant of CanAttempt: rule 3b (moving against each other) is missing.
CanAttempt_NoRule3b(u) ==
    /\ Wants(u)
    /\ isInBounds(Intended(u))
    /\ Intended(u) \notin Obstacle \cup Water
    /\ occupant[Intended(u)] # Bullet
    /\ occupant[Intended(u)] \in Units => Wants(occupant[Intended(u)])

\* Mutant of CanAttempt: a tile with a bullet is taken for an empty one.
CanAttempt_IgnoreBullets(u) ==
    /\ Wants(u)
    /\ isInBounds(Intended(u))
    /\ Intended(u) \notin Obstacle \cup Water
    /\ occupant[Intended(u)] \in Units =>
         /\ Wants(occupant[Intended(u)])
         /\ Intended(occupant[Intended(u)]) # pos[u]

\* Rules 1, 3a and 3b of the code's comment, checked per unit.
CanAttempt(u) ==
    /\ Wants(u)
    /\ isInBounds(Intended(u))
    /\ Intended(u) \notin Obstacle \cup Water
    /\ occupant[Intended(u)] # Bullet
    /\ occupant[Intended(u)] \in Units =>
         /\ Wants(occupant[Intended(u)])
         /\ Intended(occupant[Intended(u)]) # pos[u]

CollectMoves ==
    /\ step = "collect"
    /\ active' = {u \in units : CanAttempt(u)}
    /\ step' = "collisions"
    /\ UNCHANGED <<field, queue>>

\* blocked_by[j]: the active units whose target tile j stands on.
BlockedBy(j) == {i \in active : occupant[Intended(i)] = j}

\* Rule 2 among the moves still active, and the initial cancel_queue.
CancelCollisions ==
    /\ step = "collisions"
    /\ active' = {u \in active : \A v \in active \ {u} : Intended(v) # Intended(u)}
    /\ queue' = units \ active'
    /\ step' = "propagate"
    /\ UNCHANGED field

\* One iteration of the breadth-first cancellation.
Propagate(curr) ==
    /\ step = "propagate"
    /\ curr \in queue
    /\ active' = active \ BlockedBy(curr)
    /\ queue' = (queue \ {curr}) \cup BlockedBy(curr)
    /\ UNCHANGED <<field, step>>

\* Mutant of MovedTiles: a single pass, so that a unit following another one
\* has its new tile released behind it.
MovedTiles_OnePass ==
    [t \in Tiles |-> IF \E u \in active : pos[u] = t THEN Nobody
                     ELSE IF \E u \in active : Intended(u) = t
                          THEN CHOOSE u \in active : Intended(u) = t
                          ELSE occupant[t]]

\* Old tiles are released in a first pass, new ones taken in a second.
MovedTiles ==
    [t \in Tiles |-> IF \E u \in active : Intended(u) = t
                     THEN CHOOSE u \in active : Intended(u) = t
                     ELSE IF \E u \in active : pos[u] = t
                          THEN Nobody ELSE occupant[t]]

\* pending_move is reset for everyone, then the active units move.
ExecuteMoves ==
    /\ step = "propagate"
    /\ queue = {}
    /\ pendingMove' = [u \in Units |-> IF u \in units THEN NoMove ELSE pendingMove[u]]
    /\ pos' = [u \in Units |-> IF u \in active THEN Intended(u) ELSE pos[u]]
    /\ occupant' = MovedTiles
    /\ events' = events
         \cup (IF \E u \in active : /\ isInBase(pos[u], Owner[u])
                                     /\ ~isInBase(Intended(u), Owner[u])
               THEN {"unit_left_base"} ELSE {})
         \cup (IF \E u \in active : pos[u] \notin Resource /\ Intended(u) \in Resource
               THEN {"unit_entered_resource_zone"} ELSE {})
    /\ step' = "programs"
    /\ active' = {}
    /\ UNCHANGED <<units, destroyed, moved, queue>>

Engine ==
    \/ RemoveDestroyed
    \/ CollectMoves
    \/ CancelCollisions
    \/ \E curr \in queue : Propagate(curr)
    \/ ExecuteMoves

Next ==
    \/ \E u \in Units, d \in Direction \cup {NoMove} : Move(u, d)
    \/ \E u \in Units, t \in Tiles : Spawn(u, t)
    \/ BulletPhase
    \/ Engine

Spec == Init /\ [][Next]_vars

-----------------------------------------------------------------------------
(* Properties.                                                              *)

TypeOK ==
    /\ units \subseteq Units
    /\ destroyed \subseteq units
    /\ pos \in [Units -> Tiles]
    /\ pendingMove \in [Units -> Direction \cup {NoMove}]
    /\ moved \subseteq Units
    /\ occupant \in [Tiles -> Units \cup {Nobody, Bullet}]
    /\ step \in Steps
    /\ active \subseteq units
    /\ queue \subseteq units

(* "The occupation is exclusive, meaning two units cannot occupy the same   *)
(* tile simultaneously, nor can a unit occupy a tile with a bullet"         *)
(* (docs/rule-spec.md): every living unit is the occupant of the tile it    *)
(* stands on, so no other unit and no bullet can be.                        *)
ExclusiveOccupancy ==
    \A u \in units \ destroyed :
        /\ occupant[pos[u]] = u
        /\ \A v \in units \ destroyed : pos[v] = pos[u] => v = u

(* Tile::unit_ptr never dangles: a tile only points to an object that       *)
(* _units still owns and that stands on that tile.  The fail-fast check     *)
(* "Occupant not found or inactive" of _processUnitMovement relies on it.   *)
NoDanglingUnit ==
    \A t \in Tiles :
        occupant[t] \in Units => occupant[t] \in units /\ pos[occupant[t]] = t

(* The rules of docs/rule-spec.md "Unit Movement Resolution", as the        *)
(* condition that a set C of units is closed under them: a unit with no     *)
(* move, or whose move one of the rules cancels, is in C.                   *)
RuleClosed(C) ==
    \A u \in units :
        \/ u \in C
        \/ /\ Wants(u)
           /\ isInBounds(Intended(u))
           /\ Intended(u) \notin Obstacle \cup Water
           /\ occupant[Intended(u)] # Bullet
           /\ \A v \in units \ {u} : ~(Wants(v) /\ Intended(v) = Intended(u))
           /\ \A o \in units \ {u} : pos[o] = Intended(u) =>
                /\ Wants(o)
                /\ Intended(o) # pos[u]
                /\ o \notin C

\* The units that the rules cancel: those in every closed set.
RuleCancelled == {u \in units : \A C \in SUBSET units : RuleClosed(C) => u \in C}

(* When the breadth-first cancellation has run dry, the moves about to be   *)
(* executed are exactly those the rules do not cancel: nothing is cancelled *)
(* without a reason (trains of units and rotations go through) and nothing  *)
(* that a rule forbids is left.                                             *)
ResolvedByTheRules ==
    step = "propagate" /\ queue = {} => active = units \ RuleCancelled

(* A unit that changes its tile goes to the adjacent tile it asked for, one *)
(* that is on the map, passable and free of bullets, and two units never    *)
(* trade places.                                                            *)
LegalMove ==
    \A u \in units \cap units' :
        pos'[u] # pos[u] =>
            /\ Wants(u)
            /\ pos'[u] = Intended(u)
            /\ pos'[u] \in Tiles \ (Obstacle \cup Water)
            /\ occupant[pos'[u]] # Bullet
            /\ \A v \in units \cap units' :
                  v # u => ~(pos'[v] = pos[u] /\ pos'[u] = pos[v])

MovesAreLegal == [][LegalMove]_vars
=============================================================================
