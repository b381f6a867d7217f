------------------------------- MODULE Combat -------------------------------
(***************************************************************************)
(* Bullets: ecall_fire, World::_processBulletMovement with its five         *)
(* sub-steps, _moveBulletOneStep, _handleBulletCollision and                *)
(* _commitPendingAttacks.  One action is one iteration of a loop; the order *)
(* of _bullets and _units is kept, because collisions depend on it.         *)
(*                                                                          *)
(* The rest of a turn is the environment: UnitPhase removes destroyed units *)
(* and lets at most one unit walk to a free tile (UnitMovement has the real *)
(* resolution), adds the natural energy and counts the cooldowns down.      *)
(*                                                                          *)
(* A tile that still points to a bullet the engine has freed holds          *)
(* Dangling.  Reading through it is undefined: the pointee is either free   *)
(* memory with any damage value or whatever bullet reuses the address.      *)
(***************************************************************************)
EXTENDS Battlefield, Sequences

CONSTANTS
    Units,           \* the units of both players; never respawned here
    StartOrder,      \* _units at the start: a sequence of units
    StartTile,       \* where each of them starts
    DamageUpgraded,  \* the units with upgrades.damage
    UnitHealth,      \* rules.unit_health
    HealthLimit,     \* numeric_limits<health_t>::max()
    AttackCooldown,  \* rules.attack_cooldown
    Capacity,        \* rules.capacity_lv1
    Powers,          \* the powers programs fire with (bounds the model)
    BulletIds,       \* addresses of Bullet objects (bounds the model)
    Nobody,          \* Tile::NOT_OCCUPIED
    Dangling,        \* OCCUPIED_BY_BULLET with a pointer to a freed bullet
    MaxTurn          \* bound on the number of turns

ASSUME StartAssumption ==
    /\ StartOrder \in Seq(Units)
    /\ \A u \in Units : \E i \in 1 .. Len(StartOrder) : StartOrder[i] = u
    /\ StartTile \in [Units -> Tiles]
    /\ \A u, v \in Units : u # v => StartTile[u] # StartTile[v]
ASSUME NumberAssumption ==
    /\ HealthLimit \in Nat
    /\ UnitHealth \in 1 .. HealthLimit
    /\ AttackCooldown \in Nat \ {0}
    /\ Capacity \in Nat
    /\ Powers \subseteq Nat \ {0}
    /\ MaxTurn \in Nat
ASSUME MarkerAssumption ==
    /\ Units \cap BulletIds = {}
    /\ Nobody \notin Units \cup BulletIds
    /\ Dangling \notin Units \cup BulletIds
    /\ Nobody # Dangling

VARIABLES
    turn,        \* World::tick, up to MaxTurn
    phase,       \* "programs", "bullets", "attacks", "units" or "aborted"
    substep,     \* i of _processBulletMovement
    cursor,      \* position of the range-for over _bullets or _units
    units,       \* _units: the sequence of Unit objects
    registered,  \* the units that Player::units points to
    pos, health, energy, cooldown,
    attack,      \* Unit::pending_attack: damage (0: none) and direction
    fired,       \* history: units whose latest attack has left the barrel
    lastBullet,  \* history: the turn in which a unit last put a bullet on the field
    bullets,     \* _bullets: the sequence of Bullet objects
    bpos, bdir, bdamage,
    occupant     \* Tile::occupied_state with its pointer

history == <<fired, lastBullet>>
unitVars == <<units, pos, energy, cooldown, attack, history>>
bulletVars == <<bullets, bpos, bdir>>
clock == <<turn, phase, substep, cursor>>
hitVars == <<registered, health, bdamage, occupant>>
vars == <<clock, unitVars, bulletVars, hitVars>>

NoAttack == [damage |-> 0, dir |-> "up"]

Init ==
    /\ turn = 0 /\ phase = "programs" /\ substep = 0 /\ cursor = 1
    /\ units = StartOrder
    /\ registered = Units
    /\ pos = StartTile
    /\ health = [u \in Units |-> UnitHealth]
    /\ energy = [u \in Units |-> 0]
    /\ cooldown = [u \in Units |-> 0]
    /\ attack = [u \in Units |-> NoAttack]
    /\ fired = {}
    /\ lastBullet = [u \in Units |-> -AttackCooldown]
    /\ bullets = <<>>
    /\ bpos = [b \in BulletIds |-> <<0, 0>>]
    /\ bdir = [b \in BulletIds |-> "up"]
    /\ bdamage = [b \in BulletIds |-> 0]
    /\ occupant = [t \in Tiles |-> IF \E u \in Units : pos[u] = t
                                   THEN CHOOSE u \in Units : pos[u] = t
                                   ELSE Nobody]

-----------------------------------------------------------------------------
(* Programs.                                                                *)

ElementsOf(s) == {s[i] : i \in 1 .. Len(s)}

InPlay == ElementsOf(units)

BulletDamage(u, power) == power * (IF u \in DamageUpgraded THEN 2 ELSE 1)

\* Mutant of canAttack: the cooldown is not looked at.
canAttack_Always(u) == TRUE

canAttack(u) == cooldown[u] = 0

\* ecall_fire: the energy is paid now, the bullet is fired next turn.
Fire(u, d, power) ==
    /\ phase = "programs"
    /\ u \in InPlay
    /\ canAttack(u)
    /\ power <= energy[u]
    /\ BulletDamage(u, power) <= HealthLimit
    /\ energy' = [energy EXCEPT ![u] = @ - power]
    /\ attack' = [attack EXCEPT ![u] = [damage |-> BulletDamage(u, power), dir |-> d]]
    /\ cooldown' = [cooldown EXCEPT ![u] = AttackCooldown]
    /\ fired' = fired \ {u}
    /\ UNCHANGED <<clock, units, pos, lastBullet, bulletVars, hitVars>>

-----------------------------------------------------------------------------
(* Collisions.  A state of the battlefield during a collision is a record   *)
(* of the variables a collision touches.                                    *)

Field == [health |-> health, bdamage |-> bdamage, occupant |-> occupant,
          registered |-> registered]

HitUnit(b, u, t, f) ==
    IF f.bdamage[b] > f.health[u]
    THEN [f EXCEPT !.bdamage[b] = @ - f.health[u],
                   !.health[u] = 0,
                   !.occupant[t] = Nobody,
                   !.registered = @ \ {u}]
    ELSE [f EXCEPT !.health[u] = @ - f.bdamage[b],
                   !.bdamage[b] = 0]

\* Mutant of HitBullet: the weaker bullet is not compared first.
HitBullet_NoComparison(b, c, t, f) ==
    [f EXCEPT !.bdamage[c] = @ - f.bdamage[b], !.bdamage[b] = 0]

\* Mutant of HitBullet: the bullet run over stays in flight.
HitBullet_KeepLoser(b, c, t, f) ==
    IF f.bdamage[b] > f.bdamage[c]
    THEN [f EXCEPT !.bdamage[b] = @ - f.bdamage[c], !.occupant[t] = Nobody]
    ELSE [f EXCEPT !.bdamage[c] = @ - f.bdamage[b],
                   !.bdamage[b] = 0,
                   !.occupant[t] = IF f.bdamage[c] = f.bdamage[b] THEN Nobody ELSE @]

HitBullet(b, c, t, f) ==
    IF f.bdamage[b] > f.bdamage[c]
    THEN [f EXCEPT !.bdamage[b] = @ - f.bdamage[c],
                   !.bdamage[c] = 0,
                   !.occupant[t] = Nobody]
    ELSE [f EXCEPT !.bdamage[c] = @ - f.bdamage[b],
                   !.bdamage[b] = 0,
                   !.occupant[t] = IF f.bdamage[c] = f.bdamage[b] THEN Nobody ELSE @]

\* The pointee is free memory that reads as damage g; what is written is lost.
HitFreedMemory(b, g, t, f) ==
    IF f.bdamage[b] > g
    THEN [f EXCEPT !.bdamage[b] = @ - g, !.occupant[t] = Nobody]
    ELSE [f EXCEPT !.bdamage[b] = 0,
                   !.occupant[t] = IF f.bdamage[b] = g THEN Nobody ELSE @]

\* _handleBulletCollision: the possible outcomes of bullet b entering tile t.
Collisions(b, t, f) ==
    CASE f.occupant[t] = Nobody -> {f}
      [] f.occupant[t] \in Units -> {HitUnit(b, f.occupant[t], t, f)}
      [] f.occupant[t] \in BulletIds -> {HitBullet(b, f.occupant[t], t, f)}
      [] f.occupant[t] = Dangling ->
            {HitFreedMemory(b, g, t, f) : g \in 0 .. HealthLimit}
            \cup {HitBullet(b, c, t, f) : c \in {x \in BulletIds : f.bdamage[x] > 0}}

\* The bullet takes the tile it entered, if it survived.
Settle(b, t, f) ==
    IF f.bdamage[b] = 0 THEN f ELSE [f EXCEPT !.occupant[t] = b]

Becomes(f) ==
    /\ health' = f.health
    /\ bdamage' = f.bdamage
    /\ occupant' = f.occupant
    /\ registered' = f.registered

-----------------------------------------------------------------------------
(* The bullet phase.                                                        *)

BeginTurn ==
    /\ phase = "programs"
    /\ turn < MaxTurn
    /\ turn' = turn + 1
    /\ phase' = "bullets" /\ substep' = 0 /\ cursor' = 1
    /\ UNCHANGED <<unitVars, bulletVars, hitVars>>

\* std::erase_if: the elements in K are kept, in their order.
Kept(s, K) ==
    LET kept[i \in 0 .. Len(s)] ==
            IF i = 0 THEN <<>>
            ELSE IF s[i] \in K THEN Append(kept[i - 1], s[i]) ELSE kept[i - 1]
    IN  kept[Len(s)]

NextTile(b) == TileAhead(bpos[b], bdir[b])
Blocked(b) == ~isInBounds(NextTile(b)) \/ NextTile(b) \in Obstacle

Current == bullets[cursor]
Ahead == NextTile(Current)
Stopped == Blocked(Current)

\* A destroyed bullet is skipped.
SkipBullet ==
    /\ phase = "bullets" /\ cursor <= Len(bullets)
    /\ bdamage[Current] = 0
    /\ cursor' = cursor + 1
    /\ UNCHANGED <<turn, phase, substep, unitVars, bulletVars, hitVars>>

\* _moveBulletOneStep, the early returns: the tile it stands on is not released.
StopBullet ==
    /\ phase = "bullets" /\ cursor <= Len(bullets)
    /\ bdamage[Current] > 0
    /\ Stopped
    /\ bdamage' = [bdamage EXCEPT ![Current] = 0]
    /\ cursor' = cursor + 1
    /\ UNCHANGED <<turn, phase, substep, unitVars, bulletVars,
                   health, occupant, registered>>

\* _moveBulletOneStep: release the old tile, collide, settle.
AdvanceBullet ==
    /\ phase = "bullets" /\ cursor <= Len(bullets)
    /\ bdamage[Current] > 0
    /\ ~Stopped
    /\ \E f \in Collisions(Current, Ahead,
                           [Field EXCEPT !.occupant[bpos[Current]] = Nobody]) :
         /\ Becomes(Settle(Current, Ahead, f))
         /\ bpos' = IF f.bdamage[Current] = 0 THEN bpos
                    ELSE [bpos EXCEPT ![Current] = Ahead]
    /\ cursor' = cursor + 1
    /\ UNCHANGED <<turn, phase, substep, unitVars, bullets, bdir>>

\* After the first sub-step the pending attacks are committed.
EndFirstSubstep ==
    /\ phase = "bullets" /\ cursor > Len(bullets)
    /\ substep = 0
    /\ phase' = "attacks" /\ cursor' = 1
    /\ UNCHANGED <<turn, substep, unitVars, bulletVars, hitVars>>

EndSubstep ==
    /\ phase = "bullets" /\ cursor > Len(bullets)
    /\ substep \in 1 .. 3
    /\ substep' = substep + 1 /\ cursor' = 1
    /\ UNCHANGED <<turn, phase, unitVars, bulletVars, hitVars>>

\* After the last sub-step destroyed bullets are erased and freed: a tile that
\* still points to one of them dangles from here on.
EndBulletPhase ==
    /\ phase = "bullets" /\ cursor > Len(bullets)
    /\ substep = 4
    /\ bullets' = Kept(bullets, {b \in BulletIds : bdamage[b] # 0})
    /\ occupant' = [t \in Tiles |->
                      IF occupant[t] \in BulletIds /\ bdamage[occupant[t]] = 0
                      THEN Dangling ELSE occupant[t]]
    /\ phase' = "units"
    /\ UNCHANGED <<turn, substep, cursor, unitVars, bpos, bdir,
                   health, bdamage, registered>>

-----------------------------------------------------------------------------
(* _commitPendingAttacks.                                                   *)

Shooter == units[cursor]
Target == TileAhead(pos[Shooter], attack[Shooter].dir)
HasAttack(u) == health[u] > 0 /\ attack[u].damage > 0

NextShooter == cursor' = cursor + 1 /\ UNCHANGED <<turn, phase, substep>>

\* No attack, or an attack into an obstacle: `continue`, nothing is changed.
NoShot ==
    /\ phase = "attacks" /\ cursor <= Len(units)
    /\ HasAttack(Shooter) => isInBounds(Target) /\ Target \in Obstacle
    /\ NextShooter
    /\ UNCHANGED <<unitVars, bulletVars, hitVars>>

\* Tilemap::tileOf is called without a bounds check and fails fast.
ShotOffTheMap ==
    /\ phase = "attacks" /\ cursor <= Len(units)
    /\ HasAttack(Shooter)
    /\ ~isInBounds(Target)
    /\ phase' = "aborted"
    /\ UNCHANGED <<turn, substep, cursor, unitVars, bulletVars, hitVars>>

FreeBulletIds == BulletIds \ ElementsOf(bullets)

\* A new bullet appears on the target tile.  If the collision there consumes
\* it, `continue` leaves the pending attack in place.
Shot(b) ==
    /\ phase = "attacks" /\ cursor <= Len(units)
    /\ HasAttack(Shooter)
    /\ isInBounds(Target) /\ Target \notin Obstacle
    /\ b \in FreeBulletIds
    /\ \E f \in Collisions(b, Target,
                           [Field EXCEPT !.bdamage[b] = attack[Shooter].damage]) :
         /\ Becomes(Settle(b, Target, f))
         /\ IF f.bdamage[b] = 0
            THEN UNCHANGED <<cooldown, attack, lastBullet, bulletVars>>
            ELSE /\ bullets' = Append(bullets, b)
                 /\ bpos' = [bpos EXCEPT ![b] = Target]
                 /\ bdir' = [bdir EXCEPT ![b] = attack[Shooter].dir]
                 /\ cooldown' = [cooldown EXCEPT ![Shooter] = AttackCooldown]
                 /\ attack' = [attack EXCEPT ![Shooter].damage = 0]
                 /\ lastBullet' = [lastBullet EXCEPT ![Shooter] = turn]
    /\ fired' = fired \cup {Shooter}
    /\ NextShooter
    /\ UNCHANGED <<units, pos, energy>>

EndAttacks ==
    /\ phase = "attacks" /\ cursor > Len(units)
    /\ phase' = "bullets" /\ substep' = 1 /\ cursor' = 1
    /\ UNCHANGED <<turn, unitVars, bulletVars, hitVars>>

-----------------------------------------------------------------------------
(* The rest of the turn, as far as bullets can tell.                        *)

Walk(u, t) ==
    /\ health[u] > 0
    /\ t \in Tiles \ (Obstacle \cup Water)
    /\ occupant[t] = Nobody
    /\ \E d \in Direction : t = TileAhead(pos[u], d)

\* Destroyed units leave _units and their tiles; energy and cooldowns move on.
EndTurn ==
    /\ phase = "units"
    /\ units' = Kept(units, {u \in Units : health[u] # 0})
    /\ registered' = {u \in registered : health[u] # 0}
    /\ energy' = [u \in Units |->
                    IF health[u] # 0 /\ energy[u] < Capacity THEN energy[u] + 1
                    ELSE energy[u]]
    /\ cooldown' = [u \in Units |->
                      IF health[u] # 0 /\ cooldown[u] > 0 THEN cooldown[u] - 1
                      ELSE cooldown[u]]
    /\ phase' = "programs"
    /\ UNCHANGED <<turn, substep, cursor, attack, history, bulletVars, health, bdamage>>

Released == [t \in Tiles |-> IF occupant[t] \in Units /\ health[occupant[t]] = 0
                             THEN Nobody ELSE occupant[t]]

UnitPhase ==
    /\ EndTurn
    /\ \/ /\ occupant' = Released
          /\ UNCHANGED pos
       \/ \E u \in InPlay, t \in Tiles :
            /\ Walk(u, t)
            /\ pos' = [pos EXCEPT ![u] = t]
            /\ occupant' = [Released EXCEPT ![pos[u]] = Nobody, ![t] = u]

BulletStep == SkipBullet \/ StopBullet \/ AdvanceBullet
                \/ EndFirstSubstep \/ EndSubstep \/ EndBulletPhase
AttackStep == NoShot \/ ShotOffTheMap \/ EndAttacks \/ \E b \in BulletIds : Shot(b)

Next ==
    \/ \E u \in Units, d \in Direction, power \in Powers : Fire(u, d, power)
    \/ BeginTurn
    \/ BulletStep
    \/ AttackStep
    \/ UnitPhase

Spec == Init /\ [][Next]_vars

-----------------------------------------------------------------------------
(* Properties.                                                              *)

(* Types; the bounds say that health_t and energy_t arithmetic never wraps. *)
TypeOK ==
    /\ phase \in {"programs", "bullets", "attacks", "units", "aborted"}
    /\ registered \subseteq Units
    /\ pos \in [Units -> Tiles]
    /\ health \in [Units -> 0 .. UnitHealth]
    /\ energy \in [Units -> 0 .. Capacity]
    /\ cooldown \in [Units -> 0 .. AttackCooldown]
    /\ attack \in [Units -> [damage : 0 .. HealthLimit, dir : Direction]]
    /\ bpos \in [BulletIds -> Tiles]
    /\ bdir \in [BulletIds -> Direction]
    /\ bdamage \in [BulletIds -> 0 .. HealthLimit]
    /\ occupant \in [Tiles -> Units \cup BulletIds \cup {Nobody, Dangling}]

(* Whatever bullets hit, and whatever a read of freed memory returns: a     *)
(* living unit stays the occupant of its tile, a bullet in flight is that   *)
(* of its own, "and cannot occupy the same tile as another bullet or a      *)
(* unit" (docs/rule-spec.md), and a tile that points to a unit points to    *)
(* one that _units owns and that stands there, which is what                *)
(* _processUnitMovement relies on when it runs after the bullets.           *)
TilesAgree ==
    /\ \A u \in InPlay : health[u] > 0 => occupant[pos[u]] = u
    /\ \A b \in BulletIds : bdamage[b] > 0 =>
          /\ b \in ElementsOf(bullets)
          /\ occupant[bpos[b]] = b
          /\ bpos[b] \notin Obstacle
    /\ \A t \in Tiles : occupant[t] \in Units =>
          occupant[t] \in InPlay /\ pos[occupant[t]] = t

(* What holds of "The unit can only attack once per ATTACK_COOLDOWN turns"  *)
(* (docs/rule-spec.md:118): once a bullet of a unit is on the field, the    *)
(* unit attempts no shot for AttackCooldown - 1 turns, whatever its program *)
(* asks for and however long an attack was pending.  The rule itself does   *)
(* not hold: a bullet that is consumed where it appears leaves the attack   *)
(* pending and the cooldown as it was, so that shots come turn after turn.  *)
BulletSpacing ==
    phase = "attacks" /\ cursor <= Len(units) /\ HasAttack(Shooter)
        => turn - lastBullet[Shooter] >= AttackCooldown

(* "To perform an attack, the unit must pay a certain amount of energy"     *)
(* (docs/rule-spec.md): no attack is fired a second time.                   *)
EveryShotIsPaid ==
    phase = "attacks" /\ cursor <= Len(units) /\ HasAttack(Shooter)
        => Shooter \notin fired
=============================================================================
