------------------------------ MODULE Economy ------------------------------
(***************************************************************************)
(* Energy and the actions of the bases: World::_collectEnergy, the ecalls   *)
(* manufact, repair, upgrade, deposit and withdraw, and the table           *)
(* Player::units through which unit ids are resolved.                       *)
(*                                                                          *)
(* In a turn the two base programs run first, then the unit programs, in    *)
(* the order of _units (any order here: each unit transfers once per turn). *)
(* An ecall that returns an error changes nothing and is no step.  Bullets  *)
(* and movement are the environment: NewTurn destroys some units, damages   *)
(* or moves at most one other, and collects the energy.                     *)
(***************************************************************************)
EXTENDS Battlefield, FiniteSetsExt

CONSTANTS
    Objects,       \* Unit objects, not reused after destruction
    SlotOf,        \* SlotOf[o] = <<player_id, id>> of object o
    InitialUnits,  \* the objects of the units the game starts with
    MaxUnits,      \* max_units
    RawIds,        \* the integers that programs pass as unit ids
    Amounts,       \* the integers that programs pass as amounts
    UnitHealth,    \* rules.unit_health
    NaturalRate,   \* rules.natural_energy_rate
    ZoneRate,      \* rules.resource_zone_energy_rate
    CapacityLv1, CapacityLv2,
    UpgradeCost,   \* rules.<type>_upgrade_cost, by type
    ManufactCost,  \* rules.manufact_cost
    EnergyLimit,   \* one more than numeric_limits<energy_t>::max()
    Null,          \* nullptr
    MaxTurn        \* bound on the number of turns

Ids == 1 .. MaxUnits
Slots == Players \X Ids
UpgradeType == {"capacity", "vision", "damage"}

ASSUME ObjectAssumption ==
    /\ SlotOf \in [Objects -> Slots]
    /\ InitialUnits \subseteq Objects
    /\ \A o, q \in InitialUnits : o # q => SlotOf[o] # SlotOf[q]
    /\ Null \notin Objects
ASSUME RuleAssumption ==
    /\ MaxUnits \in Nat /\ MaxTurn \in Nat
    /\ RawIds \subseteq Nat /\ Amounts \subseteq Nat \ {0}
    /\ UnitHealth \in Nat \ {0} /\ NaturalRate \in Nat \ {0} /\ ZoneRate \in Nat
    /\ CapacityLv1 \in Nat /\ CapacityLv2 \in Nat /\ CapacityLv1 <= CapacityLv2
    /\ UpgradeCost \in [UpgradeType -> Nat \ {0}] /\ ManufactCost \in Nat \ {0}
    /\ EnergyLimit \in Nat
    /\ CapacityLv2 < EnergyLimit

VARIABLES
    turn,
    phase,        \* whose programs run: 1, 2 (a base), 3 (the units); 4: aborted
    units,        \* the objects in _units
    slot,         \* Player::units
    pos, health, energy, upgrades,
    baseEnergy,   \* Player::base_energy
    done,         \* the ECallInvokedFlags set this turn
    events        \* the turn events raised by base actions

unitState == <<units, slot, pos>>
vars == <<turn, phase, unitState, health, energy, upgrades, baseEnergy, done,
          events>>

Owner(o) == SlotOf[o][1]
AtHome(o) == isInBase(pos[o], Owner(o))
Occupied == {pos[o] : o \in units}

Init ==
    /\ turn = 0
    /\ phase = 3
    /\ units = InitialUnits
    /\ slot = [s \in Slots |-> IF \E o \in InitialUnits : SlotOf[o] = s
                               THEN CHOOSE o \in InitialUnits : SlotOf[o] = s
                               ELSE Null]
    /\ pos \in [Objects -> Tiles]
    /\ \A o \in units : AtHome(o) /\ \A q \in units : pos[q] = pos[o] => q = o
    /\ \A o \in Objects \ units : pos[o] = BaseCorner[Owner(o)]
    /\ health = [o \in Objects |-> IF o \in InitialUnits THEN UnitHealth ELSE 0]
    /\ energy = [o \in Objects |-> 0]
    /\ upgrades = [o \in Objects |-> {}]
    /\ baseEnergy = [p \in Players |-> 0]
    /\ done = {}
    /\ events = {}

-----------------------------------------------------------------------------
(* The engine's part of a turn.                                             *)

maxCapacity(o) == IF "capacity" \in upgrades[o] THEN CapacityLv2 ELSE CapacityLv1

AtMost(limit, n) == IF n > limit THEN limit ELSE n

Gained(t, now) ==
    (IF now % NaturalRate = 0 THEN 1 ELSE 0) + (IF t \in Resource THEN ZoneRate ELSE 0)

\* Mutant of Collected: the sum is stored without the limit.
Collected_Unlimited(o, t, now) == (energy[o] + Gained(t, now)) % EnergyLimit

\* Mutant of Collected: the sum is stored with a bit less than energy_t has.
Collected_Narrower(o, t, now) ==
    AtMost(maxCapacity(o), (energy[o] + Gained(t, now)) % (EnergyLimit \div 2))

\* The sum is an int that min<energy_t> converts to 16 bits, before it is limited.
Collected(o, t, now) ==
    AtMost(maxCapacity(o), (energy[o] + Gained(t, now)) % EnergyLimit)

\* Both ways a unit is destroyed clear its entry of the table.
ClearedSlots(hit) ==
    [s \in Slots |-> IF \E o \in hit : SlotOf[o] = s THEN Null ELSE slot[s]]

\* Where one of the survivors may be after the movement phase.
Moves(survivors) ==
    {pos} \cup {[pos EXCEPT ![o] = TileAhead(pos[o], d)] :
                  o \in survivors, d \in Direction}

NewTurn(hit) ==
    /\ phase = 3
    /\ turn < MaxTurn
    /\ turn = 0 => hit = {}    \* no bullet is in flight yet
    /\ turn' = turn + 1
    /\ phase' = 1
    /\ units' = units \ hit
    /\ slot' = ClearedSlots(hit)
    /\ pos' \in Moves(units')
    /\ \A o \in units' : pos'[o] # pos[o] =>
          isInBounds(pos'[o]) /\ pos'[o] \notin Obstacle \cup Water \cup Occupied
    /\ \/ health' = [o \in Objects |-> IF o \in hit THEN 0 ELSE health[o]]
       \/ \E v \in units' : \E h \in 1 .. health[v] - 1 :
             health' = [o \in Objects |-> IF o \in hit THEN 0
                                          ELSE IF o = v THEN h ELSE health[o]]
    /\ energy' = [o \in Objects |->
                    IF o \in units' THEN Collected(o, pos'[o], turn + 1) ELSE energy[o]]
    /\ done' = {}
    /\ events' = IF hit = {} THEN {} ELSE {"unit_destroyed"}
    /\ UNCHANGED <<upgrades, baseEnergy>>

\* A base program gives the turn to the next one.
EndBaseProgram ==
    /\ phase \in Players
    /\ phase' = phase + 1
    /\ UNCHANGED <<turn, unitState, health, energy, upgrades, baseEnergy, done,
                   events>>

-----------------------------------------------------------------------------
(* Base programs.  Ids are passed as int and received as uint8_t.           *)

UnitId(raw) == raw % 256

FreeBaseTiles(p) == BaseTiles(p) \ Occupied

\* Mutant of IdIsFree: the table is not looked at.
IdIsFree_Always(p, id) == id \in Ids

IdIsFree(p, id) ==
    id \in Ids /\ (slot[<<p, id>>] # Null => health[slot[<<p, id>>]] = 0)

\* manufactureUnit and _spawnUnitAtBase: a random empty tile of the base, and
\* the fail-fast check when there is none.
Manufact(p, raw) ==
    /\ phase = p
    /\ <<p, "manufact">> \notin done
    /\ baseEnergy[p] >= ManufactCost
    /\ IdIsFree(p, UnitId(raw))
    /\ baseEnergy' = [baseEnergy EXCEPT ![p] = @ - ManufactCost]
    /\ \/ /\ FreeBaseTiles(p) = {}
          /\ phase' = 4
          /\ UNCHANGED <<unitState, health, energy, upgrades, done, events>>
       \/ \E o \in Objects \ units, t \in FreeBaseTiles(p) :
            /\ SlotOf[o] = <<p, UnitId(raw)>>
            /\ units' = units \cup {o}
            /\ slot' = [slot EXCEPT ![<<p, UnitId(raw)>>] = o]
            /\ pos' = [pos EXCEPT ![o] = t]
            /\ health' = [health EXCEPT ![o] = UnitHealth]
            /\ energy' = [energy EXCEPT ![o] = 0]
            /\ upgrades' = [upgrades EXCEPT ![o] = {}]
            /\ done' = done \cup {<<p, "manufact">>}
            /\ events' = events \cup {"unit_manufactured"}
            /\ UNCHANGED phase
    /\ UNCHANGED turn

\* What repairUnit and upgradeUnit ask of the unit an id stands for.
Serviceable(p, id) ==
    /\ id \in Ids
    /\ slot[<<p, id>>] # Null
    /\ health[slot[<<p, id>>]] # 0
    /\ AtHome(slot[<<p, id>>])

\* Mutant of RepairCost: the health is bought at half the price.
RepairCost_Half(o) == UnitHealth - health[o]

RepairCost(o) == 2 * (UnitHealth - health[o])

Repair(p, raw) ==
    LET o == slot[<<p, UnitId(raw)>>] IN
    /\ phase = p
    /\ <<p, "repair">> \notin done
    /\ Serviceable(p, UnitId(raw))
    /\ health[o] # UnitHealth
    /\ baseEnergy[p] >= RepairCost(o)
    /\ baseEnergy' = [baseEnergy EXCEPT ![p] = @ - RepairCost(o)]
    /\ health' = [health EXCEPT ![o] = UnitHealth]
    /\ done' = done \cup {<<p, "repair">>}
    /\ events' = events \cup {"unit_upgraded_or_repaired_at_base"}
    /\ UNCHANGED <<turn, phase, unitState, energy, upgrades>>

Upgrade(p, raw, type) ==
    LET o == slot[<<p, UnitId(raw)>>] IN
    /\ phase = p
    /\ <<p, "upgrade">> \notin done
    /\ Serviceable(p, UnitId(raw))
    /\ type \notin upgrades[o]
    /\ baseEnergy[p] >= UpgradeCost[type]
    /\ baseEnergy' = [baseEnergy EXCEPT ![p] = @ - UpgradeCost[type]]
    /\ upgrades' = [upgrades EXCEPT ![o] = @ \cup {type}]
    /\ done' = done \cup {<<p, "upgrade">>}
    /\ events' = events \cup {"unit_upgraded_or_repaired_at_base"}
    /\ UNCHANGED <<turn, phase, unitState, health, energy>>

-----------------------------------------------------------------------------
(* Unit programs.                                                           *)

MayTransfer(o) == phase = 3 /\ o \in units /\ o \notin done /\ AtHome(o)

Deposit(o, amount) ==
    /\ MayTransfer(o)
    /\ amount <= energy[o]
    /\ energy' = [energy EXCEPT ![o] = @ - amount]
    /\ baseEnergy' = [baseEnergy EXCEPT ![Owner(o)] = AtMost(EnergyLimit - 1, @ + amount)]
    /\ done' = done \cup {o}
    /\ UNCHANGED <<turn, phase, unitState, health, upgrades, events>>

\* What does not fit in the unit is lost.
Withdraw(o, amount) ==
    /\ MayTransfer(o)
    /\ amount <= baseEnergy[Owner(o)]
    /\ energy' = [energy EXCEPT ![o] = AtMost(maxCapacity(o), @ + amount)]
    /\ baseEnergy' = [baseEnergy EXCEPT ![Owner(o)] = @ - amount]
    /\ done' = done \cup {o}
    /\ UNCHANGED <<turn, phase, unitState, health, upgrades, events>>

Next ==
    \/ \E hit \in SUBSET units : NewTurn(hit)
    \/ EndBaseProgram
    \/ \E p \in Players, raw \in RawIds :
          \/ Manufact(p, raw)
          \/ Repair(p, raw)
          \/ \E type \in UpgradeType : Upgrade(p, raw, type)
    \/ \E o \in Objects, amount \in Amounts : Deposit(o, amount) \/ Withdraw(o, amount)

Spec == Init /\ [][Next]_vars

-----------------------------------------------------------------------------
(* Properties.                                                              *)

(* Types, and the limits: health, what a unit can carry, what a base holds. *)
TypeOK ==
    /\ turn \in Nat
    /\ phase \in 1 .. 4
    /\ units \subseteq Objects
    /\ slot \in [Slots -> Objects \cup {Null}]
    /\ pos \in [Objects -> Tiles]
    /\ health \in [Objects -> 0 .. UnitHealth]
    /\ upgrades \in [Objects -> SUBSET UpgradeType]
    /\ energy \in [Objects -> Nat]
    /\ \A o \in Objects : energy[o] <= maxCapacity(o)
    /\ baseEnergy \in [Players -> 0 .. EnergyLimit - 1]

(* The table of unit ids and the list of units agree: every unit in play is *)
(* alive and is what its id resolves to, so no two units of a player share  *)
(* an id, and no entry of Player::units points to a freed object.           *)
SlotsMatchUnits ==
    /\ \A o \in units : health[o] > 0 /\ slot[SlotOf[o]] = o
    /\ \A s \in Slots : slot[s] # Null => slot[s] \in units /\ SlotOf[slot[s]] = s

\* The capacity leaves room in energy_t for what a unit gains in one turn.
HasRoom(o) == maxCapacity(o) + ZoneRate + 1 < EnergyLimit

(* What holds of "The energy gained is saturation-limited by the unit's     *)
(* carry capacity" (docs/rule-spec.md:72): collecting energy does not take  *)
(* energy from a unit whose capacity leaves room for a turn's gain below    *)
(* the limit of energy_t, whatever it withdrew, carried or was upgraded to  *)
(* before.  Capacities up to 65535 are legal, and above that room the rule  *)
(* does not hold: the sum is narrowed before it is compared with the        *)
(* capacity, and a unit that is nearly full is left with almost nothing.    *)
CollectingNeverCosts ==
    [][turn' # turn => \A o \in units' : HasRoom(o) => energy'[o] >= energy[o]]_vars

OwnUnits(p) == {o \in units : Owner(o) = p}

\* The sum of f over a set.
Total(f, S) == MapThenSumSet(LAMBDA x : f[x], S)

Wealth(p) == baseEnergy[p] + Total(energy, OwnUnits(p))

\* What a step buys for player p, at the prices of docs/rule-spec.md.
Bought(p) ==
    LET restored == [o \in Objects |-> health'[o] - health[o]]
        upgraded == [o \in Objects |-> Total(UpgradeCost, upgrades'[o] \ upgrades[o])]
    IN  ManufactCost * Cardinality(OwnUnits(p)' \ OwnUnits(p))
          + 2 * Total(restored, OwnUnits(p))
          + Total(upgraded, OwnUnits(p))

(* Programs cannot create energy: within a turn, a player's energy in the   *)
(* base and in the units never grows, and falls by the price of every new   *)
(* unit, every restored point of health and every upgrade.                  *)
ProgramsOnlySpend ==
    [][turn' = turn => \A p \in Players : Wealth(p)' + Bought(p) <= Wealth(p)]_vars
=============================================================================
