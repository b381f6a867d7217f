----------------------------- MODULE WorldSetup -----------------------------
(***************************************************************************)
(* From the command line to a world that can be stepped: parseOptions,      *)
(* createWorldFromOptions with the map and the programs, and the            *)
(* constructor of World.                                                    *)
(*                                                                          *)
(* An exception ends the program with exit code 1 and a message             *)
(* ("refused"); a fail-fast check that fires ("aborted") and an access      *)
(* outside of an array ("undefined") do not.                                *)
(***************************************************************************)
EXTENDS Tilemap

CONSTANTS
    Inputs,            \* the command lines and map files, see Input
    Terrains(_, _),    \* what the noise may be on a map of that size
    Spots(_, _, _),    \* the places that the generator may try, that many
    ByteSize,          \* 256, the number of values of std::uint8_t
    MinSize,           \* 4, the least width and height of GameRules
    UnitsAtStart       \* 3

ASSUME WidthAssumption ==
    /\ {ByteSize, MinSize, UnitsAtStart} \subseteq Nat \ {0}
    /\ MaxBase < ByteSize /\ MaxRandom = ByteSize - 1 /\ MinSize <= MinRandom
    /\ UnitsAtStart <= MinBase * MinBase /\ ByteSize <= MaxDimension

Players == {1, 2}

ByteRules == {"unit_health", "natural_energy_rate", "resource_zone_energy_rate",
              "attack_cooldown", "capture_turn_threshold", "vision_lv1", "vision_lv2"}
WordRules == {"capacity_lv1", "capacity_lv2", "capacity_upgrade_cost",
              "vision_upgrade_cost", "damage_upgrade_cost", "manufact_cost"}
Rules == ByteRules \cup WordRules

Flags == {"map", "play_replay", "replay_file", "output_zstd", "worker_mode",
          "dynamic_draw", "max_ticks"}

\* ProgramOptions: given is the set of the options above that the command line
\* has, random says that it has one of --width, --height, --base-size,
\* --resources and --seed, and size what those say.  programs: the four program
\* files can be read and are ELF files.
Input ==
    [mode : {"Headless", "Interactive"}, given : SUBSET Flags, random : BOOLEAN,
     size : [width : Int, height : Int, base_size : Int, num_resources : Int],
     ui_mode : {"tui", "plain", "other"}, step_interval_ms : Int,
     rules : [Rules -> Int], programs : BOOLEAN,
     file : [format : {"unreadable", "empty"}] \cup TextFiles \cup BinaryFiles]

ASSUME InputAssumption == Inputs \subseteq Input

ASSUME NoiseAssumption ==
    \A i \in Inputs :
        LET c == i.size IN
        /\ Terrains(c.width, c.height)
              \subseteq [Positions(c.width, c.height) -> {EMPTY, WATER, OBSTACLE}]
        /\ Spots(c.width, c.height, c.num_resources * AttemptsPerCluster) \subseteq Seq(Int \X Int)

VARIABLES
    options,    \* ProgramOptions, with the contents of the files it names
    pc,         \* "parse", "map", "world", "spawn", "programs", or how it ends
    map,        \* the Tilemap
    rules,      \* World::_rules
    base,       \* base_x and base_y of the players
    units,      \* the tiles of the units of each player
    judge       \* the RuleDrawJudge

vars == <<options, pc, map, rules, base, units, judge>>

Init ==
    /\ options \in Inputs
    /\ pc = "parse"
    /\ map = <<>> /\ rules = <<>> /\ base = <<>> /\ judge = "none"
    /\ units = [p \in Players |-> {}]

-----------------------------------------------------------------------------
(* parseOptions.                                                            *)

has(flag) == flag \in options.given

\* The options that the argument parser of a mode does not have.
Unknown(mode) == IF mode = "Headless" THEN {"play_replay"} ELSE {"worker_mode"}

Conflict ==
    \/ has("dynamic_draw") /\ has("max_ticks")
    \/ /\ options.mode = "Interactive"
       /\ \/ has("play_replay") /\ (has("map") \/ options.random \/ has("replay_file"))
          \/ has("output_zstd") /\ ~has("replay_file")
    \/ options.mode = "Headless" /\ has("worker_mode") /\ ~has("output_zstd")
    \/ has("map") /\ options.random

Limit(rule) == IF rule \in ByteRules THEN ByteSize - 1 ELSE WordSize - 1

\* The size is looked at only when the map is to be generated as asked.
SizeInRange ==
    /\ {options.size.width, options.size.height} \subseteq MinSize .. ByteSize - 1
    /\ options.size.base_size \in MinBase .. MaxBase

Ordered(r) == r["capacity_lv2"] >= r["capacity_lv1"] /\ r["vision_lv2"] >= r["vision_lv1"]

\* Mutant of RulesInRange: there is no upper limit.
RulesInRange_NoLimit ==
    /\ \A rule \in Rules : options.rules[rule] >= 1
    /\ Ordered(options.rules)

RulesInRange ==
    /\ \A rule \in Rules : options.rules[rule] \in 1 .. Limit(rule)
    /\ Ordered(options.rules)

\* parseOptions or main throws.
Rejected ==
    \/ options.given \cap Unknown(options.mode) # {}
    \/ /\ options.mode = "Interactive"
       /\ options.ui_mode = "other" \/ options.step_interval_ms < 0
    \/ Conflict
    \/ options.random /\ ~SizeInRange
    \/ ~RulesInRange

parseOptions ==
    /\ pc = "parse"
    /\ pc' = IF Rejected THEN "refused" ELSE IF has("play_replay") THEN "playback" ELSE "map"
    /\ UNCHANGED <<options, map, rules, base, units, judge>>

-----------------------------------------------------------------------------
(* createWorldFromOptions: the map.                                         *)

Accept(result) ==
    IF result.verdict = "loaded"
    THEN map' = result.map /\ pc' = "world"
    ELSE map' = map /\ pc' = result.verdict

loadTilemap ==
    /\ pc = "map" /\ has("map")
    /\ IF options.file.format = "unreadable" THEN Accept(Refused)
       ELSE IF options.file.format # "text" THEN Accept(load(options.file, 0))
       ELSE \E h \in Heights(options.file) : Accept(load(options.file, h))
    /\ UNCHANGED <<options, rules, base, units, judge>>

generateTilemap ==
    LET c == options.size IN
    /\ pc = "map" /\ ~has("map")
    /\ \E terrain \in Terrains(c.width, c.height),
          spots \in Spots(c.width, c.height, c.num_resources * AttemptsPerCluster) :
              Accept(generate(c, terrain, spots))
    /\ UNCHANGED <<options, rules, base, units, judge>>

-----------------------------------------------------------------------------
(* The constructor of World.                                                *)

\* The rules as GameRules stores them.
Stored(r, m) ==
    LET sizes == [width |-> m.width, height |-> m.height, base_size |-> m.base_size]
    IN  [rule \in Rules \cup DOMAIN sizes |-> IF rule \in Rules THEN r[rule] % (Limit(rule) + 1)
                                             ELSE sizes[rule] % ByteSize]

validate(r) ==
    /\ {r["width"], r["height"]} \subseteq MinSize .. ByteSize - 1
    /\ r["base_size"] \in MinBase .. MaxBase
    /\ \A rule \in Rules : r[rule] \in 1 .. Limit(rule)
    /\ Ordered(r)

\* The first base tile of player p, column by column.
FirstBaseTile(m, p) ==
    LET order == ColumnMajor(m.width, m.height)
        IsBase(t) == m.tiles[t].is_base /\ m.tiles[t].side = p
    IN  order[CHOOSE i \in DOMAIN order :
                 IsBase(order[i]) /\ \A j \in 1 .. i - 1 : ~IsBase(order[j])]

HasBase(m, p) == \E t \in DOMAIN m.tiles : m.tiles[t].is_base /\ m.tiles[t].side = p

BuildWorld ==
    /\ pc = "world"
    /\ rules' = Stored(options.rules, map)
    /\ IF ~validate(rules') \/ \E p \in Players : ~HasBase(map, p)
       THEN pc' = "aborted" /\ UNCHANGED base
       ELSE pc' = "spawn" /\ base' = [p \in Players |-> FirstBaseTile(map, p)]
    /\ UNCHANGED <<options, map, units, judge>>

isInBase(t, p) == t \in Square(base[p], map.base_size)

\* _spawnUnitAtBase: on a free tile of the base, chosen at random.  tileOf has a
\* fail-fast check for tiles off the map.
SpawnUnit(p) ==
    LET square == Square(base[p], map.base_size)
        free == square \ UNION {units[q] : q \in Players}
    IN
    /\ pc = "spawn"
    /\ Cardinality(units[p]) < UnitsAtStart
    /\ p = 2 => Cardinality(units[1]) = UnitsAtStart
    /\ IF free = {} \/ ~(square \subseteq DOMAIN map.tiles)
       THEN pc' = "aborted" /\ UNCHANGED units
       ELSE /\ \E t \in free : units' = [units EXCEPT ![p] = @ \cup {t}]
            /\ pc' = IF p = 2 /\ Cardinality(units'[2]) = UnitsAtStart
                     THEN "programs" ELSE "spawn"
    /\ UNCHANGED <<options, map, rules, base, judge>>

\* cr::loadBinary accepts the four program files.
ElfFilesLoad == options.programs

\* setPlayerProgram with the four files, then createRuleDrawJudgeFromOptions.
LoadPrograms ==
    /\ pc = "programs"
    /\ IF ElfFilesLoad
       THEN /\ pc' = "running"
            /\ judge' = IF has("dynamic_draw") THEN "dynamic"
                        ELSE IF has("max_ticks") THEN "max_ticks" ELSE "noop"
       ELSE pc' = "refused" /\ UNCHANGED judge
    /\ UNCHANGED <<options, map, rules, base, units>>

Next ==
    \/ parseOptions
    \/ loadTilemap
    \/ generateTilemap
    \/ BuildWorld
    \/ \E p \in Players : SpawnUnit(p)
    \/ LoadPrograms

Spec == Init /\ [][Next]_vars

-----------------------------------------------------------------------------
(* Properties.                                                              *)

Ends == {"refused", "aborted", "undefined", "playback", "running"}

TypeOK ==
    /\ pc \in {"parse", "map", "world", "spawn", "programs"} \cup Ends
    /\ map # <<>> => /\ map.tiles \in [Positions(map.width, map.height) -> Tile]
                     /\ map.base_size \in pos_t
    /\ base # <<>> => base \in [Players -> DOMAIN map.tiles]
    /\ judge \in {"none", "dynamic", "max_ticks", "noop"}

(* The engine finds out in two ways whether a tile belongs to a base: by    *)
(* the tile's flags, and by the square at the corner that the constructor   *)
(* has found (isInBase).  In a running world they agree, whichever loader   *)
(* made the map: the bases are two disjoint squares of one size, and each   *)
(* player starts with three units in the own one.                           *)
BasesAgree ==
    pc = "running" =>
        /\ \A p \in Players, t \in DOMAIN map.tiles :
              isInBase(t, p) <=> map.tiles[t].is_base /\ map.tiles[t].side = p
        /\ \A p \in Players :
              /\ Square(base[p], map.base_size) \subseteq DOMAIN map.tiles
              /\ Cardinality(units[p]) = UnitsAtStart
              /\ \A t \in units[p] : isInBase(t, p)

(* Nothing that was asked for on the command line is lost on the way to the *)
(* world, in the narrow fields of GameRules or otherwise.  The sizes of the *)
(* map and of the bases are lost only when a map file is wider or higher    *)
(* than a byte can say.                                                     *)
SettingsAreObeyed ==
    pc = "running" =>
        /\ \A rule \in Rules : rules[rule] = options.rules[rule]
        /\ judge = "dynamic" <=> has("dynamic_draw")
        /\ judge = "max_ticks" <=> has("max_ticks")
        /\ \/ /\ rules["width"] = map.width /\ rules["height"] = map.height
              /\ rules["base_size"] = map.base_size
           \/ has("map") /\ ~({map.width, map.height} \subseteq 0 .. ByteSize - 1)
        /\ ~has("map") => /\ map.width = options.size.width
                          /\ map.height = options.size.height
                          /\ map.base_size = options.size.base_size

\* Two squares of side n that share no tile and no edge.
Apart(a, b, n) ==
    \A t \in Square(a, n), u \in Square(b, n) :
        /\ t[1] # u[1] \/ t[2] - u[2] \notin -1 .. 1
        /\ t[2] # u[2] \/ t[1] - u[1] \notin -1 .. 1

\* A map file as docs/tilemap-file-format.md asks for it.
GoodFile(f) ==
    /\ f.format \in {"text", "binary"}
    /\ f.format = "text" =>
          /\ f.first = "good" /\ Len(f.rows) = f.height
          /\ \A y \in 1 .. f.height : f.rows[y] \in [1 .. f.width -> DOMAIN TextTile]
          /\ \E n \in 1 .. f.width, a, b \in Positions(f.width, f.height) :
                /\ {t \in Positions(f.width, f.height) : f.rows[t[2] + 1][t[1] + 1] = "B"}
                      = Square(a, n) \cup Square(b, n)
                /\ Apart(a, b, n)
    /\ f.format = "binary" =>
          /\ f.prefix = "good" /\ {f.width, f.height} \subseteq 1 .. MaxDimension
          /\ Len(f.bytes) = f.width * f.height
          /\ \A i \in DOMAIN f.bytes : ValidTile(unpack(f.bytes[i]))
          /\ \A p \in 0 .. 2 :
                LET owned == {t \in Positions(f.width, f.height) :
                                LET tile == unpack(f.bytes[t[2] * f.width + t[1] + 1])
                                IN  tile.is_base /\ tile.side = p}
                IN  IF p = 0 THEN owned = {}
                    ELSE \E a \in owned : owned = Square(a, f.base_size)

\* The sizes of a map that pass the check of the GameRules they are narrowed to.
SizesFit(m) ==
    /\ {m.width % ByteSize, m.height % ByteSize} \subseteq MinSize .. ByteSize - 1
    /\ m.base_size % ByteSize \in MinBase .. MaxBase

(* Setting up fails for the right reason.  A fail-fast check fires, and     *)
(* memory before an array is touched, only with a map file.  A file that    *)
(* docs/tilemap-file-format.md allows is loaded, wherever on it the two     *)
(* bases are, and only its sizes can fail the constructor of World: the     *)
(* document has maps of 1 to 512 tiles a side and bases of any size, the    *)
(* check of GameRules fewer.                                                *)
LegalMapsLoad ==
    /\ pc \in {"aborted", "undefined"} => has("map")
    /\ pc = "aborted" /\ GoodFile(options.file) => map # <<>> /\ ~SizesFit(map)
    /\ pc = "undefined" => ~GoodFile(options.file)
    /\ pc = "refused" /\ map = <<>> /\ ~Rejected /\ has("map") => ~GoodFile(options.file)

(* A map is the same after it has been saved and loaded again, in the       *)
(* binary format always and as text if no binary file was its source: a     *)
(* binary file may hold resources or water under a base, which have no      *)
(* letter.                                                                  *)
SavedMapsReload ==
    pc = "world" =>
        /\ ~has("map") \/ options.file.format = "text" =>
              load(saveAsText(map), map.height) = [verdict |-> "loaded", map |-> map]
        /\ {map.width, map.height} \subseteq 1 .. MaxDimension =>
              load(saveAsBinary(map), 0) = [verdict |-> "loaded", map |-> map]
=============================================================================
