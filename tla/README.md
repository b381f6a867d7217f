# core-rtt in TLA+

core-rtt is a turn-based strategy game whose players are RISC-V programs. An
engine in C++ steps a world, runs the programs of both players in sandboxes, and
records every turn in a binary replay; user interfaces and JavaScript packages
play replays back; Rust and C libraries support the programs. This directory
holds TLA+ specifications of the engine's rules and of the concurrent and
streaming parts around it, configurations for TLC, and proofs for TLAPS.

`PROJECT.json` lists, for machines, what this file explains: components, runs,
mutants (plausible bugs each property is shown to catch), the source lines each
definition stands for, hazards, disagreements and theorems.

## 1. The system: inventory

| Component | State | Operations | Interacts with | What is hard |
|---|---|---|---|---|
| Unit movement (`world.cpp`, `_processUnitMovement`) | units, positions, pending moves, the occupant of each tile | `move`, spawn, the resolution of all moves at once | programs request, bullets block, economy spawns | simultaneous moves: trains, rotations, collisions; cancellation by a queue; raw pointers from tiles to units |
| Bullets and combat (`world.cpp`, `runtime.cpp`) | bullets, health, pending attacks, cooldowns, occupants | `fire`, five sub-steps, collisions, committing attacks, removal | shares the tiles with movement | bullets moved one at a time; freed bullets; 8-bit arithmetic |
| Match (`world.cpp`, `draw_judge.cpp`, `headless_main.cpp`) | tick, capture counters, termination, the judge, the signal flag | `World::step`, `shouldDraw`, the signal handler, the end marker | reads turn events, writes the replay | simultaneous captures; signals at any time; a limit that moves; must end |
| Economy (`world.cpp`, `entity.cpp`, `runtime.cpp`) | energy of units and bases, health, upgrades, the table of ids | collection, `manufact`, `repair`, `upgrade`, `deposit`, `withdraw` | combat destroys, movement moves | reuse of ids; narrowing; energy must not come from nowhere |
| Sandbox runtime (`runtime.cpp`, `entity.cpp`, `world.cpp`) | machines, contexts, log quotas, message queues | loading, running, crashing, restarting, `send_msg`, `recv_msg`, `log`, `abort` | called once per device and turn | what survives a crash; messages across turns |
| Vision (`entity.cpp`, `runtime.cpp`) | the cache of visible tiles | breadth-first search, `read_sensor` | upgrades change the range | a cache indexed by a range that may have changed |
| Command line and world setup (`cli/parser.cpp`, `cli/world_loader.cpp`, `game_rules.cpp`, `World::World`) | options, rules, base corners, the first units | `parseOptions`, `createWorldFromOptions`, the constructor, the choice of the judge | loads a tilemap, starts everything else | limits stated in three places; sizes narrowed to a byte; fail-fast checks instead of errors |
| Tilemap (`tilemap.cpp`, `tile_codec.cpp`) | width, height, base size, a flag byte per tile | loading and saving of text and binary maps, generation | the constructor of `World` looks for the bases again | damaged files; two scans in different orders must agree |
| Replay chunk writers (`cli/replay_writer.cpp`) | the output stream, the zstd context, `_finished` | `writeChunk`, `finish`, destructors | used by both drivers | a write that fails half way; finishing twice; exit codes |
| Replay format, stream decoder, playback (`replay.cpp`, `stream_adapter.cpp`, `cli/main.cpp`) | buffer, cursor, phase, what has been shown | reading chunks, records, the loop | a file that may be cut off; publishes to the user interface | record boundaries against chunk boundaries; end of file |
| Text user interface (`tui.cpp`, `cli/main.cpp`) | shared progress, the view, the event queue, the stop token | publish, notify, handle events, quit, join | two threads | events posted outside the lock; joining |
| JavaScript decoder (`js/corereplay`) | buffer, cursor, phase | `push`, `read`, `finalize` | an asynchronous stream | chunks of any size; streams that break off |
| Autotest runner (`js/core-autotest`) | the child, the timer, the decoder's result | `runHeadlessOnce`, `evaluateAssertions`, `runCase` | runs `corertt_headless`, decodes its output | a time limit, a decoding error and the end of the child race |
| Rust scheduler (`rusty-corelib/src/async_rt.rs`) | the list of tasks, the last turn | `spawn`, `tick` | is itself interrupted by the engine | removal by swapping while iterating; early return |
| Not modelled | | noise and random numbers, the C library, the Rust bindings, the replay command line, the plain interface, scripts and examples | | see section 8 |

A turn of the engine is: bullets move and hit; pending attacks become bullets;
destroyed units are removed and units move; captures are checked, and may end the
match here; energy is collected; then the programs run, first those of both bases
and then those of all units in the order of `_units`, and leave their requests for
the next turn (`world.cpp:129`). The modules cut the turn along these phases,
and each takes the phases it does not model as an environment that may do
whatever the code of those phases could do to its state.

## 2. Modules

| Module | Stands for | Remarks |
|---|---|---|
| `Battlefield` | map, terrain, directions, bases | shared by `UnitMovement`, `Combat`, `Economy` |
| `UnitMovement` | `ecall_move`, spawning, `_processUnitMovement` | one action per loop of the function and one per iteration of the cancellation; `BulletPhase` is its environment |
| `Combat` | `ecall_fire`, `_processBulletMovement`, `_moveBulletOneStep`, `_handleBulletCollision`, `_commitPendingAttacks` | one action per iteration, in the order of the vectors; a read through a pointer to a freed bullet is a choice over what may be there |
| `Match` | `_checkBaseCaptureCondition`, the draw judges, `runHeadlessLiveMode` | one action per statement of the loop; a signal between any two |
| `Economy` | collection, base actions, deposit and withdraw | phases of the programs; `NewTurn` contains destruction and collection |
| `Runtime` | `Player::step`, `Unit::step`, `simulate`, the ecalls with state | any sequence of ecalls, crash or pause anywhere |
| `Vision` | the search in `Unit::step`, `ecall_read_sensor` | one action per iteration of the loop; the queue keeps the cells that are queued more than once |
| `ReplayFormat` | the records of a replay as sizes and kinds | shared by both decoders |
| `ReplayReader` | no code: what any reader of replays promises | abstract specification, implemented by `Playback` and `ReplayDecoder` |
| `Playback` | `IstreamAdapter`, `ReplayStreamDecoder`, `runPlaybackMode` | one action per iteration of the loop |
| `Tui` | `TuiRunner` and the two modes of `main.cpp` | what is done under the mutex is one step, posting the event another |
| `ReplayWriter` | `RawReplayChunkWriter`, `ZstdReplayChunkWriter` | the stream beneath may refuse bytes at any point; zstd may hold back any part of its input |
| `Program` | `corertt_headless` and `corertt` as a whole | composes `ReplayWriter`, `Playback` and `Tui` |
| `ReplayDecoder` | `ReplayDecoderCore`, `decodeReplayStream` | |
| `Autotest` | `runHeadlessOnce`, `evaluateAssertions`, `runCase` | extends `ReplayDecoder` with the child process and the timer |
| `Tilemap` | `Tilemap`, `TileFlags` | pure operators: files to maps, maps to files |
| `WorldSetup` | `parseOptions`, `createWorldFromOptions`, `GameRules::validate`, `World::World` | extends `Tilemap`; from a command line to a world or a refusal |
| `Scheduler` | `Scheduler` of `async_rt.rs` | the turn may advance between any two steps |
| `MC...` | constants of the runs | |
| `...Proofs` | TLAPS proofs | extend the modules they are about: `WorldProofs` covers `Economy` and `Match`, `RuntimeProofs` covers `Runtime`, `Vision` and `Scheduler`, `WorldSetupProofs` also `Tilemap`, `AutotestProofs` also `ReplayDecoder`, `ProgramProofs` also `ReplayWriter`, `Playback` and `Tui`; where one proof module covers several specifications these have names of their own (`MatchSpec`, `LookSpec`, `SchedSpec`) and share no variable |

Definitions named `X_Something` are mutants of `X`: bugs one could well write.
They are used by no specification. For each property of each passing run,
replacing `X` by its mutant makes TLC report that property.

### Composition and refinement

`Program` puts three components together by `INSTANCE`. The main thread of `Tui` is
the driver: where it publishes a header, a tick, an end or an error, `Program`
conjoins the step of `ReplayWriter` (live mode: the record is written before it is
published) or of `Playback` (the record is decoded before it is published). What
`Playback` calls `quit` is what its loop last saw of the stop token, so that a key
pressed during an iteration is noticed only at the next test, as in the code. An
exception leads to the writer's destructor, then to the handler that stops the UI
thread. The headless driver uses the writer without an interface, and can be killed.

`ReplayReader` says in four actions what a reader of replays does: deliver the next
record, fail, accept a truncated stream if it is tolerant, stop. Two programs
written independently in two languages implement it:

| | `shown` | `status` | `tolerant` |
|---|---|---|---|
| `Program!PlaybackIsAReader` | the records published | from the phase, the exit code and whether the loop is done | never |
| `Autotest!DecoderIsAReader` | the events yielded | from `pc`, and whether the end marker is synthesized | not strict |

Buffers, chunks and cursors are hidden: most steps of both are stuttering steps.

What a payload says, log texts, rendering and the contents of RISC-V memory are
left out; sizes, kinds, success or failure of a pointer access and everything that
decides a branch are kept.

## 3. Runs

Ten runs pass and two show a disagreement of the code with its documents.

| Run | Properties | Bounds, and why they are enough |
|---|---|---|
| `movement_turns` | `ExclusiveOccupancy`, `NoDanglingUnit`, `ResolvedByTheRules`, `MovesAreLegal` | Four units on a strip of 4 x 2 tiles between the edge and rock, one of them water (a base tile of a binary map may be) and one a resource tile, with at most one bullet. Four is the smallest number for a rotation (a cycle in a grid is even, and two units trading places is forbidden); trains, collisions with followers and blocked chains are all there. One unit is destroyed and made again at will. The units of one side are symmetric. |
| `combat_duel` | `TilesAgree`, `BulletSpacing` | Two units at the ends of a corridor longer than a bullet's five tiles, three bullet objects, four turns: bullets meet each other head-on, hit walls, edges, units and the tiles of freed bullets. Bullet objects are symmetric. |
| `combat_refire` (violation) | `EveryShotIsPaid` | the same |
| `match_ends` | `VictoryByCapture`, `ReplayTellsTheOutcome`, `DrawAtTheLimit`, `MatchEnds` | Threshold 2, up to one unit per side and base, all three judges, every kind of event alone and two together; the limits (2 to 12 turns) are far below `TickCap`, which only matters to a match without a limit. |
| `economy_trade` | `SlotsMatchUnits`, `CollectingNeverCosts`, `ProgramsOnlySpend` | Three objects for two ids of one player, so that an id is freed and taken again, one of the other; three turns; an id of 257 that is cut to eight bits. `EnergyLimit` stands for 65536 and is 6: the greater capacity is 5, the largest that `energy_t` can hold, where a sum wraps, and the smaller leaves room for a turn's gain. |
| `runtime_turns` | `MessagesArriveNextTurn`, `CrashCostsOneTurn`, `LogBudget` | A base, one unit, one more that is made during the game and whose ELF never loads; three turns, enough for sending, receiving and forgetting. The quotas are scaled down so that they run out. |
| `vision_look` | `VisionFollowsTheRule`, `LookEnds` | All 256 placements of obstacles on 4 x 2 tiles, ranges 3 and 5, every place; cells wait in the queue twice as soon as two neighbours of one are seen. |
| `playback_recorded` (violation) | `RecordedReplaysPlay` | the real chunk size, ticks with 0, 64 and 65 log entries |
| `session` | `FileTellsTheMatch`, `ViewFollows`, `PlaybackIsAReader`, `FinalStateIsShown`, `ProgramEnds` | The three modes. Recording: up to two ticks, each record two bytes, so that a write can stop between records and inside one; raw and zstd. Playback: seven replays cut off at every byte, with unacceptable records, bytes after the end and an unknown record, read in chunks of seven bytes so that every kind of boundary falls inside a chunk and between two. Any interleaving of the threads, a quit, an exception or a kill anywhere. |
| `autotest_case` | `VerdictIsRight`, `DecoderIsAReader`, `EveryRunIsReported` | Four replays cut off at every byte (what the child gets to write), delivered in any mix of chunks of 1, 5 and 17 bytes, and of 0 without a child; the child may hang, fail, be killed or not start; two assertions, with and without `expectFailure`; the decoder alone, strict and tolerant. |
| `world_setup` | `BasesAgree`, `SettingsAreObeyed`, `LegalMapsLoad`, `SavedMapsReload` | More than 11 000 inputs: every text map of 5 x 3 tiles with at least one 2 x 2 square of base tiles; maps of other sizes up to past the width of a byte; a good binary map with any one byte changed to any of eleven values; truncated and overlong files; every set of flags in both modes; every rule at and beyond its limits; generated maps with any resources. The limits are scaled down and keep their order (a byte has 8 values, a word 32, generated maps are 4 to 7 wide, binary maps up to 12), so that small maps meet them. Among the files are legal ones that `World` does not take (1 x 1 and 3 x 3 bases, maps that are too narrow), bases that meet at a corner, and base sizes that become negative. |
| `scheduler_turns` | `EachTaskOnce`, `EveryTaskGetsItsTurn` | Four tasks with any outcome of any poll, spawned again at any time. |

The passing runs except `vision_look` and `scheduler_turns`, where it says nothing,
also check a type invariant. In `Combat` and `Runtime` its ranges say that the 8- and
16-bit arithmetic of the engine never wraps. In `Economy` they say only that the
limits of the rules are kept: the sum in `_collectEnergy` does wrap under capacities
near 65535, and a wrapped sum is small, so that `CollectingNeverCosts` is needed to
say when it does not.

What the newer properties say, in short:

* `FileTellsTheMatch`: at any time, also after a failed write or a kill, the file holds
  a beginning of what was encoded; after exit code 0, and after a handled signal,
  all of it with the end marker and the zstd frame closed.
* `ProgramEnds`: a headless match, a quit and an exception all end the program: no
  join waits for a thread that nobody wakes.
* `VerdictIsRight`: a test run passes exactly if the child returned 0 in time and the
  whole replay has the expected logs, whoever gets to kill the child first.
* `BasesAgree`: in a running world the flags of the tiles and `isInBase` agree. The text
  loader, the binary loader and the constructor of `World` each look for the bases
  in a different way.
* `SettingsAreObeyed`: every rule and the judge are what the command line said, and the
  sizes of map and bases in the rules are those of the map, except for a map file
  larger than a byte can say.
* `LegalMapsLoad`: fail-fast checks and the access before `base_found` are reached only
  with a map file. A file that `docs/tilemap-file-format.md` allows is loaded, and
  trips a check only if its sizes are none that `GameRules` takes: the document has
  1 to 512 tiles a side and bases of any size, see section 6.
* `BulletSpacing`: once a bullet of a unit is on the field, the unit attempts no shot
  until the cooldown is over. The rule of the documents is stronger and does not
  hold, see section 6: an attack consumed at the muzzle comes again in every turn.
* `CollectingNeverCosts`: collecting takes no energy from a unit, if its capacity
  leaves room for what a turn can add. For greater capacities this is false.
* `SavedMapsReload`: saving and loading is the identity, up to what text cannot express.

Deadlock is checked for movement, match, vision and scheduler, which never stop.
The others stop because their turns are bounded (combat, economy, runtime) or
because the program ends (session, autotest, world setup).

## 4. Fairness

* `Match`: weak fairness of the driver: one thread runs the loop and nothing in it
  blocks. No fairness of signals. Without a judge a match may go on for ever;
  `MatchEnds` is stated for the judges with a limit.
* `Vision`: the search is a loop of the same thread.
* `Program`: weak fairness of the main thread (`Main`; `sleep_until` returns) and of the
  UI thread (`UiThread`), none of the user's keys and none of `Kill`. Weak fairness of
  a whole thread is enough, because each has at most one thing to do next, except
  for outcomes it does not control. The event queue of FTXUI is not in this
  repository; it is taken to keep posted events until the loop handles them.
* `Autotest`: weak fairness of the event loop of node (`Spawn \/ Decode \/ SpawnFails \/
  Close`) and of the timer, none of the child, which may hang.
* `Scheduler`: the game goes on (`AdvanceTurn`) and the program keeps calling `tick`.
  `EveryTaskGetsItsTurn` makes one exception, see section 6.

## 5. Proofs

TLAPS proves, for every value of the constants that satisfies the named
assumptions:

* `UnitMovementProofs`
  * `Occupancy`: `TypeOK`, `ExclusiveOccupancy` and `NoDanglingUnit` always hold.
    Neither is inductive alone: executing the moves keeps occupation exclusive
    only because the moves left do not collide and do not run into a unit that
    stays. `ResolutionInv` says so at every step: the active moves are attempts,
    have distinct targets, and whoever blocks an active one is itself active or
    still in the queue.
  * `Resolution`: when the queue is empty, the active moves are exactly those outside
    the least set closed under the rules of `docs/rule-spec.md`. One half is
    `CancelledForAReason`, an invariant: every closed set contains what has been
    cancelled. The other half, `CancelledIsClosed`, shows that the cancelled units
    form a closed set once the queue is empty.
  * `LegalMoves`: an action property from the same invariant. `UnitPointers` and
    `TypeCorrect` are parts of `Occupancy`.
  * Assumptions: the map is finite and rectangular, bases lie on it, markers are
    no units. `Owner` is any function; nothing is assumed of bullets and hits but
    that bullets are not in rock.
* `WorldProofs`
  * `EnergyAndIds`, `TypeCorrect`: no unit has more energy or health than the rules
    allow, ids and units agree. That a sum of energies is not narrowed is not part of
    it, see `CollectingIsLimited`. The conjunction of `TypeOK` and `SlotsMatchUnits` is
    inductive; the difficult actions are `NewTurn` (destruction, movement, collection)
    and `Manufact`.
  * `CollectingIsLimited`: the action property `CollectingNeverCosts`. `CollectedKeeps` is
    the arithmetic: a sum below the limit of `energy_t` is not changed by the
    narrowing, and a unit below its capacity stays at least where it was.
  * `EnergyIsOnlySpent`: the action property `ProgramsOnlySpend`. It is about sums over
    sets of units, which the community modules define by recursion over sets.
    `SumsExist` and `SumsUnique` show that the recursion defines a function, by induction
    on the number of elements; `TotalRemove`, `TotalSame`, `TotalOne` and `TotalChange` are
    what the actions need: a sum does not depend on which element comes first, and
    changes by what one element changes. `UnitsFinite` is where the invariant is
    needed: every unit has an entry of its own in the table of ids. Then there is a
    lemma per action (`ManufactSpends`, `RepairSpends`, `UpgradeSpends`, `TransferSpends`).
  * `MatchSafety`: capture, end marker and limits, for every threshold, judge and
    limit. `CounterInv` relates the counters, which are set back in a simultaneous
    capture, to the length of the streaks, which are not; `DriverInv` says what the
    loop knows at each place; `LimitInv` that the limit has not been passed.
    `ExtensionAdds` is the arithmetic of the dynamic limit. `ReportedOutcome`, `DrawLimit`
    and `MatchTypeCorrect` are its parts.
  * `FinalOutcome`: no step changes the outcome, the tick or the record count of a
    match that has ended (`OutcomeIsFinal`, which no run checks).
  * Assumptions: unit objects have an id and an owner, and those at the start
    different ones; the capacities fit in 16 bits, as `validate` asks; the
    threshold and the start limit are positive.
* `CombatProofs`
  * `TilesAlwaysAgree`, `TypeCorrect`: tiles, units and bullets agree and the unsigned
    arithmetic never wraps, although bullets are resolved one after the other, tiles
    keep pointers to freed bullets and a read through one may return anything.
    `TilesAgree` is inductive only together with `BulletTiles`: a tile that points to a
    bullet that has not been freed points to one that `_bullets` owns and that is
    there; a tile that would point to a freed one is the model's `Dangling`. Within a
    step the bullet that is handled is an exception: it has been lifted off its tile
    (`LiftedAgrees`) and not been settled on the next (`SettledHitInv`). The three kinds of
    collision are lemmas of their own. What `Kept` leaves of a sequence is an
    induction, see `ReplayFormatProofs`.
  * `Spacing`: the invariant `BulletSpacing`, from `CooldownInv`: the cooldown of a unit is
    at least what is left of the turns since its last bullet came on the field, and
    an attack is pending only when none is left. The repetitions of an attack that
    was consumed are covered: they lie before its bullet, not after it.
  * Assumptions: as for movement; the units at the start stand on tiles of their own.
* `RuntimeProofs`
  * `Messages`, `Logging`, `Crashes`, `TypeCorrect`: for any number of devices and any
    sequence of ecalls, crashes, restarts and destructions. `MachineInv` says which
    devices have a machine while one is running, `SendInv` that a device that has sent
    in this turn is done or has its flag set. `CarriesOneMore` is the lemma on queues.
  * `SensorIsRight`: for every map, every placement of obstacles, every pair of ranges
    and whenever the range is upgraded, the sensor shows the least set of the rule.
    `SearchInv` has the two halves, as for `Resolution`: what has been visited is closed
    up to the queue, and whatever is visited or queued on the map lies in every
    closed set. By `LookInv` it holds, for the range and place of now, from the start of
    the search until the program's turn is over: upgrades come before. That the flat index of a cell stands for one cell
    only is arithmetic with a product of two variables, done in steps of its own.
  * `PollsOnce`: for any number of tasks and wherever the turn advances. `ListInv`: a task
    is in the list at most once; `TickInv`: in the middle of a tick, those before `idx`
    have been polled, those from `idx` on have not, and whoever is gone has been.
    `SwapRemoveIs` says what `swap_remove` leaves of the list.
* `ReplayFormatProofs`: lemmas only, on the operators that both decoders share. A
  record is found where it starts (`RecordsAreFound`), records start in order
  (`StartsInOrder`), the number of readable records exists and is the one that its
  definition describes (`ReadableExists`, `ReadableIs`). The library's induction
  theorems cannot be instantiated by the installed provers; `LeastElement` and
  `SetInduction` say the same of a set of numbers instead of a predicate, and are
  proved from the well-ordering of the naturals. What the recursive function behind
  `StartOf` computes (`StartsAddUp`) follows from `SetInduction`.
* `AutotestProofs`
  * `DecoderRefinesReader`: `ReplayDecoder` implements `ReplayReader`, for every replay
    and every way to cut the bytes into chunks. The invariant `DecoderInv`: the cursor
    is at the start of the record after those yielded, the records yielded are good,
    and the buffer has what has been pushed and not yet dropped.
  * `Verdicts`, `TypeCorrect`: from `CaseInv`, what `runHeadlessOnce` knows of child, timer
    and decoder at each place, and from the above: the verdict depends on what the
    decoder yields.
* `ProgramProofs`
  * `PlaybackRefinesReader`: `Playback`, inside the program, implements the same
    `ReplayReader`, for every chunk size, cut and quit. `PlaybackInv` has the same parts
    as `DecoderInv`; `Buffered` and `Skipped` are the lemmas on `ensureBuffered` and `skip`,
    `NothingStep` shows that no record is overlooked.
  * `ViewAlwaysFollows`: from `TuiInv`: the phases are published in order, and the history
    has an entry for every tick the view has had. This proof found that two cases of
    `Merged` overlapped in the phase `"Header"`; the model now tells them apart.
  * `FileAlwaysTells`: for every match, whichever write fails and however much the
    stream and zstd hold back. Every byte handed over has a place in the file, and
    `Stored(n)` says that the first `n` of them are in the file, the buffer and zstd, in
    this order. `FileOK` adds the two other shapes a file can have, a failed stream and
    a closed frame; `HeadlessInv` and `LiveInv` say that the drivers write only while
    everything is stored, and finish at most once before they return 0. `Joined` and
    `CutInTwo` are the lemmas on parts of the file, `WrittenParts` and `FlushedParts` those
    on the stream.
  * `TypeCorrect`: from the three invariants together.
  * Assumptions: `ReplayAssumption` on the replays (a header first, sizes that are large
    enough for their prefix), a chunk size and a number of ticks above zero.

* `WorldSetupProofs`, for every set of inputs and every size of the limits
  * `GoodMapsAreLoaded`: every file that `docs/tilemap-file-format.md` allows is loaded,
    of any size and wherever its bases are, and only its sizes can make `World`
    fail. `WorldHasTwoBases`: in a running world the flags of the tiles and
    `isInBase` agree, whichever of the two loaders or the generator made the map.
    `MapsSurviveSaving`: the loaders are left inverses of the savers.
    `SettingsReachTheWorld`, `SetupTypeCorrect`. All are parts of `SetupSafety`.
  * `SetupInv` says of each place of the program what is known there: `MapFor` that a
    generated map and one from a good file have two bases, each a square of its own;
    `Seated` that the tiles of each side are exactly the square at the corner the
    constructor has found; `UnitInv` that the units stand in it. A file may give a base
    size of 32768 and more, which is negative in a `pos_t`; the loader lets it pass
    if each base is one tile, and `NoSpawn` shows that no world runs on it.
  * The loaders are loops over the tiles of a file. Each loop is a recursive function,
    and has an invariant of its own over the rounds: `TextInv` and `BinaryInv` (what has
    been taken for a base so far is one, with its whole square), `PairFound` and
    `BasesFound` (of a good file nothing else is found), `ClusterState` for the resources
    of the generator. `RoundInduction` carries them through; `RowOrder` and `ColumnOrder`
    relate the two orders in which the tiles are visited.
  * Assumptions: `LimitAssumption` and `WidthAssumption` on the limits as in the code (a
    base fits in a byte, the generated maps are at most a byte wide and have room for
    two bases, binary maps may be wider, the units at the start fit in the smallest
    base); `InputAssumption`: files consist of bytes or letters; `NoiseAssumption`: the
    noise returns one of the terrains and places.
  * This proof found that `SettingsAreObeyed` was false as first stated: on a map file
    larger than a byte can say the size of the bases is narrowed as well
    (`world.cpp:92`), which the instance of the run was too small to show. The property
    now has the same exception for it as for the width.

Each inductive invariant was checked by TLC before it was proved, on the instance
of the run of its component (numbers bounded where TLC has to enumerate them).

Only model-checked: the liveness properties (`MatchEnds`, `LookEnds`,
`EveryTaskGetsItsTurn`, `FinalStateIsShown`, `ProgramEnds`, `EveryRunIsReported`), since
liveness under fairness and `ENABLED` are out of the prover's reach. Every invariant
and every action property of the passing runs, and both refinements, are proved.

## 6. Disagreements between the code and its documents

Two have a run, because they take several steps to show:

* `combat_refire`: an attack whose bullet is consumed at the muzzle stays pending
  and is fired again in the next turn (`world.cpp:784`). The repetition is not paid
  for, against `rule-spec.md:116`, and comes within the cooldown, against
  `rule-spec.md:118`: "The unit can only attack once per ATTACK_COOLDOWN turns".
* `playback_recorded`: the encoder writes ticks with more than 64 log entries, which
  the decoder refuses (`replay.cpp:315`; `replay-binary-format.md:3`).

The others are visible in a single definition of the models, which follow the code:

| Where | The code | The document |
|---|---|---|
| `world.cpp:189`, `Combat!StopBullet` | a bullet that meets rock or the edge is freed, but its last tile still points to it | `rule-spec.md:138`: it is "removed from the game" |
| `world.cpp:773`, `Combat!ShotOffTheMap` | firing over the edge trips a fail-fast check | the same line |
| `world.cpp:159`, `Combat!AdvanceBullet` | bullets move one after the other, so one can hit another that leaves its tile in the same sub-step | `rule-spec.md:225`: actions "are processed simultaneously" |
| `world.cpp:558`, `Economy!Collected` | under a capacity so near to 65535 that a turn's gain can pass it, the sum is narrowed to 16 bits before it is limited, and a unit that is nearly full is left with almost nothing | `rule-spec.md:72`: "saturation-limited by the unit's carry capacity"; `:39` and `:40` allow capacities up to 65,535 |
| `world.cpp:142` | two players without units and energy play on | `rule-spec.md:173`: "the game ends in a draw immediately" |
| `world.cpp:609`, `Economy!Manufact` | a full base trips a fail-fast check after the base has paid | `api-spec.md:340`: `CAPACITY_FULL` |
| `runtime.cpp:299`, `Economy!UnitId` | an id of 257 is taken for 1 | `api-spec.md:338`: `INVALID_ID` |
| `runtime.cpp:272`, `Runtime!SendMsg` | a message of 256 bytes arrives with length 0 | `api-spec.md:286`: 1 to 512 bytes |
| `runtime.cpp:46`, `Runtime!Log` | a log call that fails on its pointer is charged | `api-spec.md:103`: "each successful `log` call" |
| `decoder_core.ts:49`, `ReplayDecoder!Push` | dropped bytes are not added to the start of the buffer, so `position()` is too small | `decoder_core.ts:38`: "absolute byte offset" |
| `async_rt.rs:216`, `Scheduler!AdvanceTurn` | when the turn advances inside a tick, the tasks behind are polled twice in the new turn | `async_rt.rs:135`: "at most once per turn" |
| `async_rt.rs:229`, `Scheduler!PollTask` | with one task failing and one spawned in every turn, older tasks are never polled | `async_rt.rs:136`: "a simple round-robin" |
| `world.cpp:90`, `WorldSetup!BuildWorld` | a map file whose sizes, cut to a byte, are not 4 to 255 and whose bases are not 2 to 8 wide is loaded, and trips a fail-fast check | `tilemap-file-format.md:115`: width and height "between 1 and 512", no limit for bases |
| `tilemap.cpp:88`, `Tilemap!Signed` | a base size of 32768 and more becomes negative; with bases of one tile it is loaded, and trips a fail-fast check in the constructor of `World`, at `world.cpp:93` or at `:609` | `tilemap-file-format.md:136`: bases "form perfect squares of size `base_size`", "enforced at load time" |
| `tilemap.cpp:283` and `:153`, `Tilemap!ScanText`, `ScanBinary` | a file with no base or one is loaded, and trips a fail-fast check in the constructor of `World` (`world.cpp:116`) | `tilemap-file-format.md:51`: "Exactly two base regions must exist", "enforced at load time"; `:136` for binary files |
| `tilemap.cpp:238`, `Tilemap!Line` | a text file without a newline at its end and with rows missing is loaded, the last row repeated | `tilemap-file-format.md` asks for `height` rows |
| `tilemap.cpp:304`, `Tilemap!ScanText` | of two bases that touch, one above the other is loaded, one beside the other refused | none: both are two squares |
| `parser.cpp:282`, `Tilemap!generate` | `--width 8` passes the command line and is refused by the generator, which wants 16 | the message of `parser.cpp:283`: "within [4, 255]" |

Nothing is said in the documents about the following, and the properties make the
exceptions explicit:

* `replay.cpp:842`: a record of an unknown type is never readable, so playback of such
  a file polls until the user quits (`ProgramEnds`).
* `tilemap.cpp:165`: a base tile whose side is 0 reads `base_found[-1]` (`LegalMapsLoad`).
* `world.cpp:90`: a map wider than 255 tiles runs with a narrowed width in its rules
  and replays if what is left is at least 4; the size of its bases, which can be as
  large as the map, is narrowed likewise (`SettingsAreObeyed`).
* `tilemap.cpp:346`: text cannot say what is under a base; saving a binary map as text
  loses it (`SavedMapsReload`).
* `headless-runner.ts:174`: an error of the decoder kills the child, and is then
  reported as "terminated by signal"; when the child cannot be started, the timer
  is left armed (`Autotest!SpawnFails`). The run fails in either case.

## 7. Plan

Done, in this order: the phases of a turn with the movement core first; runtime and
vision; the replay decoders; the scheduler; then tilemap files, command line and
world setup; the replay writers; the composition of writer, playback and user
interface; the abstract replay reader and its two implementations; the autotest
runner; then the proofs of section 5. Next:

1. The turn as a whole, with movement, combat and economy on the same tiles in place
   of their environments.
2. The fields of records: encoding and decoding as inverse functions.
3. The C library.

## 8. Not modelled, and why

* Noise and random numbers: floating-point and 64-bit arithmetic; where the engine
  draws a number or asks the noise, the models choose.
* The plain interface, rendering, camera keys, the replay command line: formatting
  without state that anything depends on. The limit of 240 kept log entries of the
  text interface belongs here.
* The fields inside a record of a replay: planned.
* Reading of test case files and resolving of program names (`case-spec.ts`,
  `program-resolver.ts`): checks of one value at a time.
* The scanning of command-line arguments is done by argparse; RISC-V emulator, zstd,
  FTXUI, node and the C++ streams are libraries outside the repository. What is
  needed of them (a stream may refuse bytes, zstd may delay them, posted events
  stay, `close` comes after the child and its output have ended) is stated where it
  is used and marked as external in the map.
* The C library and the Rust bindings: wrappers of the ecalls, memory and string
  functions for programs; planned, the wrappers have no state.
* Text map headers with numbers that do not fit in a `pos_t`, or with a negative width.
* Read-only ecalls (`meta`, `turn`, `dev_info`, `pos`, `rand`): no property depends on them.
