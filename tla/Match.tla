------------------------------- MODULE Match -------------------------------
(***************************************************************************)
(* How a match ends: the capture counters of World::_checkBaseCapture-      *)
(* Condition, the rule-draw judges, and the loop of runHeadlessLiveMode     *)
(* that steps the world, writes one replay record per tick, watches for a   *)
(* termination signal and writes the end marker.                            *)
(*                                                                          *)
(* What happens on the battlefield in a turn is an input of Step: how many  *)
(* living units of each side stand in each base, and which turn events were *)
(* raised.                                                                  *)
(***************************************************************************)
EXTENDS Integers

CONSTANTS
    Threshold,    \* rules.capture_turn_threshold
    MaxInBase,    \* bound on the units of one side in one base
    EventSets,    \* the sets of other events raised in one turn (bounds the model)
    Judges,       \* the judges considered, among "noop", "max_ticks" and "dynamic"
    MaxTicks,     \* --max-ticks (0: no limit)
    StartLimit,   \* _max_turn of a new dynamic judge
    SmallBonus,   \* what leaving the base or entering a resource zone adds
    LargeBonus,   \* what each of the other events adds
    TickCap       \* bound: ticks past it are not told apart

SmallEvents == {"unit_left_base", "unit_entered_resource_zone"}
LargeEvents == {"unit_upgraded_or_repaired_at_base", "unit_manufactured",
                "unit_destroyed", "base_entered_capture_condition"}
Events == SmallEvents \cup LargeEvents

ASSUME MatchAssumption ==
    /\ EventSets \subseteq SUBSET (Events \ {"base_entered_capture_condition"})
    /\ Threshold \in Nat \ {0}
    /\ MaxInBase \in Nat
    /\ Judges \subseteq {"noop", "max_ticks", "dynamic"}
    /\ MaxTicks \in Nat
    /\ StartLimit \in Nat \ {0} /\ SmallBonus \in Nat /\ LargeBonus \in Nat
    /\ TickCap \in Nat

PlayerIds == {1, 2}

VARIABLES
    tick,         \* World::tick
    counter,      \* Player::base_capture_counter
    turnEvents,   \* World::_turn_events
    termination,  \* World::_termination_reason
    winner,       \* World::_winner_player_id
    kind,         \* the judge createRuleDrawJudgeFromOptions has made
    seen,         \* the _..._seen flags of the dynamic judge
    maxTurn,      \* _max_turn of the dynamic judge
    signal,       \* g_terminateRequested
    pc,           \* where runHeadlessLiveMode is
    exitCode,
    frames,       \* number of tick records written
    endMarker,    \* the termination written in the end marker
    streak        \* history: turns in a row in capture condition, up to Threshold

world == <<tick, counter, turnEvents, termination, winner, streak>>
judge == <<kind, seen, maxTurn>>
output == <<exitCode, frames, endMarker>>
matchVars == <<world, judge, output, signal, pc>>

MatchInit ==
    /\ tick = 0
    /\ counter = [p \in PlayerIds |-> 0]
    /\ turnEvents = {}
    /\ termination = "Ongoing"
    /\ winner = 0
    /\ kind \in Judges
    /\ seen = {}
    /\ maxTurn = StartLimit
    /\ signal = FALSE
    /\ pc = "loop"
    /\ exitCode = 0
    /\ frames = 0
    /\ endMarker = "none"
    /\ streak = [p \in PlayerIds |-> 0]

gameOver == termination # "Ongoing"

Counted(n) == IF n < TickCap THEN n + 1 ELSE n

-----------------------------------------------------------------------------
(* World::step, as far as the end of the match is concerned.                *)

Presence == [PlayerIds -> [PlayerIds -> 0 .. MaxInBase]]

\* here[p][q]: living units of player q in the base of player p.
InCaptureCondition(here, p) == here[p][3 - p] > here[p][p]

\* Mutant of NewCounter: leaving capture condition does not reset the counter.
NewCounter_NoReset(here) ==
    [p \in PlayerIds |-> IF InCaptureCondition(here, p) THEN counter[p] + 1 ELSE counter[p]]

NewCounter(here) ==
    [p \in PlayerIds |-> IF InCaptureCondition(here, p) THEN counter[p] + 1 ELSE 0]

\* Mutant of SteppedBack: simultaneous captures keep their counters.
SteppedBack_Not(c) == c

\* Simultaneous capture: the match continues, one turn short of a capture.
SteppedBack(c) == [p \in PlayerIds |-> c[p] - 1]

\* _checkBaseCaptureCondition.
CheckBaseCapture(here) ==
    LET c == NewCounter(here) IN
    \/ /\ c[1] = Threshold /\ c[2] = Threshold
       /\ counter' = SteppedBack(c)
       /\ UNCHANGED <<termination, winner>>
    \/ /\ ~(c[1] = Threshold /\ c[2] = Threshold)
       /\ counter' = c
       /\ IF \E p \in PlayerIds : c[p] >= Threshold
          THEN /\ termination' = "Victory"
               /\ winner' = IF c[1] >= Threshold THEN 2 ELSE 1
          ELSE UNCHANGED <<termination, winner>>

\* One turn and its tick record.  The other events of the turn are an input.
Step ==
    /\ pc = "loop"
    /\ ~gameOver
    /\ tick' = Counted(tick)
    /\ \E here \in Presence, others \in EventSets :
         /\ CheckBaseCapture(here)
         /\ turnEvents' = IF \E p \in PlayerIds : InCaptureCondition(here, p)
                          THEN others \cup {"base_entered_capture_condition"} ELSE others
         /\ streak' = [p \in PlayerIds |->
                         IF ~InCaptureCondition(here, p) THEN 0
                         ELSE IF streak[p] < Threshold THEN streak[p] + 1 ELSE streak[p]]
    /\ frames' = Counted(frames)
    /\ pc' = IF gameOver' THEN "end" ELSE "signal"
    /\ UNCHANGED <<judge, signal, exitCode, endMarker>>

-----------------------------------------------------------------------------
(* The rest of the loop.                                                    *)

\* signalHandler, at any time.
ReceiveSignal ==
    /\ ~signal
    /\ pc # "done"
    /\ signal' = TRUE
    /\ UNCHANGED <<world, judge, output, pc>>

\* Mutant of CheckSignal: the exit code stays 0.
CheckSignal_NoExitCode ==
    /\ pc = "signal"
    /\ pc' = IF signal THEN "end" ELSE "judge"
    /\ UNCHANGED <<world, judge, output, signal>>

\* Mutant of CheckSignal: the flag is not looked at.
CheckSignal_Ignored ==
    /\ pc = "signal"
    /\ pc' = "judge"
    /\ UNCHANGED <<world, judge, output, signal>>

CheckSignal ==
    /\ pc = "signal"
    /\ pc' = IF signal THEN "end" ELSE "judge"
    /\ exitCode' = IF signal THEN 1 ELSE exitCode
    /\ UNCHANGED <<world, judge, frames, endMarker, signal>>

\* What the judge adds for the events it sees for the first time.
Extension(new) ==
    (IF "unit_left_base" \in new THEN SmallBonus ELSE 0)
      + (IF "unit_entered_resource_zone" \in new THEN SmallBonus ELSE 0)
      + (IF "unit_upgraded_or_repaired_at_base" \in new THEN LargeBonus ELSE 0)
      + (IF "unit_manufactured" \in new THEN LargeBonus ELSE 0)
      + (IF "unit_destroyed" \in new THEN LargeBonus ELSE 0)
      + (IF "base_entered_capture_condition" \in new THEN LargeBonus ELSE 0)

\* Mutant of ObserveEvents: the _seen flags are not set.
ObserveEvents_NotRemembered ==
    IF kind = "dynamic"
    THEN /\ maxTurn' = maxTurn + Extension(turnEvents)
         /\ UNCHANGED <<kind, seen>>
    ELSE UNCHANGED judge

\* shouldDraw of the three judges: the judge's own state, then its verdict.
ObserveEvents ==
    IF kind = "dynamic"
    THEN /\ seen' = seen \cup turnEvents
         /\ maxTurn' = maxTurn + Extension(turnEvents \ seen)
         /\ UNCHANGED kind
    ELSE UNCHANGED judge

ShouldDraw ==
    CASE kind = "noop" -> FALSE
      [] kind = "max_ticks" -> MaxTicks # 0 /\ tick >= MaxTicks
      [] kind = "dynamic" -> tick >= maxTurn'

\* markRuleDraw when the judge says so.
AskJudge ==
    /\ pc = "judge"
    /\ ObserveEvents
    /\ IF ShouldDraw
       THEN /\ termination' = IF gameOver THEN termination ELSE "RuleDraw"
            /\ pc' = "end"
       ELSE pc' = "loop" /\ UNCHANGED termination
    /\ UNCHANGED <<tick, counter, turnEvents, winner, streak, output, signal>>

\* ReplayEndMarker::fromWorld, written and finished.
WriteEnd ==
    /\ pc = "end"
    /\ endMarker' = CASE termination = "Victory" -> "Completed"
                      [] termination = "RuleDraw" -> "RuleDraw"
                      [] termination = "Ongoing" -> "Aborted"
    /\ pc' = "done"
    /\ UNCHANGED <<world, judge, exitCode, frames, signal>>

\* The process has exited.
Exited ==
    /\ pc = "done"
    /\ UNCHANGED matchVars

Driver == Step \/ CheckSignal \/ AskJudge \/ WriteEnd

MatchNext == Driver \/ ReceiveSignal \/ Exited

MatchSpec == MatchInit /\ [][MatchNext]_matchVars

\* A single thread runs the loop; the system never has to deliver a signal.
FairMatch == MatchSpec /\ WF_matchVars(Driver)

-----------------------------------------------------------------------------
(* Properties.                                                              *)

MatchTypeOK ==
    /\ tick \in Nat
    /\ counter \in [PlayerIds -> 0 .. Threshold]
    /\ turnEvents \subseteq Events
    /\ termination \in {"Ongoing", "Victory", "RuleDraw"}
    /\ winner \in {0, 1, 2}
    /\ kind \in Judges
    /\ seen \subseteq Events
    /\ maxTurn \in Nat
    /\ signal \in BOOLEAN
    /\ pc \in {"loop", "signal", "judge", "end", "done"}
    /\ exitCode \in {0, 1}
    /\ frames \in Nat
    /\ endMarker \in {"none", "Completed", "RuleDraw", "Aborted"}
    /\ streak \in [PlayerIds -> 0 .. Threshold]

Captured(p) == streak[p] = Threshold

(* "A player's base is considered captured if for CAPTURE_TURN_THRESHOLD    *)
(* consecutive turns, the player's base is in capture condition" and "If    *)
(* both players' bases are captured in the same turn, the game continues    *)
(* until one player's base is no longer in capture condition"               *)
(* (docs/rule-spec.md): the match is won exactly when one base is captured  *)
(* and the other is not, and the winner is the player whose base is not.    *)
VictoryByCapture ==
    /\ termination = "Victory" <=> \E p \in PlayerIds : Captured(p) /\ ~Captured(3 - p)
    /\ termination = "Victory" =>
         winner \in PlayerIds /\ Captured(3 - winner) /\ ~Captured(winner)
    /\ termination # "Victory" => winner = 0

(* Once a match has ended, nothing about its outcome changes, and no        *)
(* further tick is simulated or recorded.                                   *)
OutcomeIsFinal ==
    [][termination # "Ongoing" => UNCHANGED <<termination, winner, tick, counter, frames>>]_matchVars

(* What the end marker and the exit code tell the reader of the replay: a   *)
(* match is reported as aborted, with exit code 1, only if a signal stopped *)
(* it before it had a result, and every tick has been recorded once.        *)
ReplayTellsTheOutcome ==
    pc = "done" =>
        /\ endMarker = "Completed" <=> termination = "Victory"
        /\ endMarker = "RuleDraw" <=> termination = "RuleDraw"
        /\ endMarker = "Aborted" <=> exitCode = 1
        /\ endMarker = "Aborted" => signal
        /\ frames = tick

(* The dynamic limit: every kind of event extends the match once, and a     *)
(* draw is declared at exactly that limit, never before the start limit     *)
(* and never after the total of all the bonuses.                            *)
DrawAtTheLimit ==
    /\ kind = "dynamic" => maxTurn = StartLimit + Extension(seen)
    /\ kind = "dynamic" /\ pc \in {"loop", "judge"} => tick <= maxTurn
    /\ termination = "RuleDraw" =>
         tick = IF kind = "dynamic" THEN maxTurn ELSE MaxTicks

(* A match whose judge has a limit ends whatever the programs do, and a     *)
(* termination signal ends it even without a judge.                         *)
MatchEnds ==
    (signal \/ kind = "dynamic" \/ (kind = "max_ticks" /\ MaxTicks # 0)) ~> (pc = "done")
=============================================================================
