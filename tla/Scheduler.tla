----------------------------- MODULE Scheduler -----------------------------
(***************************************************************************)
(* The cooperative scheduler of rusty-corelib (async_rt.rs): tick polls     *)
(* every task once when the game turn has advanced.  The program that calls *)
(* it is itself stopped by the engine when its cycles are used up, between  *)
(* any two instructions, and goes on in the next turn: the turn can advance *)
(* at any point of a tick.                                                  *)
(*                                                                          *)
(* Turns only count up, so all that matters of turn() and last_turn is      *)
(* whether they differ.                                                     *)
(***************************************************************************)
EXTENDS Integers, Sequences, SequencesExt

CONSTANT Tasks   \* the tasks; one that is gone may be spawned anew

VARIABLES
    advanced,     \* turn() # self.last_turn
    tasks,        \* self.tasks
    new,          \* tasks that may be spawned
    pc,           \* "idle", or "polling" inside tick
    idx,          \* the local idx of tick, counted from 1
    inTick,       \* history: the tasks there when the last tick began
    polls,        \* history: how often it has polled each of them
    failed        \* history: the last tick returned an error

schedVars == <<advanced, tasks, new, pc, idx, inTick, polls, failed>>

\* new: last_turn is the turn before the current one.
SchedInit ==
    /\ advanced = TRUE
    /\ tasks = <<>>
    /\ new = Tasks
    /\ pc = "idle"
    /\ idx = 1
    /\ inTick = {} /\ polls = [t \in Tasks |-> 0] /\ failed = FALSE

\* The engine stops the program and resumes it in the next turn.
AdvanceTurn ==
    /\ advanced' = TRUE
    /\ UNCHANGED <<tasks, new, pc, idx, inTick, polls, failed>>

Spawn(t) ==
    /\ pc = "idle"
    /\ t \in new
    /\ tasks' = Append(tasks, t)
    /\ new' = new \ {t}
    /\ UNCHANGED <<advanced, pc, idx, inTick, polls, failed>>

\* Mutant of BeginTick: the index is where the last tick has left it.
BeginTick_KeepIndex ==
    /\ pc = "idle"
    /\ advanced
    /\ advanced' = FALSE
    /\ pc' = "polling"
    /\ inTick' = ToSet(tasks)
    /\ polls' = [t \in Tasks |-> 0]
    /\ failed' = FALSE
    /\ UNCHANGED <<tasks, new, idx>>

\* Otherwise tick returns NoTurnAdvance at once.
BeginTick ==
    /\ pc = "idle"
    /\ advanced
    /\ advanced' = FALSE
    /\ pc' = "polling"
    /\ idx' = 1
    /\ inTick' = ToSet(tasks)
    /\ polls' = [t \in Tasks |-> 0]
    /\ failed' = FALSE
    /\ UNCHANGED <<tasks, new>>

\* Vec::swap_remove: the last element takes the place of the removed one.
SwapRemove(s, i) == Front([s EXCEPT ![i] = Last(s)])

\* Mutant of AfterPoll: the index also moves on when a task is removed.
AfterPoll_Advance(outcome) == idx + 1

AfterPoll(outcome) == IF outcome = "pending" THEN idx + 1 ELSE idx

PollTask(outcome) ==
    /\ pc = "polling" /\ idx <= Len(tasks)
    /\ tasks' = IF outcome = "pending" THEN tasks ELSE SwapRemove(tasks, idx)
    /\ idx' = AfterPoll(outcome)
    /\ pc' = IF outcome = "error" THEN "idle" ELSE "polling"
    /\ failed' = (outcome = "error")
    /\ polls' = [polls EXCEPT ![tasks[idx]] = @ + 1]
    /\ new' = IF outcome = "pending" THEN new ELSE new \cup {tasks[idx]}
    /\ UNCHANGED <<advanced, inTick>>

EndTick ==
    /\ pc = "polling" /\ idx > Len(tasks)
    /\ pc' = "idle"
    /\ UNCHANGED <<advanced, tasks, new, idx, inTick, polls, failed>>

Outcomes == {"pending", "ready", "error"}

Tick == BeginTick \/ EndTick \/ \E o \in Outcomes : PollTask(o)

SchedNext == AdvanceTurn \/ Tick \/ \E t \in Tasks : Spawn(t)

SchedSpec == SchedInit /\ [][SchedNext]_schedVars

\* The match goes on, and the program keeps calling tick.
FairSched == SchedSpec /\ WF_schedVars(AdvanceTurn) /\ WF_schedVars(Tick)

-----------------------------------------------------------------------------
(* Properties.                                                              *)

(* "Poll all tasks once if turn advanced" (tick in async_rt.rs): although   *)
(* removing a task moves another one in the list, a tick that returns no    *)
(* error has polled each task that was there exactly once, and no other.    *)
EachTaskOnce ==
    pc = "idle" /\ ~failed =>
        /\ \A t \in inTick : polls[t] = 1
        /\ \A t \in Tasks \ inTick : polls[t] = 0

(* Unless new tasks keep being spawned, every task is polled again or is    *)
(* gone, even if others fail before it and end the tick.                    *)
EveryTaskGetsItsTurn ==
    \/ []<><<\E t \in Tasks : Spawn(t)>>_schedVars
    \/ \A t \in Tasks :
         (t \in ToSet(tasks)) ~> (t \notin ToSet(tasks) \/ polls[t] = 1)
=============================================================================
