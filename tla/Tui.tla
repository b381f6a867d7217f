--------------------------------- MODULE Tui ---------------------------------
(***************************************************************************)
(* The two threads of the text user interface.  The main thread             *)
(* (runPlaybackMode or runLiveMode) publishes a header, ticks and an end or *)
(* an error through TuiRunner; the UI thread copies what is published when  *)
(* it handles a Custom event.                                               *)
(*                                                                          *)
(* What is done under _replay.mutex is one step.  The event is posted after *)
(* the mutex is released: a step of its own.  The event queue of the screen *)
(* is not part of the repository; it is taken to keep every event until the *)
(* UI thread handles it.  Rendering is left out, and so is the limit on the *)
(* number of logs that are kept.                                            *)
(***************************************************************************)
EXTENDS Integers, Sequences

CONSTANTS MaxTick   \* bound on the number of ticks published

Phases == {"Header", "Tick", "End"}   \* ReplayParsePhase

VARIABLES
    live,      \* runLiveMode, not runPlaybackMode
    pc,        \* the main thread: "start", "open", "loop", "body", "finish",
               \*   "unwind", "wait", "joined"
    owed,      \* the main thread has published and not yet posted the event
    progress,  \* _replay.progress: its phase and the number of its tick
    error,     \* _replay.last_error is set
    stop,      \* the stop token of _ui_thread
    queue,     \* the number of Custom events in the screen's queue
    ui,        \* the UI thread: "none", "starting", "looping", "exited"
    view,      \* PlaybackState::progress of the UI thread
    viewError, \* PlaybackState::last_error is set
    history    \* the ticks whose logs are in log_history

shared == <<progress, error>>
shownVars == <<view, viewError, history>>
vars == <<live, pc, owed, shared, stop, queue, ui, shownVars>>

Nothing == [phase |-> "Header", tick |-> 0]

Init ==
    /\ live \in BOOLEAN
    /\ pc = "start"
    /\ owed = FALSE
    /\ progress = Nothing /\ error = FALSE
    /\ stop = FALSE
    /\ queue = 0
    /\ ui = "none"
    /\ view = Nothing /\ viewError = FALSE /\ history = <<>>

-----------------------------------------------------------------------------
(* The main thread.                                                         *)

\* ui.start and publishTilemapSource.
Start ==
    /\ pc = "start"
    /\ ui' = "starting"
    /\ owed' = TRUE
    /\ pc' = "open"
    /\ UNCHANGED <<live, shared, stop, queue, shownVars>>

\* notifyUpdate.
Notify ==
    /\ owed
    /\ owed' = FALSE
    /\ queue' = queue + 1
    /\ UNCHANGED <<live, pc, shared, stop, ui, shownVars>>

\* One of the publish functions, called at one place of the main thread.
Publish(from, to, prog, err) ==
    /\ pc = from /\ ~owed
    /\ progress' = prog /\ error' = err
    /\ owed' = TRUE
    /\ pc' = to
    /\ UNCHANGED <<live, stop, queue, ui, shownVars>>

PublishHeader == Publish("open", "loop", [progress EXCEPT !.phase = "Tick"], error)

\* while (!ui.shouldStop()): a stop request may still come before the body publishes.
EnterLoop ==
    /\ pc = "loop" /\ ~owed /\ ~stop
    /\ pc' = "body"
    /\ UNCHANGED <<live, owed, shared, stop, queue, ui, shownVars>>

\* A live match is given an end marker also when the user stops it.
LeaveLoop ==
    /\ pc = "loop" /\ ~owed /\ stop
    /\ pc' = IF live THEN "finish" ELSE "wait"
    /\ UNCHANGED <<live, owed, shared, stop, queue, ui, shownVars>>

\* A live match may be over, or drawn, after any tick.
PublishTick(to) ==
    /\ progress.tick < MaxTick
    /\ to = "finish" => live
    /\ live /\ progress.tick + 1 = MaxTick => to = "finish"
    /\ Publish("body", to, [progress EXCEPT !.tick = @ + 1], error)

PublishEnd ==
    Publish(IF live THEN "finish" ELSE "body", "wait", [progress EXCEPT !.phase = "End"], error)

\* Only playback reports decoding errors.
PublishError(from) == ~live /\ Publish(from, "wait", progress, TRUE)

\* Playback finds no complete record yet.
FindNothing ==
    /\ pc = "body" /\ ~live
    /\ pc' = "loop"
    /\ UNCHANGED <<live, owed, shared, stop, queue, ui, shownVars>>

\* An exception: a file cannot be opened, read or written.
Throw ==
    /\ pc \in {"open", "body", "finish"} /\ ~owed
    /\ pc' = "unwind"
    /\ UNCHANGED <<live, owed, shared, stop, queue, ui, shownVars>>

\* Mutant of RequestStop: the UI thread is not woken up.
RequestStop_Silent ==
    /\ pc = "unwind"
    /\ stop' = TRUE
    /\ pc' = "wait"
    /\ UNCHANGED <<live, owed, shared, queue, ui, shownVars>>

RequestStop ==
    /\ pc = "unwind"
    /\ stop' = TRUE
    /\ owed' = TRUE
    /\ pc' = "wait"
    /\ UNCHANGED <<live, shared, queue, ui, shownVars>>

\* ui.wait.
Join ==
    /\ pc = "wait" /\ ~owed
    /\ ui = "exited"
    /\ pc' = "joined"
    /\ UNCHANGED <<live, owed, shared, stop, queue, ui, shownVars>>

Main ==
    \/ Start \/ Notify
    \/ PublishHeader \/ EnterLoop \/ LeaveLoop
    \/ \E to \in {"loop", "finish"} : PublishTick(to)
    \/ PublishEnd \/ FindNothing
    \/ \E from \in {"open", "body"} : PublishError(from)
    \/ Throw \/ RequestStop \/ Join

-----------------------------------------------------------------------------
(* The UI thread.                                                           *)

\* notifyUpdate, then the loop.
BeginLoop ==
    /\ ui = "starting"
    /\ ui' = "looping"
    /\ queue' = queue + 1
    /\ UNCHANGED <<live, pc, owed, shared, stop, shownVars>>

currentTick(v) == IF v.phase = "Header" THEN 0 ELSE v.tick

\* Mutant of Merged: only the tick is copied once there is a header.
Merged_TickOnly(v) ==
    CASE v.phase = "Header" -> progress
      [] OTHER -> [v EXCEPT !.tick = progress.tick]

Merged(v) ==
    CASE progress.phase # v.phase -> progress
      [] progress.phase = v.phase /\ v.phase # "Header" -> [v EXCEPT !.tick = progress.tick]
      [] OTHER -> v

\* Mutant of IsNewTick: every event brings the logs of its tick.
IsNewTick_Always(old, new) == new.phase # "Header"

\* Mutant of IsNewTick: not for the tick that comes with a new phase.
IsNewTick_SamePhase(old, new) == new.phase = old.phase /\ new.tick # currentTick(old)

IsNewTick(old, new) == new.phase # "Header" /\ new.tick # currentTick(old)

\* The handler of Event::Custom.
HandleUpdate ==
    /\ ui = "looping" /\ queue > 0
    /\ ~stop
    /\ queue' = queue - 1
    /\ view' = Merged(view)
    /\ viewError' = (viewError \/ error)
    /\ history' = IF IsNewTick(view, view') THEN Append(history, view'.tick) ELSE history
    /\ UNCHANGED <<live, pc, owed, shared, stop, ui>>

HandleStop ==
    /\ ui = "looping" /\ queue > 0
    /\ stop
    /\ queue' = queue - 1
    /\ ui' = "exited"
    /\ UNCHANGED <<live, pc, owed, shared, stop, shownVars>>

\* The user presses Q or Escape.
PressQuit ==
    /\ ui = "looping"
    /\ stop' = TRUE
    /\ ui' = "exited"
    /\ UNCHANGED <<live, pc, owed, shared, queue, shownVars>>

Next == Main \/ BeginLoop \/ HandleUpdate \/ HandleStop \/ PressQuit

Spec == Init /\ [][Next]_vars

-----------------------------------------------------------------------------
(* Properties.                                                              *)

TypeOK ==
    /\ pc \in {"start", "open", "loop", "body", "finish", "unwind", "wait", "joined"}
    /\ ui \in {"none", "starting", "looping", "exited"}
    /\ progress \in [phase : Phases, tick : 0 .. MaxTick]
    /\ view \in [phase : Phases, tick : 0 .. MaxTick]
    /\ queue \in Nat
    /\ history \in Seq(1 .. MaxTick) /\ Len(history) <= MaxTick

(* The view follows what is published: it never gets ahead of it and the    *)
(* logs shown are those of distinct ticks in order, up to the tick that is  *)
(* shown, however many events come for one tick or none for another.        *)
ViewFollows ==
    /\ view.tick <= progress.tick
    /\ view.phase # "Header" => progress.phase # "Header"
    /\ view.phase = "End" => view = progress
    /\ \A i, j \in 1 .. Len(history) : i < j => history[i] < history[j]
    /\ view.tick > 0 => history # <<>> /\ history[Len(history)] = view.tick
=============================================================================
