------------------------------ MODULE Autotest ------------------------------
(***************************************************************************)
(* One run of a test case by js/core-autotest: runHeadlessOnce starts       *)
(* corertt_headless, decodes the replay that it writes to its standard      *)
(* output while it is being written, kills it when the time is up or the    *)
(* replay cannot be decoded, and reports how it went; runCase turns the     *)
(* report into a pass or a failure.                                         *)
(*                                                                          *)
(* The decoder is that of ReplayDecoder.  It can also be used without a     *)
(* child process (child = "absent"), as replay-cli does.                    *)
(***************************************************************************)
EXTENDS ReplayDecoder

CONSTANTS Assertions   \* [atLeast, maxAllowed] of the expected and forbidden logs

VARIABLES
    child,     \* "absent"; "unborn", "missing" (it could not be started), "running";
               \*   "0" or "1" (its exit code) or "signal" (how it was ended)
    timer,     \* timeout_handle: "off", "armed" or "fired"
    timed_out,
    assertion, \* what the case expects of the logs
    expectFailure,
    result     \* "none", or what runHeadlessOnce returns or throws

caseVars == <<child, timer, timed_out, assertion, expectFailure, result>>
allVars == <<vars, caseVars>>

Ended == child \in {"0", "1", "signal"}

CaseInit ==
    /\ Init
    /\ child \in {"absent", "unborn"}
    /\ timer = "off" /\ timed_out = FALSE
    /\ assertion \in Assertions
    /\ expectFailure \in BOOLEAN
    /\ result = "none"
    \* decodeReplayStream is called without options, which means strict.
    /\ child # "absent" => strict
    /\ child = "absent" => assertion = (CHOOSE a \in Assertions : TRUE) /\ ~expectFailure

-----------------------------------------------------------------------------
(* The child process, external, seen from outside: cut is what it gets to   *)
(* write.  It returns 0 only after a whole replay (see Program).            *)

Exit ==
    /\ child = "running"
    /\ child' \in {"0", "1", "signal"}
    /\ child' = "0" => cut = Bytes(replay) /\ Last(replay).kind = "end"
    /\ UNCHANGED <<vars, timer, timed_out, assertion, expectFailure, result>>

-----------------------------------------------------------------------------
(* runHeadlessOnce.                                                         *)

\* spawn, and setTimeout.
Spawn ==
    /\ child = "unborn"
    /\ child' \in {"running", "missing"}
    /\ child' = "missing" => cut = 0
    /\ timer' = "armed"
    /\ UNCHANGED <<vars, timed_out, assertion, expectFailure, result>>

Killed == IF child = "running" THEN "signal" ELSE child

\* Mutant of TimerFires: the child is not killed.
TimerFires_NoKill ==
    /\ timer = "armed"
    /\ timer' = "fired"
    /\ timed_out' = TRUE
    /\ UNCHANGED <<vars, child, assertion, expectFailure, result>>

TimerFires ==
    /\ timer = "armed"
    /\ timer' = "fired"
    /\ timed_out' = TRUE
    /\ child' = Killed
    /\ UNCHANGED <<vars, assertion, expectFailure, result>>

\* decodeReplayLogsFromStdout.  An error ends in the handler that kills the child;
\* the stream ends when the child has.
Decode ==
    \/ /\ child # "unborn"
       /\ \/ \E n \in ChunkSizes : Push(n) /\ (n = 0 => child = "absent")
          \/ NeedMoreData
          \/ ReadRecord
       /\ UNCHANGED caseVars
    \/ /\ child # "unborn"
       /\ ThrowOnRecord
       /\ child' = Killed
       /\ UNCHANGED <<timer, timed_out, assertion, expectFailure, result>>
    \/ /\ child \notin {"unborn", "running"}
       /\ Finalize
       /\ UNCHANGED caseVars

\* The 'error' event: the promise is rejected, and the timer not cleared.
SpawnFails ==
    /\ child = "missing" /\ result = "none"
    /\ result' = "exception"
    /\ UNCHANGED <<vars, child, timer, timed_out, assertion, expectFailure>>

\* The log entries of the ticks that were decoded; all match the filters.
LogCount(records) == FoldLeft(LAMBDA n, r : n + r.logs, 0, records)

evaluateAssertions(records) ==
    LogCount(records) >= assertion.atLeast /\ LogCount(records) <= assertion.maxAllowed

\* Mutant of Verdict: the logs are evaluated whether the replay was decoded or not.
Verdict_NoDecodeResult ==
    CASE timed_out -> "timeout"
      [] ~timed_out /\ child = "signal" -> "signal"
      [] ~timed_out /\ child = "1" -> "exit code"
      [] OTHER -> IF evaluateAssertions(events) THEN "pass" ELSE "assertion"

Verdict ==
    CASE timed_out -> "timeout"
      [] ~timed_out /\ child = "signal" -> "signal"
      [] ~timed_out /\ child = "1" -> "exit code"
      [] ~timed_out /\ child = "0" /\ pc = "error" -> "decode"
      [] OTHER -> IF evaluateAssertions(events) THEN "pass" ELSE "assertion"

\* The 'close' event comes when the child has ended and its output has been read
\* or given up; then clearTimeout and the verdict.
Close ==
    /\ Ended /\ pc \in {"done", "error"} /\ result = "none"
    /\ timer' = IF timer = "armed" THEN "off" ELSE timer
    /\ result' = Verdict
    /\ UNCHANGED <<vars, child, timed_out, assertion, expectFailure>>

\* runCase: the run counts as passed; an exception ends the whole program.
Passed == result \notin {"none", "exception"} /\ (result = "pass") # expectFailure

Runner == Spawn \/ TimerFires \/ Decode \/ SpawnFails \/ Close

CaseNext == Runner \/ Exit

CaseSpec == CaseInit /\ [][CaseNext]_allVars

\* The event loop of node turns and the timer expires; nothing is expected of the
\* child.
FairCaseSpec ==
    /\ CaseSpec
    /\ WF_allVars(Spawn \/ Decode \/ SpawnFails \/ Close)
    /\ WF_allVars(TimerFires)

-----------------------------------------------------------------------------
(* Properties.                                                              *)

CaseTypeOK ==
    /\ TypeOK
    /\ child \in {"absent", "unborn", "missing", "running", "0", "1", "signal"}
    /\ timer \in {"off", "armed", "fired"}
    /\ result \in {"none", "exception", "timeout", "signal", "exit code", "decode",
                   "assertion", "pass"}

Status ==
    CASE pc = "error" -> "failed"
      [] pc = "done" -> IF synthesized THEN "truncated" ELSE "ended"
      [] OTHER -> "reading"

Reader == INSTANCE ReplayReader WITH tolerant <- ~strict, shown <- events, status <- Status

(* The decoder of js/corereplay is a reader of replays like that of the     *)
(* engine: however the stream is cut into chunks, the same records come     *)
(* out; only a tolerant one is content without an end marker, and only if   *)
(* the stream ends in the middle of something.                              *)
DecoderIsAReader == Reader!Spec

\* The child returned 0 in time, and what it wrote is a replay with the right logs.
GoodRun ==
    /\ child = "0" /\ ~timed_out
    /\ Complete(replay, cut)
    /\ evaluateAssertions(Decodable(replay, cut))

(* A run counts as passed exactly when the child has returned 0 in time and *)
(* the whole replay, to the end marker, has the logs that are expected (or  *)
(* not, with expectFailure), whatever the order in which the timer, the     *)
(* decoder and the child itself get to end the child; and no child is       *)
(* running any more when a run is reported.                                 *)
VerdictIsRight ==
    result \notin {"none", "exception"} =>
        /\ child # "running"
        /\ Passed <=> (GoodRun # expectFailure)

(* Every run that is started is reported, also if the child hangs.          *)
EveryRunIsReported == (child \notin {"absent", "unborn"}) ~> (result # "none")
=============================================================================
