------------------------------ MODULE Program ------------------------------
(***************************************************************************)
(* The two executables as a whole: corertt_headless, which records a match; *)
(* corertt in live mode, which shows and may record one; and corertt in     *)
(* playback mode, which shows a recorded one.  The module composes          *)
(*   - ReplayWriter, the writers of replay files,                           *)
(*   - Playback, the decoder and its loop, and                              *)
(*   - Tui, the two threads of the user interface.                          *)
(* The main thread of corertt is that of Tui; at the places where it        *)
(* publishes, it also takes a step of the writer or of the decoder.         *)
(***************************************************************************)
EXTENDS ReplayFormat

CONSTANTS
    Chunk,     \* see Playback
    MaxTick    \* bound on the ticks of a match

ASSUME ProgramAssumption == {Chunk, MaxTick} \subseteq Nat \ {0}

VARIABLES
    mode,         \* "headless", "live" or "playback"
    exit,         \* "none", "0", "1" or "killed"
    code,         \* the exit code that a match is going to have
    pcHeadless,   \* runHeadlessLiveMode: "setup", "header", "loop", "end", "finish",
                  \*   "unwind", "return", "done"
    \* ReplayWriter
    writer, gone, handed, stream, context, finished,
    \* Playback
    replay, cut, failure, input, phase, shown, pcPlayback, exitCode, sawStop,
    \* Tui
    pcMain, owed, progress, error, stop, queue, ui, view, viewError, history

W == INSTANCE ReplayWriter

\* What the loop knows of the stop token is what its last test has told it.
P == INSTANCE Playback WITH pc <- pcPlayback, quit <- sawStop, CanQuit <- TRUE

T == INSTANCE Tui WITH pc <- pcMain, live <- (mode = "live")

writerVars == <<writer, gone, handed, stream, context, finished>>
playbackVars == <<replay, cut, failure, input, phase, shown, pcPlayback, exitCode, sawStop>>
tuiVars == <<pcMain, owed, progress, error, stop, queue, ui, view, viewError, history>>
vars == <<mode, exit, code, pcHeadless, writerVars, playbackVars, tuiVars>>

Init ==
    /\ mode \in {"headless", "live", "playback"}
    /\ exit = "none" /\ code = "0"
    /\ pcHeadless = "setup"
    /\ W!Init
    /\ P!Init
    /\ T!Init
    \* Only playback reads a file.
    /\ mode # "playback" => /\ replay = CHOOSE r \in Replays : TRUE
                            /\ cut = 0 /\ failure = "eof"

-----------------------------------------------------------------------------
(* runHeadlessLiveMode.                                                     *)

Headless(from, to) ==
    /\ mode = "headless" /\ exit = "none"
    /\ pcHeadless = from /\ pcHeadless' = to
    /\ UNCHANGED <<mode, playbackVars, tuiVars>>

\* createWorldFromOptions, openReplayFile and the writer; or one of them throws.
HeadlessSetup ==
    /\ \/ /\ Headless("setup", "header")
          /\ \E kind \in {"raw", "zstd"} : W!Create(kind)
       \/ Headless("setup", "unwind") /\ UNCHANGED writerVars
    /\ UNCHANGED <<exit, code>>

HeadlessHeader ==
    /\ \/ Headless("header", "loop") /\ W!writeChunk("header", TRUE)
       \/ Headless("header", "unwind") /\ W!writeChunk("header", FALSE)
    /\ UNCHANGED <<exit, code>>

Ticks == Len(SelectSeq(handed, LAMBDA k : k = "tick"))

\* A turn: the match goes on, is over or drawn, or a signal has come.
HeadlessTurn ==
    /\ \/ /\ Headless("loop", "loop") /\ Ticks + 1 < MaxTick
          /\ W!writeChunk("tick", TRUE) /\ UNCHANGED code
       \/ Headless("loop", "end") /\ W!writeChunk("tick", TRUE) /\ code' \in {"0", "1"}
       \/ Headless("loop", "unwind") /\ W!writeChunk("tick", FALSE) /\ UNCHANGED code
    /\ UNCHANGED exit

HeadlessEnd ==
    /\ \/ Headless("end", "finish") /\ W!writeChunk("end", TRUE)
       \/ Headless("end", "unwind") /\ W!writeChunk("end", FALSE)
       \/ Headless("finish", "return") /\ W!finish(TRUE)
       \/ Headless("finish", "unwind") /\ W!finish(FALSE)
    /\ UNCHANGED <<exit, code>>

\* An exception on its way to main.
HeadlessUnwind ==
    /\ Headless("unwind", "return")
    /\ code' = "1"
    /\ UNCHANGED <<exit, writerVars>>

\* The writer is destroyed, if there is one, and main returns.
HeadlessReturn ==
    /\ Headless("return", "done")
    /\ IF writer = "none" THEN UNCHANGED writerVars ELSE W!Destroy
    /\ exit' = code
    /\ UNCHANGED code

\* SIGKILL, or a power failure: what is in the buffers is lost.
Kill ==
    /\ mode = "headless" /\ exit = "none"
    /\ exit' = "killed"
    /\ UNCHANGED <<mode, code, pcHeadless, writerVars, playbackVars, tuiVars>>

HeadlessStep ==
    \/ HeadlessSetup \/ HeadlessHeader \/ HeadlessTurn \/ HeadlessEnd
    \/ HeadlessUnwind \/ HeadlessReturn

-----------------------------------------------------------------------------
(* What the two modes of corertt share.                                     *)

Corertt == mode # "headless" /\ exit = "none" /\ UNCHANGED <<mode, pcHeadless>>

\* Nothing but the user interface takes part.
Interface == Corertt /\ UNCHANGED <<exit, code, writerVars, playbackVars>>

Start == Interface /\ T!Start
Notify == Interface /\ T!Notify
EnterLoop == Interface /\ T!EnterLoop
Join == Interface /\ T!Join

\* The handler of exceptions; a writer has been destroyed before it is entered.
RequestStop ==
    /\ Corertt /\ ~W!Open
    /\ T!RequestStop
    /\ code' = "1"
    /\ UNCHANGED <<exit, writerVars, playbackVars>>

Return ==
    /\ Corertt /\ pcMain = "joined" /\ ~W!Open
    /\ exit' = IF exitCode = 1 THEN "1" ELSE code
    /\ UNCHANGED <<code, writerVars, playbackVars, tuiVars>>

UiThread ==
    \/ Interface /\ T!BeginLoop
    \/ Interface /\ T!HandleUpdate
    \/ Interface /\ T!HandleStop

PressQuit == Interface /\ T!PressQuit

-----------------------------------------------------------------------------
(* runLiveMode.                                                             *)

Live == mode = "live" /\ Corertt /\ UNCHANGED <<exit, code, playbackVars>>

\* createWorldFromOptions, openReplayFile and the writer, if a file was asked for.
LiveCreate ==
    /\ Live /\ pcMain = "open" /\ ~owed /\ writer = "none"
    /\ \/ (\E kind \in {"raw", "zstd"} : W!Create(kind)) /\ UNCHANGED tuiVars
       \/ T!Throw /\ UNCHANGED writerVars

\* The record is written, if there is a writer, and then published.
Written(kind, ok) == IF W!Open THEN W!writeChunk(kind, ok) ELSE ok /\ UNCHANGED writerVars

LiveHeader ==
    /\ Live /\ pcMain = "open" /\ ~owed
    /\ \/ Written("header", TRUE) /\ T!PublishHeader
       \/ Written("header", FALSE) /\ T!Throw

LiveTurn ==
    /\ Live /\ pcMain = "body"
    /\ \/ Written("tick", TRUE) /\ \E to \in {"loop", "finish"} : T!PublishTick(to)
       \/ Written("tick", FALSE) /\ T!Throw

LiveLeave == Live /\ T!LeaveLoop /\ UNCHANGED writerVars

Ended == handed # <<>> /\ Last(handed) = "end"

LiveEnd ==
    /\ Live /\ pcMain = "finish" /\ ~owed
    /\ \/ ~W!Open /\ UNCHANGED writerVars /\ T!PublishEnd
       \/ W!Open /\ ~Ended /\ W!writeChunk("end", TRUE) /\ UNCHANGED tuiVars
       \/ W!Open /\ ~Ended /\ W!writeChunk("end", FALSE) /\ T!Throw
       \/ W!Open /\ Ended /\ W!finish(TRUE) /\ T!PublishEnd
       \/ W!Open /\ Ended /\ W!finish(FALSE) /\ T!Throw

\* On the way to the handler, or when wait has returned.
LiveDestroy == Live /\ pcMain \in {"unwind", "joined"} /\ W!Destroy /\ UNCHANGED tuiVars

LiveStep == LiveCreate \/ LiveHeader \/ LiveTurn \/ LiveLeave \/ LiveEnd \/ LiveDestroy

-----------------------------------------------------------------------------
(* runPlaybackMode.                                                         *)

Play == mode = "playback" /\ Corertt /\ UNCHANGED <<exit, code, writerVars>>

\* The file cannot be opened.
PlayNoFile ==
    /\ Play /\ pcMain = "open" /\ pcPlayback = "header"
    /\ T!Throw
    /\ UNCHANGED playbackVars

PlayHeader ==
    /\ Play /\ pcMain = "open"
    /\ P!ReadHeader
    /\ IF pcPlayback' = "loop" THEN T!PublishHeader ELSE T!PublishError("open")

PlayRecord ==
    /\ Play /\ pcMain = "body"
    /\ P!PlayRecord
    /\ CASE exitCode' = 1 -> T!PublishError("body")
         [] exitCode' = 0 /\ pcPlayback' = "done" -> T!PublishEnd
         [] OTHER -> T!PublishTick("loop")

PlayNothing ==
    /\ Play /\ pcMain = "body"
    /\ P!PlayNothing
    /\ IF pcPlayback' = "done" THEN T!PublishError("body") ELSE T!FindNothing

\* shouldStop returns true, and the loop is left.
PlaySawStop ==
    /\ Play /\ pcMain = "loop" /\ ~owed /\ stop
    /\ P!RequestStop
    /\ UNCHANGED tuiVars

PlayLeave == Play /\ P!Stop /\ T!LeaveLoop

PlayStep == PlayNoFile \/ PlayHeader \/ PlayRecord \/ PlayNothing \/ PlaySawStop \/ PlayLeave

-----------------------------------------------------------------------------

Main == HeadlessStep \/ Start \/ Notify \/ EnterLoop \/ LiveStep \/ PlayStep
            \/ RequestStop \/ Join \/ Return

Next == Main \/ UiThread \/ PressQuit \/ Kill

Spec == Init /\ [][Next]_vars

\* Both threads are scheduled; nobody has to press a key, and nothing has to be killed.
FairSpec == Spec /\ WF_vars(Main) /\ WF_vars(UiThread)

-----------------------------------------------------------------------------
(* Properties.                                                              *)

TypeOK ==
    /\ P!TypeOK /\ T!TypeOK
    /\ writer \in {"none", "raw", "zstd"}
    /\ finished => writer # "none"
    /\ exit \in {"none", "0", "1", "killed"}

Status ==
    CASE phase = "End" -> "ended"
      [] phase # "End" /\ exitCode = 1 -> "failed"
      [] phase # "End" /\ exitCode # 1 /\ pcPlayback = "done" -> "stopped"
      [] OTHER -> "reading"

Reader == INSTANCE ReplayReader WITH tolerant <- FALSE, status <- Status

(* Playback is a reader of replays: whatever the chunk size, wherever the   *)
(* file is cut off and whenever the user quits, it shows the complete and   *)
(* acceptable records in order and nothing else, and reports an error       *)
(* exactly when the end marker cannot be reached.                           *)
PlaybackIsAReader == Reader!Spec

(* The replay file never has a hole: at any time, also after a failed write *)
(* or a kill, it holds a beginning of what has been encoded.  And the exit  *)
(* code can be trusted: after 0, and after a signal that was handled, the   *)
(* file holds the whole match with its end marker, the frame closed.        *)
FileTellsTheMatch ==
    LET closed == stream.file # <<>> /\ Last(stream.file) = W!FrameEnd
        bytes == IF closed THEN Front(stream.file) ELSE stream.file
    IN
    /\ IsPrefix(bytes, W!Encoded)
    /\ exit = "0" /\ writer # "none" => finished
    /\ finished => /\ Ended /\ bytes = W!Encoded
                   /\ (writer = "zstd") <=> closed

(* What is shown follows what is published, see Tui.                        *)
ViewFollows == T!ViewFollows

TickCount(records) == Len(SelectSeq(records, LAMBDA r : r.kind = "tick"))

(* Nothing is lost between the file and the screen: when the main thread    *)
(* waits for the user, the view gets to show what was published last, and   *)
(* in playback that is the last tick that can be decoded from the file,     *)
(* with the end marker or an error, although events are posted outside the  *)
(* lock.                                                                    *)
FinalStateIsShown ==
    (pcMain = "wait") ~>
        \/ stop
        \/ /\ view = progress /\ (error => viewError)
           /\ mode = "playback" =>
                 /\ view.tick = TickCount(Decodable(replay, cut))
                 /\ IF Complete(replay, cut) THEN view.phase = "End" ELSE viewError

(* The program ends when it should: a headless match by itself; corertt     *)
(* when the user quits or something fails.  And both modes of corertt get   *)
(* to the point where they only wait for the user, playback provided that   *)
(* the file has no record of an unknown type.                               *)
ProgramEnds ==
    /\ (mode = "headless" \/ stop \/ pcMain = "unwind") ~> (exit # "none")
    /\ (mode = "live" \/ (mode = "playback" /\ \A i \in 1 .. Len(replay) : replay[i].kind # "other"))
          ~> (pcMain = "wait" \/ exit # "none")
=============================================================================
