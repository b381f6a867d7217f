------------------------------ MODULE Playback ------------------------------
(***************************************************************************)
(* Playing a replay file: IstreamAdapter, which reads the file in chunks    *)
(* into a buffer, ReplayStreamDecoder, which takes records out of it, and   *)
(* the loop of runPlaybackMode, which publishes them to the user interface. *)
(*                                                                          *)
(* One iteration of the loop is one step; nothing else touches the decoder. *)
(* The file may be cut off anywhere, and reading may fail at that point.    *)
(***************************************************************************)
EXTENDS ReplayFormat

CONSTANTS
    Chunk,      \* the size of the chunks in ensureBuffered
    CanQuit     \* the user interface can ask to stop

VARIABLES
    replay, cut,  \* the records of the file, and how many bytes of them it has
    failure,      \* what the stream reports after the last byte: "eof" or "bad"
    input,        \* the stream and the adapter, see Input
    phase,        \* ReplayParsePhase
    shown,        \* the records published
    pc,           \* "header", "loop" or "done"
    exitCode,
    quit          \* ui.shouldStop()

file == <<replay, cut, failure>>
vars == <<file, input, phase, shown, pc, exitCode, quit>>

Input == [read : Nat,                    \* bytes taken from the stream
          io : {"good", "eof", "bad"},   \* the state of the stream
          ended : BOOLEAN,               \* _stream_ended
          size : Nat, cursor : Nat]      \* _buffer.size(), _cursor

Init ==
    /\ replay \in Replays
    /\ cut \in 0 .. Bytes(replay)
    /\ failure \in {"eof", "bad"}
    /\ input = [read |-> 0, io |-> "good", ended |-> FALSE, size |-> 0, cursor |-> 0]
    /\ phase = "Header"
    /\ shown = <<>>
    /\ pc = "header"
    /\ exitCode = 0
    /\ quit = FALSE

-----------------------------------------------------------------------------
(* IstreamAdapter.                                                          *)

has(in, n) == in.cursor + n <= in.size

\* Chunks are read until n bytes are there.  The stream fails on the chunk it
\* cannot fill; that it has ended is noticed when a read brings nothing.
ensureBuffered(in, n) ==
    LET missing == in.cursor + n - in.size
        wanted == ((missing + Chunk - 1) \div Chunk) * Chunk
        left == cut - in.read
    IN  IF missing <= 0 \/ in.ended THEN in
        ELSE IF in.io = "good" /\ wanted <= left
        THEN [in EXCEPT !.read = @ + wanted, !.size = @ + wanted]
        ELSE [in EXCEPT !.read = cut, !.size = @ + left, !.io = failure,
                        !.ended = left < missing]

compactBuffer(in) ==
    IF in.cursor * 2 < in.size THEN in
    ELSE [in EXCEPT !.size = @ - in.cursor, !.cursor = 0]

\* The fields of a record are taken out one after the other; the compactions in
\* between only move the bytes of the buffer.
skip(in, n) == compactBuffer([in EXCEPT !.cursor = @ + n])

-----------------------------------------------------------------------------
(* ReplayStreamDecoder.                                                     *)

\* The record the decoder is at.
Current(in) == RecordAt(replay, in.read - in.size + in.cursor)

\* The number of bytes canReadHeader and canReadNextRecord ask for: the prefix
\* that tells the size has been asked for before, which reads no other chunks.
\* An end marker has three bytes, two are asked for.
Needs(r) == CASE r.kind \in {"header", "tick"} -> r.size
              [] r.kind = "end" -> 2
              [] r.kind = "other" -> 1

canRead(in, r) == r.kind # "other" /\ has(ensureBuffered(in, Needs(r)), Needs(r))

\* Mutant of Truncated: what canReadNextRecord has seen is taken for granted.
Truncated_Never(in, r) == FALSE

\* nextTick has asked again, after the prefix, for the rest of the record.
Truncated(in, r) == ~has(in, r.size)

-----------------------------------------------------------------------------
(* runPlaybackMode.                                                         *)

Fail == exitCode' = 1 /\ pc' = "done" /\ UNCHANGED <<phase, shown>>

ReadHeader ==
    LET r == Current(input)
        in == ensureBuffered(input, Needs(r))
    IN
    /\ pc = "header"
    /\ IF canRead(input, r) /\ Accepted(r)
       THEN /\ input' = skip(in, r.size)
            /\ phase' = "Tick"
            /\ shown' = <<r>>
            /\ pc' = "loop"
            /\ UNCHANGED exitCode
       ELSE /\ input' = in
            /\ Fail
    /\ UNCHANGED <<file, quit>>

\* A record that can be read is decoded and published.
PlayRecord ==
    LET r == Current(input)
        in == ensureBuffered(input, r.size)
    IN
    /\ pc = "loop" /\ ~quit
    /\ canRead(input, r)
    /\ IF Accepted(r) /\ ~Truncated(in, r)
       THEN /\ input' = skip(in, r.size)
            /\ shown' = Append(shown, r)
            /\ phase' = IF r.kind = "end" THEN "End" ELSE "Tick"
            /\ pc' = IF r.kind = "end" THEN "done" ELSE "loop"
            /\ UNCHANGED exitCode
       ELSE input' = in /\ Fail
    /\ UNCHANGED <<file, quit>>

\* No record can be read: an error if the stream has failed, else the loop
\* sleeps and tries again.
PlayNothing ==
    LET r == Current(input) IN
    /\ pc = "loop" /\ ~quit
    /\ ~canRead(input, r)
    /\ input' = ensureBuffered(input, Needs(r))
    /\ IF input'.io # "good" THEN Fail ELSE UNCHANGED <<phase, shown, pc, exitCode>>
    /\ UNCHANGED <<file, quit>>

\* The user quits: the loop ends at its next test.
RequestStop ==
    /\ CanQuit /\ ~quit
    /\ quit' = TRUE
    /\ UNCHANGED <<file, input, phase, shown, pc, exitCode>>

Stop ==
    /\ pc = "loop" /\ quit
    /\ pc' = "done"
    /\ UNCHANGED <<file, input, phase, shown, exitCode, quit>>

Loop == ReadHeader \/ PlayRecord \/ PlayNothing \/ Stop

Next == Loop \/ RequestStop

Spec == Init /\ [][Next]_vars

-----------------------------------------------------------------------------
(* Properties.                                                              *)

TypeOK ==
    /\ input \in Input
    /\ input.cursor <= input.size /\ input.size <= input.read /\ input.read <= cut
    /\ phase \in {"Header", "Tick", "End"}
    /\ pc \in {"header", "loop", "done"}
    /\ exitCode \in {0, 1}
    /\ quit \in BOOLEAN

(* Replays are "produced by replay static encoders" and "consumed by        *)
(* ReplayStreamDecoder" (docs/replay-binary-format.md): a replay that the   *)
(* encoders have written completely is played without an error.             *)
RecordedReplaysPlay == cut = Bytes(replay) /\ failure = "eof" => exitCode = 0
=============================================================================
