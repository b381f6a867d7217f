---------------------------- MODULE ReplayWriter ----------------------------
(***************************************************************************)
(* The writers of cli/replay_writer.cpp: RawReplayChunkWriter and           *)
(* ZstdReplayChunkWriter, on a stream that may fail at any write.           *)
(*                                                                          *)
(* An encoded record is two bytes here, so that one can be cut in half; a   *)
(* byte is named by the record it is of.  The bytes that zstd has been      *)
(* given are its input: what can be decompressed from the file is what is   *)
(* called the file, and the last block of the frame is a byte of its own.   *)
(***************************************************************************)
EXTENDS Integers, Sequences, SequencesExt

VARIABLES
    writer,    \* "none", "raw" or "zstd"
    gone,      \* it has been destroyed
    handed,    \* the kinds of the records given to writeChunk
    stream,    \* the output: the bytes in the file and in the buffer; badbit
    context,   \* zstd: bytes that have been consumed and are not written yet
    finished   \* _finished, or the raw writer's finish has returned

writerVars == <<writer, gone, handed, stream, context, finished>>

FrameEnd == <<0, "frame">>   \* the last block of a zstd frame

Init ==
    /\ writer = "none" /\ gone = FALSE
    /\ handed = <<>>
    /\ stream = [file |-> <<>>, buffer |-> <<>>, bad |-> FALSE]
    /\ context = <<>>
    /\ finished = FALSE

RecordBytes(n) == <<<<n, "first">>, <<n, "second">>>>

\* The i-th byte of the records one after the other.
ByteOf(i) == RecordBytes((i + 1) \div 2)[2 - (i % 2)]
Encoded == [i \in 1 .. 2 * Len(handed) |-> ByteOf(i)]

First(s, n) == SubSeq(s, 1, n)
Rest(s, n) == SubSeq(s, n + 1, Len(s))

-----------------------------------------------------------------------------
(* std::ostream, external.  A write goes to the buffer, and any part of the  *)
(* buffer may go to the file.  A device that refuses bytes goes on doing so; *)
(* badbit stays set and what is in the buffer is lost.                       *)

Failures(s, data) ==
    {[s EXCEPT !.file = @ \o First(data, n), !.buffer = <<>>, !.bad = TRUE] :
        n \in 0 .. Len(data) - 1}

\* writeBytesToStream throws when the stream it leaves is bad.
Written(s, data) ==
    LET all == s.buffer \o data IN
    IF s.bad \/ data = <<>> THEN {s}
    ELSE {[s EXCEPT !.file = @ \o First(all, n), !.buffer = Rest(all, n)] : n \in 0 .. Len(all)}
            \cup Failures(s, all)

Flushed(s) ==
    IF s.bad THEN {s}
    ELSE {[s EXCEPT !.file = @ \o s.buffer, !.buffer = <<>>]} \cup Failures(s, s.buffer)

-----------------------------------------------------------------------------
(* The writers.                                                             *)

Open == writer # "none" /\ ~gone

\* openReplayFile and createRawReplayChunkWriter or createZstdReplayChunkWriter.
Create(kind) ==
    /\ writer = "none"
    /\ writer' = kind
    /\ UNCHANGED <<gone, handed, stream, context, finished>>

RawWrite(chunk, ok) ==
    /\ writer = "raw"
    /\ stream' \in Written(stream, chunk)
    /\ ok = ~stream'.bad
    /\ UNCHANGED context

\* zstd may keep any part of its input for later; an error of zstd itself leaves
\* the chunk out.
ZstdWrite(chunk, ok) ==
    LET pending == context \o chunk IN
    /\ writer = "zstd"
    /\ \/ \E n \in 0 .. Len(pending) :
             /\ stream' \in Written(stream, First(pending, n))
             /\ context' = Rest(pending, n)
             \* Nothing is looked at when nothing is written.
             /\ ok = (n = 0 \/ ~stream'.bad)
       \/ ~ok /\ UNCHANGED <<stream, context>>

\* writeChunk returns if ok, else it throws.
writeChunk(kind, ok) ==
    LET chunk == RecordBytes(Len(handed) + 1) IN
    /\ Open
    /\ handed' = Append(handed, kind)
    /\ RawWrite(chunk, ok) \/ ZstdWrite(chunk, ok)
    /\ UNCHANGED <<writer, gone, finished>>

\* The stream is flushed, and its state tested.
Flush(s, ok) == stream' \in Flushed(s) /\ ok = ~stream'.bad

\* Mutant of FinishOutcome: the state of the stream after the flush is not tested.
FinishOutcome_Unchecked(s, ok) ==
    \/ \E written \in Written(s, IF writer = "zstd" THEN Append(context, FrameEnd) ELSE <<>>) :
          stream' \in Flushed(written) /\ context' = <<>> /\ ok
    \/ writer = "zstd" /\ ~ok /\ UNCHANGED <<stream, context>>

\* The frame is ended, then the stream flushed; zstd may report an error.
FinishOutcome(s, ok) ==
    \/ \E written \in Written(s, IF writer = "zstd" THEN Append(context, FrameEnd) ELSE <<>>) :
          /\ IF written.bad THEN stream' = written /\ ~ok ELSE Flush(written, ok)
          /\ context' = <<>>
    \/ writer = "zstd" /\ ~ok /\ UNCHANGED <<stream, context>>

finish(ok) ==
    /\ Open /\ ~finished
    /\ FinishOutcome(stream, ok)
    /\ finished' = ok
    /\ UNCHANGED <<writer, gone, handed>>

\* The destructor finishes, and swallows what is thrown; a zstd writer that has
\* finished does not do so again.
Destroy ==
    /\ Open
    /\ IF writer = "zstd" /\ finished THEN UNCHANGED <<stream, context>>
       ELSE \E ok \in BOOLEAN : FinishOutcome(stream, ok)
    /\ gone' = TRUE
    /\ UNCHANGED <<writer, handed, finished>>
=============================================================================
