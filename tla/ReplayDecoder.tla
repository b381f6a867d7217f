--------------------------- MODULE ReplayDecoder ---------------------------
(***************************************************************************)
(* The replay decoder of js/corereplay: ReplayDecoderCore, to which bytes   *)
(* are pushed in chunks of any size, and decodeReplayStream, which pushes   *)
(* the chunks of a stream and reads every record they complete.             *)
(* decodeReplay is the case of a single chunk.                              *)
(***************************************************************************)
EXTENDS ReplayFormat

CONSTANTS ChunkSizes   \* the sizes of the chunks that the stream yields

ASSUME ChunkAssumption == ChunkSizes \subseteq Nat

VARIABLES
    replay, cut,     \* the records of the stream, and how many bytes of them come
    strict,          \* is_strict
    pushed,          \* bytes pushed so far
    length, cursor,  \* buffer.length, cursor
    bufferStart,     \* buffer_start
    phase,           \* ParsePhase
    events,          \* the records yielded
    synthesized,     \* the end marker is the one of synthesizeAbortedEndMarker
    pc               \* "push", "read", "done" or "error"

stream == <<replay, cut, strict>>
vars == <<stream, pushed, length, cursor, bufferStart, phase, events, synthesized, pc>>

Init ==
    /\ replay \in Replays
    /\ cut \in 0 .. Bytes(replay)
    /\ strict \in BOOLEAN
    /\ pushed = 0
    /\ length = 0 /\ cursor = 0 /\ bufferStart = 0
    /\ phase = "Header"
    /\ events = <<>>
    /\ synthesized = FALSE
    /\ pc = "push"

-----------------------------------------------------------------------------
(* ReplayDecoderCore.                                                       *)

\* Mutant of Unread: the bytes that have been read are kept.
Unread_WithRead == length

Unread == length - cursor

\* The unread bytes and the chunk become the buffer.
Push(n) ==
    /\ pc = "push"
    /\ pushed + n <= cut
    /\ pushed' = pushed + n
    /\ IF n = 0 THEN UNCHANGED <<length, cursor>> ELSE length' = Unread + n /\ cursor' = 0
    /\ pc' = "read"
    /\ UNCHANGED <<stream, bufferStart, phase, events, synthesized>>

\* compact, after the cursor has moved to c.
Compacted(c) ==
    IF c * 2 >= length
    THEN /\ bufferStart' = bufferStart + c
         /\ length' = length - c
         /\ cursor' = 0
    ELSE cursor' = c /\ UNCHANGED <<length, bufferStart>>

\* The record at the cursor.
Current == RecordAt(replay, pushed - length + cursor)

\* Mutant of Available: a tick is read as soon as its size is known.
Available_PrefixOnly(r) ==
    length - cursor >= CASE r.kind = "header" -> r.size
                       [] r.kind = "tick" -> TickPrefix
                       [] r.kind = "end" -> EndSize
                       [] r.kind = "other" -> 1

\* The size is known when the prefix is there.
Available(r) ==
    length - cursor >= CASE r.kind \in {"header", "tick"} -> r.size
                       [] r.kind = "end" -> EndSize
                       [] r.kind = "other" -> 1

NeedMoreData ==
    /\ pc = "read"
    /\ ~Available(Current)
    /\ pc' = "push"
    /\ UNCHANGED <<stream, pushed, length, cursor, bufferStart, phase, events, synthesized>>

\* A record is parsed and yielded; nothing is read after an end marker.
ReadRecord ==
    /\ pc = "read"
    /\ Available(Current)
    /\ Current.kind # "other" /\ Accepted(Current)
    /\ events' = Append(events, Current)
    /\ phase' = IF Current.kind = "end" THEN "End" ELSE "Tick"
    /\ pc' = IF Current.kind = "end" THEN "done" ELSE "read"
    /\ Compacted(cursor + Current.size)
    /\ UNCHANGED <<stream, pushed, synthesized>>

\* ReplayDecodeError, from read or from one of the parsers.
ThrowOnRecord ==
    /\ pc = "read"
    /\ Available(Current)
    /\ Current.kind = "other" \/ ~Accepted(Current)
    /\ pc' = "error"
    /\ UNCHANGED <<stream, pushed, length, cursor, bufferStart, phase, events, synthesized>>

MustThrow == phase = "Header" \/ strict

\* The stream has ended without an end marker.
Finalize ==
    /\ pc = "push" /\ pushed = cut
    /\ IF MustThrow
       THEN pc' = "error" /\ UNCHANGED <<phase, synthesized>>
       ELSE pc' = "done" /\ phase' = "End" /\ synthesized' = TRUE
    /\ UNCHANGED <<stream, pushed, length, cursor, bufferStart, events>>

-----------------------------------------------------------------------------
(* Properties.                                                              *)

TypeOK ==
    /\ pushed \in 0 .. cut
    /\ length \in 0 .. pushed /\ cursor \in 0 .. length
    /\ bufferStart \in 0 .. pushed
    /\ phase \in {"Header", "Tick", "End"}
    /\ synthesized \in BOOLEAN
    /\ pc \in {"push", "read", "done", "error"}
=============================================================================
