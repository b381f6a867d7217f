--------------------------- MODULE AutotestProofs ---------------------------
(***************************************************************************)
(* The replay decoder of js/corereplay, for every replay, every cut of it   *)
(* and every size of chunks, is a reader of replays; and the verdict of     *)
(* js/core-autotest on a run is right.                                      *)
(***************************************************************************)
EXTENDS Autotest, ReplayFormatProofs

\* The record to be read next.
Coming == Len(events) + 1

\* The decoder has types.
DecoderOK ==
    /\ replay \in Replays
    /\ cut \in Nat
    /\ strict \in BOOLEAN
    /\ TypeOK

\* The cursor is at the start of a record: the one after those yielded.
AtARecord ==
    /\ Coming \in 1 .. Len(replay) + 1
    /\ pushed - length + cursor = StartOf(replay, Coming)

\* The bytes dropped by compact are bytes that have been pushed.
Dropped == bufferStart + length <= pushed

\* The records yielded are those of the stream, and good.
Yielded ==
    /\ events \in Seq(Records)
    /\ \A i \in 1 .. Len(events) : events[i] = replay[i] /\ Good(replay, cut, i)

\* The end marker ends the decoding; the phase is "Header" until the header has
\* been read; and a chunk is awaited only when it is needed.
Progress ==
    /\ (phase = "Header") <=> (Len(events) = 0)
    /\ \A i \in 1 .. Len(events) : events[i].kind = "end" => pc = "done"
    /\ pc = "push" => ~Available(Current)

\* Why there is nothing more to be read.
Stopped ==
    /\ pc = "error" => Len(events) = Readable(replay, cut)
    /\ pc = "done" /\ ~synthesized =>
           Len(events) > 0 /\ events[Len(events)].kind = "end"
    /\ synthesized => pc = "done" /\ ~strict

DecoderInv == DecoderOK /\ AtARecord /\ Dropped /\ Yielded /\ Progress /\ Stopped

\* A reported run has ended, with a verdict that still holds.
Reported ==
    result \notin {"none", "exception"} =>
        Ended /\ timer # "armed" /\ pc \in {"done", "error"} /\ result = Verdict

CaseInv ==
    /\ child \in {"absent", "unborn", "missing", "running", "0", "1", "signal"}
    /\ timer \in {"off", "armed", "fired"}
    /\ result \in {"none", "exception", "timeout", "signal", "exit code", "decode",
                   "assertion", "pass"}
    /\ timed_out \in BOOLEAN /\ expectFailure \in BOOLEAN
    /\ child # "absent" => strict
    /\ Reported

IInv == DecoderInv /\ CaseInv

-----------------------------------------------------------------------------
(* What the decoder sees.                                                   *)

(* A decoder takes the bytes at the cursor for the record that is to come,  *)
(* and after the last record for none.                                      *)
LEMMA CurrentRecord ==
    ASSUME DecoderInv
    PROVE  /\ Coming <= Len(replay) => Current = replay[Coming] /\ Coming \in 1 .. Len(replay)
           /\ Coming > Len(replay) => Current.kind = "other" /\ Coming = Len(replay) + 1
           /\ Len(events) \in Nat /\ Len(replay) \in Nat
<1>1. Len(events) \in Nat /\ Len(replay) \in Nat
  BY ReplayType DEF DecoderInv, DecoderOK, Yielded
<1>2. Current = RecordAt(replay, StartOf(replay, Coming))
  BY DEF Current, DecoderInv, AtARecord
<1>3. Coming <= Len(replay) => Coming \in 1 .. Len(replay)
  BY <1>1 DEF Coming
<1>4. Coming > Len(replay) => Coming = Len(replay) + 1
  BY <1>1 DEF DecoderInv, AtARecord
<1>5. QED
  BY <1>1, <1>2, <1>3, <1>4, RecordsAreFound DEF DecoderInv, DecoderOK, Bytes

(* A record that can be recognised is available when the bytes pushed go    *)
(* to its end.                                                              *)
LEMMA WhenAvailable ==
    ASSUME DecoderInv, Coming <= Len(replay)
    PROVE  /\ StartOf(replay, Coming + 1) = pushed - length + cursor + replay[Coming].size
           /\ StartOf(replay, Coming + 1) \in Nat
           /\ replay[Coming].size \in Nat \ {0}
           /\ replay[Coming].kind # "other" =>
                 (Available(Current) <=> StartOf(replay, Coming + 1) <= pushed)
           /\ ~Available(Current) => pushed < StartOf(replay, Coming + 1)
<1>1. Coming \in 1 .. Len(replay) /\ Current = replay[Coming]
  BY CurrentRecord
<1>2. replay \in Replays /\ replay[Coming] \in Records
  BY <1>1, ReplayType DEF DecoderInv, DecoderOK
<1>3. /\ replay[Coming].size \in Nat \ {0}
      /\ replay[Coming].kind = "end" => replay[Coming].size = EndSize
  BY <1>1, <1>2, ReplayType
<1>4. replay[Coming].kind \in Kinds
  BY <1>2 DEF Records
<1>5. StartOf(replay, Coming + 1) = pushed - length + cursor + replay[Coming].size
  BY <1>1, <1>2, StartsAddUp DEF DecoderInv, AtARecord
<1>6. pushed \in Nat /\ length \in Nat /\ cursor \in Nat /\ length <= pushed
  BY DEF DecoderInv, DecoderOK, TypeOK
<1>7. StartOf(replay, Coming + 1) \in Nat
  BY <1>3, <1>5, <1>6
<1>8. replay[Coming].kind # "other" =>
          (Available(Current) <=> length - cursor >= replay[Coming].size)
  BY <1>1, <1>3, <1>4 DEF Available, Kinds
<1>9. replay[Coming].kind = "other" => (Available(Current) <=> length - cursor >= 1)
  BY <1>1 DEF Available
<1>10. QED
  BY <1>3, <1>5, <1>6, <1>7, <1>8, <1>9

(* The decoder has got as far as one can when the record to come is not     *)
(* there or not good.                                                       *)
LEMMA NothingMore ==
    ASSUME DecoderInv, Coming <= Len(replay) => ~Good(replay, cut, Coming)
    PROVE  Len(events) = Readable(replay, cut)
<1>1. Len(events) \in 0 .. Len(replay)
  BY CurrentRecord DEF Coming
<1>2. Len(events) < Len(replay) => ~Good(replay, cut, Len(events) + 1)
  BY CurrentRecord DEF Coming
<1>3. QED
  BY <1>1, <1>2, ReadableIs DEF DecoderInv, DecoderOK, Yielded

-----------------------------------------------------------------------------
(* The steps of the decoder.                                                *)

(* A new decoder is at the header, which has not been pushed.               *)
LEMMA DecoderStarts ==
    ASSUME Init
    PROVE  DecoderInv
<1>1. replay \in Replays /\ cut \in Nat /\ strict \in BOOLEAN
  <2>1. replay \in Replays /\ cut \in 0 .. Bytes(replay)
    BY DEF Init
  <2>2. QED
    BY <2>1 DEF Init
<1>2. DecoderOK
  <2>1. /\ pushed = 0 /\ length = 0 /\ cursor = 0 /\ bufferStart = 0
        /\ phase = "Header" /\ synthesized = FALSE /\ pc = "push"
    BY DEF Init
  <2>2. /\ pushed \in 0 .. cut /\ length \in 0 .. pushed /\ cursor \in 0 .. length
        /\ bufferStart \in 0 .. pushed
    BY <1>1, <2>1
  <2>3. synthesized \in BOOLEAN
    BY <2>1
  <2>4. QED
    BY <1>1, <2>1, <2>2, <2>3 DEF DecoderOK, TypeOK
<1>3. Coming = 1 /\ Len(events) = 0
  BY DEF Init, Coming
<1>4. Len(replay) \in Nat \ {0}
  BY <1>1, ReplayType
<1>5. AtARecord
  BY <1>1, <1>3, <1>4, StartsAddUp DEF AtARecord, Init
<1>6. Dropped
  BY DEF Init, Dropped
<1>7. Yielded
  <2>1. events \in Seq(Records)
    BY DEF Init
  <2>2. QED
    BY <1>3, <2>1 DEF Yielded
<1>8. Progress
  <2>1. Current = replay[1]
    <3>1. 1 \in 1 .. Len(replay)
      BY <1>4
    <3>2. QED
      BY <1>1, <1>3, <1>5, <3>1, RecordsAreFound DEF Current, AtARecord
  <2>2. replay[1].size \in Nat \ {0} /\ replay[1].kind = "header"
    BY <1>1, <1>4, ReplayType, ReplayAssumption
  <2>3. ~Available(Current)
    BY <2>1, <2>2 DEF Available, Init
  <2>4. QED
    BY <1>3, <2>3 DEF Progress, Init
<1>9. Stopped
  BY DEF Init, Stopped
<1>10. QED
  BY <1>2, <1>5, <1>6, <1>7, <1>8, <1>9 DEF DecoderInv

(* Nothing changes for the decoder when its variables do not.               *)
LEMMA DecoderIdle ==
    ASSUME DecoderInv, UNCHANGED vars
    PROVE  DecoderInv'
  BY DEF DecoderInv, vars, stream, DecoderOK, TypeOK, AtARecord, Coming, Dropped, Yielded,
         Progress, Available, Current, Stopped

(* A chunk: the unread bytes move to the start of the buffer, and the       *)
(* cursor stays where it is in the stream.                                  *)
LEMMA PushKeeps ==
    ASSUME DecoderInv, NEW n \in Nat, Push(n)
    PROVE  DecoderInv'
<1> USE DEF DecoderInv
<1>1. /\ pushed \in Nat /\ length \in Nat /\ cursor \in Nat /\ bufferStart \in Nat
      /\ length <= pushed /\ cursor <= length /\ bufferStart <= pushed
  BY DEF DecoderOK, TypeOK
<1>2. /\ pushed' = pushed + n /\ pushed' <= cut
      /\ bufferStart' = bufferStart
      /\ \/ length' = length /\ cursor' = cursor /\ n = 0
         \/ length' = length - cursor + n /\ cursor' = 0
      /\ pc = "push" /\ pc' = "read"
      /\ UNCHANGED <<replay, cut, strict, phase, events, synthesized>>
  BY DEF Push, Unread, stream
<1>3. DecoderOK'
  BY <1>1, <1>2 DEF DecoderOK, TypeOK
<1>4. AtARecord'
  BY <1>1, <1>2 DEF AtARecord, Coming
<1>5. Dropped'
  BY <1>1, <1>2 DEF Dropped
<1>6. Yielded'
  BY <1>2 DEF Yielded
<1>7. Progress' /\ Stopped'
  BY <1>2 DEF Progress, Stopped
<1>8. QED
  BY <1>3, <1>4, <1>5, <1>6, <1>7

(* A chunk is asked for only when the record to come is not available.      *)
LEMMA NeedMoreDataKeeps ==
    ASSUME DecoderInv, NeedMoreData
    PROVE  DecoderInv'
<1> USE DEF DecoderInv
<1>1. /\ pc = "read" /\ pc' = "push" /\ ~Available(Current)
      /\ UNCHANGED <<replay, cut, strict, pushed, length, cursor, bufferStart, phase,
                     events, synthesized>>
  BY DEF NeedMoreData, stream
<1>2. DecoderOK' /\ AtARecord' /\ Dropped' /\ Yielded'
  BY <1>1 DEF DecoderOK, TypeOK, AtARecord, Coming, Dropped, Yielded
<1>3. ~Available(Current)'
  BY <1>1 DEF Available, Current
<1>4. Progress' /\ Stopped'
  BY <1>1, <1>3 DEF Progress, Stopped
<1>5. QED
  BY <1>2, <1>4

(* A record that is read is the one to come, and good: it is complete in    *)
(* what has been pushed, and no end marker has been read.                   *)
LEMMA RecordRead ==
    ASSUME DecoderInv, ReadRecord
    PROVE  /\ Coming \in 1 .. Len(replay)
           /\ Current = replay[Coming]
           /\ Good(replay, cut, Coming)
           /\ StartOf(replay, Coming + 1) <= pushed
<1> USE DEF DecoderInv
<1>1. pc = "read" /\ Available(Current) /\ Current.kind # "other" /\ Accepted(Current)
  BY DEF ReadRecord
<1>2. Coming <= Len(replay)
  BY <1>1, CurrentRecord DEF AtARecord
<1>3. Coming \in 1 .. Len(replay) /\ Current = replay[Coming]
  BY <1>2, CurrentRecord
<1>4. StartOf(replay, Coming + 1) <= pushed /\ StartOf(replay, Coming + 1) \in Nat
  BY <1>1, <1>2, <1>3, WhenAvailable
<1>5. StartOf(replay, Coming + 1) <= cut
  BY <1>4 DEF DecoderOK, TypeOK
<1>6. Coming > 1 => replay[Coming - 1].kind # "end"
  <2>1. Coming > 1 => Coming - 1 = Len(events) /\ Len(events) \in 1 .. Len(events)
    BY CurrentRecord DEF Coming
  <2>2. QED
    BY <1>1, <2>1 DEF Yielded, Progress
<1>7. QED
  BY <1>1, <1>3, <1>4, <1>5, <1>6 DEF Good

(* A record is yielded: the cursor moves to the next one, whether or not    *)
(* compact drops the bytes before it.                                       *)
LEMMA ReadRecordKeeps ==
    ASSUME DecoderInv, ReadRecord
    PROVE  DecoderInv'
<1> USE DEF DecoderInv
<1> DEFINE r == replay[Coming]
           c == cursor + r.size
<1>1. /\ Coming \in 1 .. Len(replay) /\ Good(replay, cut, Coming)
      /\ StartOf(replay, Coming + 1) <= pushed
      /\ StartOf(replay, Coming + 1) = pushed - length + cursor + r.size
      /\ r.size \in Nat \ {0}
  BY RecordRead, WhenAvailable, CurrentRecord
<1>2. /\ pc = "read" /\ pc' = IF r.kind = "end" THEN "done" ELSE "read"
      /\ phase' = IF r.kind = "end" THEN "End" ELSE "Tick"
      /\ events' = Append(events, r)
      /\ \/ bufferStart' = bufferStart + c /\ length' = length - c /\ cursor' = 0
         \/ cursor' = c /\ length' = length /\ bufferStart' = bufferStart
      /\ UNCHANGED <<replay, cut, strict, pushed, synthesized>>
  BY RecordRead DEF ReadRecord, Compacted, stream
<1>3. /\ pushed \in Nat /\ length \in Nat /\ cursor \in Nat /\ bufferStart \in Nat
      /\ length <= pushed /\ cursor <= length /\ bufferStart <= pushed
      /\ bufferStart + length <= pushed
  BY DEF DecoderOK, TypeOK, Dropped
<1>4. c \in Nat /\ c <= length
  BY <1>1, <1>3
<1>5. replay \in Replays /\ r \in Records
  BY <1>1, ReplayType DEF DecoderOK
<1>6. /\ events' \in Seq(Records) /\ Len(events') = Coming
      /\ \A i \in 1 .. Len(events) : events'[i] = events[i]
      /\ events'[Coming] = r
      /\ Len(events) \in Nat /\ Len(replay) \in Nat
  BY <1>2, <1>5, CurrentRecord DEF Yielded, Coming
<1>7. DecoderOK'
  <2>1. phase' \in {"Header", "Tick", "End"} /\ pc' \in {"push", "read", "done", "error"}
    BY <1>2
  <2>2. bufferStart' \in 0 .. pushed /\ length' \in 0 .. pushed /\ cursor' \in 0 .. length'
    <3>1. CASE bufferStart' = bufferStart + c /\ length' = length - c /\ cursor' = 0
      BY <1>3, <1>4, <3>1
    <3>2. CASE cursor' = c /\ length' = length /\ bufferStart' = bufferStart
      BY <1>3, <1>4, <3>2
    <3>3. QED
      BY <1>2, <3>1, <3>2
  <2>3. QED
    BY <1>2, <2>1, <2>2 DEF DecoderOK, TypeOK
<1>8. AtARecord'
  <2>1. Coming' = Coming + 1
    BY <1>6 DEF Coming
  <2>2. pushed - length' + cursor' = pushed - length + cursor + r.size
    <3>1. CASE length' = length - c /\ cursor' = 0
      BY <1>1, <1>3, <3>1
    <3>2. CASE cursor' = c /\ length' = length
      BY <1>1, <1>3, <3>2
    <3>3. QED
      BY <1>2, <3>1, <3>2
  <2>3. Coming + 1 \in 1 .. Len(replay) + 1
    BY <1>1, <1>6
  <2>4. QED
    BY <1>1, <1>2, <2>1, <2>2, <2>3 DEF AtARecord
<1>9. Dropped'
  BY <1>2, <1>3, <1>4 DEF Dropped
<1>10. \A i \in 1 .. Len(events') : i \in 1 .. Len(events) \/ i = Coming
  BY <1>6 DEF Coming
<1>11. Yielded'
  <2>1. ASSUME NEW i \in 1 .. Len(events') PROVE events'[i] = replay[i] /\ Good(replay, cut, i)
    BY <1>1, <1>6, <1>10 DEF Yielded
  <2>2. QED
    BY <1>2, <1>6, <2>1 DEF Yielded
<1>12. Progress'
  <2>1. Len(events') # 0 /\ phase' # "Header"
    BY <1>2, <1>6 DEF Coming
  <2>2. ASSUME NEW i \in 1 .. Len(events'), events'[i].kind = "end" PROVE pc' = "done"
    BY <1>2, <1>6, <1>10, <2>2 DEF Progress
  <2>3. pc' # "push"
    BY <1>2
  <2>4. QED
    BY <2>1, <2>2, <2>3 DEF Progress
<1>13. Stopped'
  <2>1. pc' # "error" /\ ~synthesized'
    BY <1>2 DEF Stopped, DecoderOK, TypeOK
  <2>2. pc' = "done" => Len(events') > 0 /\ events'[Len(events')].kind = "end"
    BY <1>1, <1>2, <1>6
  <2>3. QED
    BY <2>1, <2>2 DEF Stopped
<1>14. QED
  BY <1>7, <1>8, <1>9, <1>11, <1>12, <1>13

(* A record that cannot be parsed is not good: all the good ones are out.   *)
LEMMA ThrowsWhenDelivered ==
    ASSUME DecoderInv, ThrowOnRecord
    PROVE  Len(events) = Readable(replay, cut)
<1>1. Current.kind = "other" \/ ~Accepted(Current)
  BY DEF ThrowOnRecord
<1>2. Coming <= Len(replay) => ~Good(replay, cut, Coming)
  BY <1>1, CurrentRecord DEF Good
<1>3. QED
  BY <1>2, NothingMore

(* A record that cannot be parsed ends the decoding.                        *)
LEMMA ThrowOnRecordKeeps ==
    ASSUME DecoderInv, ThrowOnRecord
    PROVE  DecoderInv'
<1> USE DEF DecoderInv
<1>1. /\ pc = "read" /\ pc' = "error"
      /\ UNCHANGED <<replay, cut, strict, pushed, length, cursor, bufferStart, phase,
                     events, synthesized>>
  BY DEF ThrowOnRecord, stream
<1>2. DecoderOK' /\ AtARecord' /\ Dropped' /\ Yielded'
  BY <1>1 DEF DecoderOK, TypeOK, AtARecord, Coming, Dropped, Yielded
<1>3. Progress'
  BY <1>1 DEF Progress
<1>4. Stopped'
  BY <1>1, ThrowsWhenDelivered DEF Stopped
<1>5. QED
  BY <1>2, <1>3, <1>4

(* At the end of the stream the record to come is not complete.             *)
LEMMA EndsWhenDelivered ==
    ASSUME DecoderInv, Finalize
    PROVE  /\ Len(events) = Readable(replay, cut)
           /\ Coming <= Len(replay) => cut < StartOf(replay, Coming + 1)
<1>1. pc = "push" /\ pushed = cut
  BY DEF Finalize
<1>2. ~Available(Current)
  BY <1>1 DEF DecoderInv, Progress
<1>3. Coming <= Len(replay) => cut < StartOf(replay, Coming + 1)
  BY <1>1, <1>2, WhenAvailable
<1>4. Coming <= Len(replay) => ~Good(replay, cut, Coming)
  <2>1. cut \in Nat /\ (Coming <= Len(replay) => StartOf(replay, Coming + 1) \in Nat)
    BY WhenAvailable DEF DecoderInv, DecoderOK
  <2>2. QED
    BY <1>3, <2>1 DEF Good
<1>5. QED
  BY <1>3, <1>4, NothingMore

(* So does the end of the stream; only a tolerant decoder that has the      *)
(* header makes up an end marker.                                           *)
LEMMA FinalizeKeeps ==
    ASSUME DecoderInv, Finalize
    PROVE  DecoderInv'
<1> USE DEF DecoderInv
<1>1. /\ pc = "push"
      /\ \/ pc' = "error" /\ UNCHANGED <<phase, synthesized>>
         \/ /\ pc' = "done" /\ phase' = "End" /\ synthesized' = TRUE
            /\ phase # "Header" /\ ~strict
      /\ UNCHANGED <<replay, cut, strict, pushed, length, cursor, bufferStart, events>>
  BY DEF Finalize, MustThrow, stream
<1>2. DecoderOK' /\ AtARecord' /\ Dropped' /\ Yielded'
  BY <1>1 DEF DecoderOK, TypeOK, AtARecord, Coming, Dropped, Yielded
<1>3. Progress'
  BY <1>1 DEF Progress
<1>4. Stopped'
  BY <1>1, EndsWhenDelivered DEF Stopped
<1>5. QED
  BY <1>2, <1>3, <1>4

(* Every step of a run leaves the decoder alone or is one of its steps.     *)
LEMMA DecoderKeeps ==
    ASSUME DecoderInv, [CaseNext]_allVars
    PROVE  DecoderInv'
<1>1. ASSUME NEW n \in ChunkSizes, Push(n) PROVE DecoderInv'
  BY <1>1, PushKeeps, ChunkAssumption
<1>2. CASE Decode
  BY <1>1, <1>2, NeedMoreDataKeeps, ReadRecordKeeps, ThrowOnRecordKeeps, FinalizeKeeps
     DEF Decode
<1>3. CASE Exit \/ Spawn \/ TimerFires \/ SpawnFails \/ Close \/ UNCHANGED allVars
  <2>1. UNCHANGED vars
    BY <1>3 DEF Exit, Spawn, TimerFires, SpawnFails, Close, allVars
  <2>2. QED
    BY <2>1, DecoderIdle
<1>4. QED
  BY <1>2, <1>3 DEF CaseNext, Runner

-----------------------------------------------------------------------------
(* The steps of a run.                                                      *)

(* What the verdict depends on.                                             *)
LEMMA VerdictStays ==
    ASSUME UNCHANGED <<child, timed_out, assertion, pc, events>>
    PROVE  Verdict' = Verdict
  BY DEF Verdict, evaluateAssertions

(* There is a verdict on every child that has ended.                        *)
LEMMA VerdictType ==
    ASSUME CaseInv, Ended
    PROVE  Verdict \in {"timeout", "signal", "exit code", "decode", "assertion", "pass"}
  BY DEF Verdict, CaseInv, Ended

(* A run is reported once, and nothing that its verdict depends on changes  *)
(* any more: the child has ended, the timer is off and the decoder done.    *)
LEMMA CaseKeeps ==
    ASSUME DecoderInv, CaseInv, [CaseNext]_allVars
    PROVE  CaseInv'
<1> USE DEF CaseInv
<1>1. CASE Exit
  <2>1. result \in {"none", "exception"} /\ result' = result
    BY <1>1 DEF Exit, Reported, Ended
  <2>2. UNCHANGED <<strict, timer, timed_out, expectFailure>>
    BY <1>1 DEF Exit, vars, stream
  <2>3. child' \in {"0", "1", "signal"} /\ child # "absent"
    BY <1>1 DEF Exit
  <2>4. QED
    BY <2>1, <2>2, <2>3 DEF Reported
<1>2. CASE Spawn
  <2>1. result \in {"none", "exception"} /\ result' = result
    BY <1>2 DEF Spawn, Reported, Ended
  <2>2. UNCHANGED <<strict, timed_out, expectFailure>> /\ timer' = "armed"
    BY <1>2 DEF Spawn, vars, stream
  <2>3. child' \in {"running", "missing"} /\ child # "absent"
    BY <1>2 DEF Spawn
  <2>4. QED
    BY <2>1, <2>2, <2>3 DEF Reported
<1>3. CASE TimerFires
  <2>1. result \in {"none", "exception"} /\ result' = result
    BY <1>3 DEF TimerFires, Reported
  <2>2. UNCHANGED <<strict, expectFailure>> /\ timer' = "fired" /\ timed_out' = TRUE
    BY <1>3 DEF TimerFires, vars, stream
  <2>3. child' = child \/ (child' = "signal" /\ child = "running")
    BY <1>3 DEF TimerFires, Killed
  <2>4. QED
    BY <2>1, <2>2, <2>3 DEF Reported
<1>4. CASE Decode
  <2>1. pc \in {"push", "read"}
    BY <1>4 DEF Decode, Push, NeedMoreData, ReadRecord, ThrowOnRecord, Finalize
  <2>2. UNCHANGED <<strict, timer, timed_out, expectFailure, result>>
    BY <1>4 DEF Decode, Push, NeedMoreData, ReadRecord, ThrowOnRecord, Finalize, caseVars, stream
  <2>3. child' = child \/ (child' = "signal" /\ child = "running")
    BY <1>4 DEF Decode, Killed, caseVars
  <2>4. result \in {"none", "exception"}
    BY <2>1 DEF Reported
  <2>5. QED
    BY <2>2, <2>3, <2>4 DEF Reported
<1>5. CASE SpawnFails
  BY <1>5 DEF SpawnFails, vars, stream, Reported
<1>6. CASE Close
  <2>1. /\ Ended /\ pc \in {"done", "error"}
        /\ UNCHANGED <<vars, child, timed_out, assertion, expectFailure>>
        /\ timer' \in {"off", "fired"} /\ result' = Verdict
    BY <1>6 DEF Close
  <2>2. UNCHANGED <<pc, events, strict>>
    BY <2>1 DEF vars, stream
  <2>3. Verdict' = Verdict
    BY <2>1, <2>2, VerdictStays
  <2>4. Ended'
    BY <2>1 DEF Ended
  <2>5. Reported'
    BY <2>1, <2>2, <2>3, <2>4 DEF Reported
  <2>6. result' \in {"timeout", "signal", "exit code", "decode", "assertion", "pass"}
    BY <2>1, VerdictType
  <2>7. QED
    BY <2>1, <2>2, <2>5, <2>6
<1>7. CASE UNCHANGED allVars
  <2>1. UNCHANGED <<child, timer, timed_out, assertion, expectFailure, result, pc, events, strict>>
    BY <1>7 DEF allVars, vars, stream, caseVars
  <2>2. Verdict' = Verdict
    BY <2>1, VerdictStays
  <2>3. QED
    BY <2>1, <2>2 DEF Reported, Ended
<1>8. QED
  BY <1>1, <1>2, <1>3, <1>4, <1>5, <1>6, <1>7 DEF CaseNext, Runner

(* The inductive invariant of a run, with its decoder.                      *)
THEOREM Inductive == CaseSpec => []IInv
<1>1. CaseInit => IInv
  <2>1. SUFFICES ASSUME CaseInit PROVE IInv
    OBVIOUS
  <2>2. DecoderInv
    BY <2>1, DecoderStarts DEF CaseInit
  <2>3. CaseInv
    BY <2>1 DEF CaseInit, CaseInv, Reported
  <2>4. QED
    BY <2>2, <2>3 DEF IInv
<1>2. IInv /\ [CaseNext]_allVars => IInv'
  BY DecoderKeeps, CaseKeeps DEF IInv
<1>3. QED
  BY <1>1, <1>2, PTL DEF CaseSpec

(* Type correctness of runHeadlessOnce and of ReplayDecoderCore: the cursor *)
(* stays in the buffer and the buffer in what has been pushed.              *)
THEOREM TypeCorrect == CaseSpec => []CaseTypeOK
<1>1. IInv => CaseTypeOK
  BY DEF IInv, DecoderInv, DecoderOK, CaseInv, CaseTypeOK
<1>2. QED
  BY <1>1, Inductive, PTL

-----------------------------------------------------------------------------
(* The verdict.                                                             *)

(* The records yielded are a prefix of the replay, known by its length.     *)
LEMMA EventsAreDecodable ==
    ASSUME DecoderInv, Len(events) = Readable(replay, cut)
    PROVE  events = Decodable(replay, cut)
<1> DEFINE k == Len(events)
<1>1. k \in 0 .. Len(replay) /\ replay \in Seq(Records) /\ events \in Seq(Records)
  BY CurrentRecord, ReplayType DEF DecoderInv, DecoderOK, AtARecord, Coming, Yielded
<1>2. /\ SubSeq(replay, 1, k) \in Seq(Records) /\ Len(SubSeq(replay, 1, k)) = k
      /\ \A i \in 1 .. k : SubSeq(replay, 1, k)[i] = replay[i]
  BY <1>1
<1>3. \A i \in 1 .. k : events[i] = replay[i]
  BY DEF DecoderInv, Yielded
<1>4. events = SubSeq(replay, 1, k)
  BY <1>1, <1>2, <1>3
<1>5. QED
  BY <1>4 DEF Decodable

(* In a run that is over, the decoder has finished without an error exactly *)
(* when the whole replay, to the end marker, was written; and it has then   *)
(* yielded all of its records.                                              *)
LEMMA DoneMeansComplete ==
    ASSUME DecoderInv, strict, pc \in {"done", "error"}
    PROVE  /\ pc = "done" <=> Complete(replay, cut)
           /\ events = Decodable(replay, cut)
<1>1. /\ Len(events) \in Nat /\ Len(replay) \in Nat /\ Len(events) <= Len(replay)
      /\ replay \in Replays /\ cut \in Nat
  BY CurrentRecord DEF DecoderInv, DecoderOK, AtARecord, Coming
<1>2. CASE pc = "done"
  <2>1. Len(events) > 0 /\ events[Len(events)].kind = "end"
    BY <1>2 DEF DecoderInv, Stopped, DecoderOK
  <2>2. replay[Len(events)].kind = "end"
    BY <1>1, <2>1 DEF DecoderInv, Yielded
  <2>3. Coming <= Len(replay) => ~Good(replay, cut, Coming)
    <3>1. Coming > 1 /\ Coming - 1 = Len(events)
      BY <1>1, <2>1 DEF Coming
    <3>2. QED
      BY <2>2, <3>1 DEF Good
  <2>4. Len(events) = Readable(replay, cut)
    BY <2>3, NothingMore
  <2>5. QED
    BY <1>2, <2>1, <2>2, <2>4, EventsAreDecodable DEF Complete
<1>3. CASE pc = "error"
  <2>1. Len(events) = Readable(replay, cut)
    BY <1>3 DEF DecoderInv, Stopped
  <2>2. Len(events) > 0 => /\ events[Len(events)].kind # "end"
                           /\ events[Len(events)] = replay[Len(events)]
    BY <1>1, <1>3 DEF DecoderInv, Progress, Yielded
  <2>3. ~Complete(replay, cut)
    BY <2>1, <2>2 DEF Complete
  <2>4. QED
    BY <1>3, <2>1, <2>3, EventsAreDecodable
<1>4. QED
  BY <1>2, <1>3

(* The verdict of runCase is right, in whatever order the timer, the        *)
(* decoder and the child itself end the child.                              *)
THEOREM Verdicts == CaseSpec => []VerdictIsRight
<1>1. ASSUME IInv PROVE VerdictIsRight
  <2>1. SUFFICES ASSUME result \notin {"none", "exception"}
                 PROVE  child # "running" /\ (Passed <=> (GoodRun # expectFailure))
    BY DEF VerdictIsRight
  <2>2. Ended /\ pc \in {"done", "error"} /\ result = Verdict
    BY <1>1, <2>1 DEF IInv, CaseInv, Reported
  <2>3. strict
    BY <1>1, <2>2 DEF IInv, CaseInv, Ended
  <2>4. (pc = "done" <=> Complete(replay, cut)) /\ events = Decodable(replay, cut)
    BY <1>1, <2>2, <2>3, DoneMeansComplete DEF IInv
  <2>5. (result = "pass") <=>
            (child = "0" /\ ~timed_out /\ pc = "done" /\ evaluateAssertions(events))
    BY <1>1, <2>2 DEF Verdict, Ended, IInv, CaseInv
  <2>6. (result = "pass") <=> GoodRun
    BY <2>4, <2>5 DEF GoodRun
  <2>7. Passed <=> (GoodRun # expectFailure)
    BY <2>1, <2>6, Zenon DEF Passed
  <2>8. QED
    BY <2>2, <2>7 DEF Ended
<1>2. QED
  BY <1>1, Inductive, PTL

-----------------------------------------------------------------------------
(* The decoder is a reader.                                                 *)

(* The operators of ReplayFormat mean the same in ReplayReader.             *)
LEMMA SameFormat ==
    /\ \A f, i : Reader!StartOf(f, i) = StartOf(f, i)
    /\ \A f : Reader!Bytes(f) = Bytes(f)
    /\ \A f, n : Reader!Readable(f, n) = Readable(f, n)
<1>1. \A f, i : Reader!StartOf(f, i) = StartOf(f, i)
  BY DEF Reader!StartOf, StartOf
<1>2. \A f : Reader!Bytes(f) = Bytes(f)
  BY DEF Reader!Bytes, Bytes, Reader!StartOf, StartOf
<1>3. \A f, n : Reader!Readable(f, n) = Readable(f, n)
  BY DEF Reader!Readable, Readable, Reader!Good, Good, Reader!StartOf, StartOf,
         Reader!Accepted, Accepted, Reader!MaxLogCount, MaxLogCount
<1>4. QED
  BY <1>1, <1>2, <1>3

(* A record is yielded: Deliver.                                            *)
LEMMA ReadDelivers ==
    ASSUME DecoderInv, ReadRecord
    PROVE  Reader!Deliver
<1>1. /\ Coming \in 1 .. Len(replay) /\ Current = replay[Coming]
      /\ Good(replay, cut, Coming)
  BY RecordRead
<1>2. /\ replay \in Replays /\ cut \in Nat /\ events \in Seq(Records)
      /\ Len(events) \in Nat /\ Len(replay) \in Nat /\ replay[Coming] \in Records
  BY <1>1, CurrentRecord, ReplayType DEF DecoderInv, DecoderOK, Yielded
<1>3. Len(events) # Readable(replay, cut)
  <2>1. Coming = Len(events) + 1 /\ Len(events) < Len(replay)
    BY <1>1, <1>2 DEF Coming
  <2>2. Readable(replay, cut) < Len(replay) => ~Good(replay, cut, Readable(replay, cut) + 1)
    BY <1>2, ReadableExists
  <2>3. QED
    BY <1>1, <2>1, <2>2
<1>4. /\ pc = "read" /\ pc' = IF replay[Coming].kind = "end" THEN "done" ELSE "read"
      /\ events' = Append(events, replay[Coming])
      /\ synthesized' = synthesized
      /\ UNCHANGED <<replay, cut, strict>>
  BY <1>1 DEF ReadRecord, stream
<1>5. ~synthesized
  BY <1>4 DEF DecoderInv, Stopped
<1>6. Status = "reading"
  BY <1>4 DEF Status
<1>7. Reader!Last(events') = replay[Coming]
  BY <1>2, <1>4 DEF Reader!Last
<1>8. Status' = IF replay[Coming].kind = "end" THEN "ended" ELSE "reading"
  BY <1>4, <1>5 DEF Status
<1>9. QED
  BY <1>3, <1>4, <1>6, <1>7, <1>8, SameFormat DEF Reader!Deliver, Reader!Delivered, Coming

(* A record cannot be parsed: Fail.                                         *)
LEMMA ThrowFails ==
    ASSUME DecoderInv, ThrowOnRecord
    PROVE  Reader!Fail
<1>1. pc = "read" /\ pc' = "error" /\ UNCHANGED <<replay, cut, strict, events>>
  BY DEF ThrowOnRecord, stream
<1>2. Status = "reading" /\ Status' = "failed"
  BY <1>1 DEF Status
<1>3. QED
  BY <1>1, <1>2, ThrowsWhenDelivered, SameFormat DEF Reader!Fail, Reader!Delivered

(* The stream has ended: Fail, or Truncate for a tolerant decoder.          *)
LEMMA FinalizeEnds ==
    ASSUME DecoderInv, Finalize
    PROVE  Reader!Fail \/ Reader!Truncate
<1>1. /\ pc = "push" /\ UNCHANGED <<replay, cut, strict, events>>
      /\ \/ pc' = "error"
         \/ pc' = "done" /\ synthesized' = TRUE /\ phase # "Header" /\ ~strict
  BY DEF Finalize, MustThrow, stream
<1>2. Status = "reading"
  BY <1>1 DEF Status
<1>3. Reader!Delivered
  BY EndsWhenDelivered, SameFormat DEF Reader!Delivered
<1>4. CASE pc' = "error"
  <2>1. Status' = "failed"
    BY <1>4 DEF Status
  <2>2. QED
    BY <1>1, <1>2, <1>3, <2>1 DEF Reader!Fail
<1>5. CASE pc' = "done" /\ synthesized' = TRUE /\ phase # "Header" /\ ~strict
  <2>1. Status' = "truncated"
    BY <1>5 DEF Status
  <2>2. events # <<>>
    BY <1>5 DEF DecoderInv, Progress
  <2>3. Reader!RanOut
    BY EndsWhenDelivered, CurrentRecord, SameFormat DEF Reader!RanOut, Coming
  <2>4. QED
    BY <1>1, <1>2, <1>3, <1>5, <2>1, <2>2, <2>3 DEF Reader!Truncate
<1>6. QED
  BY <1>1, <1>4, <1>5

(* The decoder of js/corereplay, pushed chunks of any sizes, implements the *)
(* reader of replays: the same records come out of it as are good in the    *)
(* stream, and it ends the way a reader does.                               *)
THEOREM DecoderRefinesReader == CaseSpec => DecoderIsAReader
<1>1. CaseInit => Reader!Init
  <2>1. SUFFICES ASSUME CaseInit PROVE Reader!Init
    OBVIOUS
  <2>2. Init
    BY <2>1 DEF CaseInit
  <2>3. replay \in Replays /\ cut \in 0 .. Bytes(replay) /\ events = <<>> /\ pc = "push"
    BY <2>2 DEF Init
  <2>4. Status = "reading"
    BY <2>3 DEF Status
  <2>5. QED
    BY <2>3, <2>4, SameFormat DEF Reader!Init
<1>2. ASSUME IInv, [CaseNext]_allVars PROVE [Reader!Next]_(Reader!vars)
  <2>1. DecoderInv
    BY <1>2 DEF IInv
  <2>2. ASSUME UNCHANGED <<replay, cut, strict, events>>,
               UNCHANGED synthesized,
               (pc' = pc) \/ (pc \in {"push", "read"} /\ pc' \in {"push", "read"})
        PROVE  UNCHANGED Reader!vars
    <3>1. Status' = Status
      BY <2>2 DEF Status
    <3>2. QED
      BY <2>2, <3>1 DEF Reader!vars
  <2>3. CASE Decode
    <3>1. ASSUME NEW n \in ChunkSizes, Push(n) PROVE UNCHANGED Reader!vars
      BY <2>2, <3>1 DEF Push, stream
    <3>2. CASE NeedMoreData
      BY <2>2, <3>2 DEF NeedMoreData, stream
    <3>3. CASE ReadRecord
      BY <2>1, <3>3, ReadDelivers DEF Reader!Next
    <3>4. CASE ThrowOnRecord
      BY <2>1, <3>4, ThrowFails DEF Reader!Next
    <3>5. CASE Finalize
      BY <2>1, <3>5, FinalizeEnds DEF Reader!Next
    <3>6. QED
      BY <2>3, <3>1, <3>2, <3>3, <3>4, <3>5 DEF Decode
  <2>4. CASE Exit \/ Spawn \/ TimerFires \/ SpawnFails \/ Close \/ UNCHANGED allVars
    <3>1. UNCHANGED vars
      BY <2>4 DEF Exit, Spawn, TimerFires, SpawnFails, Close, allVars
    <3>2. QED
      BY <2>2, <3>1 DEF vars, stream
  <2>5. QED
    BY <1>2, <2>3, <2>4 DEF CaseNext, Runner
<1>3. QED
  BY <1>1, <1>2, Inductive, PTL DEF CaseSpec, DecoderIsAReader, Reader!Spec
=============================================================================
