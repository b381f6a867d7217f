--------------------------- MODULE ProgramProofs ---------------------------
(***************************************************************************)
(* The two executables: playback is a reader of replays, for every replay,  *)
(* every cut of its file and every size of chunks; what the user interface  *)
(* shows follows what is published; and the file a match is recorded in has *)
(* no hole and, after the exit code 0, all of the match.                    *)
(***************************************************************************)
EXTENDS Program, ReplayFormatProofs

-----------------------------------------------------------------------------
(* The operators of ReplayFormat mean the same in Playback and ReplayReader. *)
LEMMA SameFormat ==
    /\ \A f, i : P!StartOf(f, i) = StartOf(f, i) /\ Reader!StartOf(f, i) = StartOf(f, i)
    /\ \A f, n : P!RecordAt(f, n) = RecordAt(f, n)
    /\ \A f : P!Bytes(f) = Bytes(f) /\ Reader!Bytes(f) = Bytes(f)
    /\ \A r : P!Accepted(r) = Accepted(r)
    /\ \A f, n : Reader!Readable(f, n) = Readable(f, n)
<1>1. \A f, i : P!StartOf(f, i) = StartOf(f, i) /\ Reader!StartOf(f, i) = StartOf(f, i)
  BY DEF P!StartOf, Reader!StartOf, StartOf
<1>2. \A f, n : P!RecordAt(f, n) = RecordAt(f, n)
  BY DEF P!RecordAt, RecordAt, P!StartOf, StartOf
<1>3. \A f : P!Bytes(f) = Bytes(f) /\ Reader!Bytes(f) = Bytes(f)
  BY DEF P!Bytes, Reader!Bytes, Bytes, P!StartOf, Reader!StartOf, StartOf
<1>4. \A r : P!Accepted(r) = Accepted(r)
  BY DEF P!Accepted, Accepted, P!MaxLogCount, MaxLogCount
<1>5. \A f, n : Reader!Readable(f, n) = Readable(f, n)
  BY DEF Reader!Readable, Readable, Reader!Good, Good, Reader!StartOf, StartOf,
         Reader!Accepted, Accepted, Reader!MaxLogCount, MaxLogCount
<1>6. QED
  BY <1>1, <1>2, <1>3, <1>4, <1>5

-----------------------------------------------------------------------------
(* The adapter of the input stream.                                         *)

\* The place in the file that the decoder is at.
Place(in) == in.read - in.size + in.cursor

\* The bytes in the buffer come from the file; the stream has failed only at its end.
InputOK(in) ==
    /\ in \in P!Input
    /\ in.cursor <= in.size /\ in.size <= in.read /\ in.read <= cut
    /\ in.io # "good" => in.read = cut
    /\ in.ended => in.read = cut

(* Enough chunks are asked for.                                             *)
LEMMA Ceiling ==
    ASSUME NEW m \in Nat, NEW c \in Nat \ {0}
    PROVE  /\ ((m + c - 1) \div c) * c \in Nat
           /\ ((m + c - 1) \div c) * c >= m
<1>1. \A a \in Nat : a = c * (a \div c) + (a % c) /\ a % c < c /\ a \div c \in Nat
  OBVIOUS
<1>2. QED
  BY <1>1

(* ensureBuffered does not move the decoder, and it has n bytes afterwards  *)
(* exactly when the file has them, however often it is called.              *)
LEMMA Buffered ==
    ASSUME NEW in, InputOK(in), NEW n \in Nat, cut \in Nat, failure \in {"eof", "bad"}
    PROVE  LET out == P!ensureBuffered(in, n) IN
           /\ InputOK(out) /\ Place(out) = Place(in)
           /\ P!has(out, n) <=> Place(in) + n <= cut
<1> DEFINE out == P!ensureBuffered(in, n)
           missing == in.cursor + n - in.size
           wanted == ((missing + Chunk - 1) \div Chunk) * Chunk
           left == cut - in.read
           more == [in EXCEPT !.read = @ + wanted, !.size = @ + wanted]
           rest == [in EXCEPT !.read = cut, !.size = @ + left, !.io = failure,
                              !.ended = left < missing]
<1>1. /\ in \in P!Input /\ in.read \in Nat /\ in.size \in Nat /\ in.cursor \in Nat
      /\ in.cursor <= in.size /\ in.size <= in.read /\ in.read <= cut
      /\ in.io # "good" => in.read = cut
      /\ in.ended => in.read = cut
  BY DEF InputOK, P!Input
<1>2. missing \in Int /\ left \in Nat
  BY <1>1
<1>3. CASE missing <= 0 \/ in.ended
  <2>1. out = in
    BY <1>3 DEF P!ensureBuffered
  <2>2. P!has(in, n) <=> Place(in) + n <= cut
    BY <1>1, <1>3 DEF P!has, Place
  <2>3. QED
    BY <2>1, <2>2
<1>4. CASE ~(missing <= 0 \/ in.ended) /\ in.io = "good" /\ wanted <= left
  <2>1. out = more
    BY <1>4 DEF P!ensureBuffered
  <2>2. wanted \in Nat /\ wanted >= missing
    BY <1>2, <1>4, Ceiling, ProgramAssumption
  <2> HIDE DEF wanted
  <2>3. /\ more \in P!Input /\ more.read = in.read + wanted /\ more.size = in.size + wanted
        /\ more.cursor = in.cursor /\ more.io = in.io /\ more.ended = in.ended
    <3>1. in.read + wanted \in Nat /\ in.size + wanted \in Nat
      BY <1>1, <2>2
    <3>2. QED
      BY <1>1, <3>1 DEF P!Input
  <2> HIDE DEF more
  <2>4. InputOK(more)
    BY <1>1, <1>2, <1>4, <2>2, <2>3 DEF InputOK
  <2>5. Place(more) = Place(in)
    BY <1>1, <2>2, <2>3 DEF Place
  <2>6. P!has(more, n) /\ Place(in) + n <= cut
    BY <1>1, <1>4, <2>2, <2>3 DEF Place, P!has
  <2>7. QED
    BY <2>1, <2>4, <2>5, <2>6
<1>5. CASE ~(missing <= 0 \/ in.ended) /\ ~(in.io = "good" /\ wanted <= left)
  <2>1. out = rest
    BY <1>5 DEF P!ensureBuffered
  <2>2. (left < missing) \in BOOLEAN
    OBVIOUS
  <2>3. /\ rest \in P!Input /\ rest.read = cut /\ rest.size = in.size + left
        /\ rest.cursor = in.cursor
    <3>1. in.size + left \in Nat
      BY <1>1, <1>2
    <3> HIDE DEF left, missing
    <3>2. QED
      BY <1>1, <2>2, <3>1 DEF P!Input, rest
  <2> HIDE DEF rest
  <2>4. InputOK(rest)
    BY <1>1, <1>2, <2>3 DEF InputOK
  <2>5. Place(rest) = Place(in)
    BY <1>1, <2>3 DEF Place
  <2>6. P!has(rest, n) <=> Place(in) + n <= cut
    BY <1>1, <2>3 DEF Place, P!has
  <2>7. QED
    BY <2>1, <2>4, <2>5, <2>6
<1>6. QED
  BY <1>3, <1>4, <1>5

(* skip moves the decoder by n bytes, whether or not the buffer is          *)
(* compacted.                                                               *)
LEMMA Skipped ==
    ASSUME NEW in, InputOK(in), NEW n \in Nat, P!has(in, n), cut \in Nat
    PROVE  InputOK(P!skip(in, n)) /\ Place(P!skip(in, n)) = Place(in) + n
<1> DEFINE moved == [in EXCEPT !.cursor = @ + n]
           less == [moved EXCEPT !.size = @ - moved.cursor, !.cursor = 0]
<1>1. /\ in \in P!Input /\ in.read \in Nat /\ in.size \in Nat /\ in.cursor \in Nat
      /\ in.cursor + n <= in.size /\ in.size <= in.read /\ in.read <= cut
      /\ in.io # "good" => in.read = cut
      /\ in.ended => in.read = cut
  BY DEF InputOK, P!Input, P!has
<1>2. /\ moved \in P!Input /\ moved.read = in.read /\ moved.size = in.size
      /\ moved.cursor = in.cursor + n /\ moved.io = in.io /\ moved.ended = in.ended
  BY <1>1 DEF P!Input
<1> HIDE DEF moved
<1>3. moved.size - moved.cursor \in Nat
  BY <1>1, <1>2
<1>4. /\ less \in P!Input /\ less.read = in.read /\ less.size = in.size - (in.cursor + n)
      /\ less.cursor = 0 /\ less.io = in.io /\ less.ended = in.ended
  BY <1>1, <1>2, <1>3 DEF P!Input
<1> HIDE DEF less
<1>5. InputOK(moved) /\ Place(moved) = Place(in) + n
  BY <1>1, <1>2 DEF InputOK, Place
<1>6. InputOK(less) /\ Place(less) = Place(in) + n
  <2>1. Place(less) = Place(in) + n
    BY <1>1, <1>4 DEF Place
  <2>2. InputOK(less)
    BY <1>1, <1>4 DEF InputOK
  <2>3. QED
    BY <2>1, <2>2
<1>7. P!skip(in, n) = moved \/ P!skip(in, n) = less
  BY DEF P!skip, P!compactBuffer, moved, less
<1>8. QED
  BY <1>5, <1>6, <1>7

-----------------------------------------------------------------------------
(* Playback.                                                                *)

Coming == Len(shown) + 1   \* the record to be shown next

PlaybackOK ==
    /\ replay \in Replays
    /\ cut \in Nat
    /\ failure \in {"eof", "bad"}
    /\ InputOK(input)
    /\ phase \in {"Header", "Tick", "End"}
    /\ pcPlayback \in {"header", "loop", "done"}
    /\ exitCode \in {0, 1}
    /\ sawStop \in BOOLEAN

\* The decoder is at the record after those shown.
AtARecord ==
    /\ Coming \in 1 .. Len(replay) + 1
    /\ Place(input) = StartOf(replay, Coming)

\* The records shown are those of the file, and good.
ShownInv ==
    /\ shown \in Seq(Records)
    /\ \A i \in 1 .. Len(shown) : shown[i] = replay[i] /\ Good(replay, cut, i)

\* The header comes first, and playback is over after the end marker.
PhaseInv ==
    /\ pcPlayback = "header" => phase = "Header" /\ Len(shown) = 0
    /\ pcPlayback = "loop" => phase = "Tick"
    /\ pcPlayback # "done" => exitCode = 0
    /\ \A i \in 1 .. Len(shown) : shown[i].kind = "end" => phase = "End"

PlaybackInv == PlaybackOK /\ AtARecord /\ ShownInv /\ PhaseInv

(* The decoder takes the bytes it is at for the record that is to come, and *)
(* after the last record for none.                                          *)
LEMMA CurrentRecord ==
    ASSUME PlaybackInv
    PROVE  /\ Coming <= Len(replay) =>
                 P!Current(input) = replay[Coming] /\ Coming \in 1 .. Len(replay)
           /\ Coming > Len(replay) =>
                 P!Current(input).kind = "other" /\ Coming = Len(replay) + 1
           /\ Len(shown) \in Nat /\ Len(replay) \in Nat
<1>1. Len(shown) \in Nat /\ Len(replay) \in Nat
  BY ReplayType DEF PlaybackInv, PlaybackOK, ShownInv
<1>2. P!Current(input) = RecordAt(replay, StartOf(replay, Coming))
  BY SameFormat DEF P!Current, PlaybackInv, AtARecord, Place
<1>3. Coming <= Len(replay) => Coming \in 1 .. Len(replay)
  BY <1>1 DEF Coming
<1>4. Coming > Len(replay) => Coming = Len(replay) + 1
  BY <1>1 DEF PlaybackInv, AtARecord
<1>5. QED
  BY <1>1, <1>2, <1>3, <1>4, RecordsAreFound DEF PlaybackInv, PlaybackOK, Bytes

(* The bytes that are asked for are bytes of the record.                    *)
LEMMA ComingRecord ==
    ASSUME PlaybackInv, Coming <= Len(replay)
    PROVE  /\ replay[Coming] \in Records
           /\ replay[Coming].size \in Nat /\ P!Needs(replay[Coming]) \in Nat
           /\ P!Needs(replay[Coming]) <= replay[Coming].size
           /\ Place(input) \in Nat
           /\ StartOf(replay, Coming + 1) = Place(input) + replay[Coming].size
<1>1. Coming \in 1 .. Len(replay) /\ replay \in Replays
  BY CurrentRecord DEF PlaybackInv, PlaybackOK
<1>2. replay[Coming] \in Records /\ replay[Coming].kind \in Kinds
  BY <1>1, ReplayType DEF Records
<1>3. /\ replay[Coming].size \in Nat \ {0}
      /\ replay[Coming].kind = "end" => replay[Coming].size = 3
  BY <1>1, ReplayType DEF EndSize
<1>4. /\ P!Needs(replay[Coming]) \in Nat
      /\ P!Needs(replay[Coming]) <= replay[Coming].size
  BY <1>2, <1>3 DEF P!Needs, Kinds
<1>5. /\ Place(input) = StartOf(replay, Coming) /\ Place(input) \in Nat
      /\ StartOf(replay, Coming + 1) = StartOf(replay, Coming) + replay[Coming].size
  BY <1>1, StartsAddUp, CurrentRecord DEF PlaybackInv, AtARecord
<1>6. QED
  BY <1>2, <1>3, <1>4, <1>5

(* A good record is shown, and the decoder moves on to the next: Deliver.   *)
LEMMA RecordIsShown ==
    ASSUME PlaybackInv, pcPlayback # "done", Coming <= Len(replay),
           replay[Coming].kind # "other", Accepted(replay[Coming]),
           NEW in, InputOK(in), Place(in) = Place(input),
           P!has(in, replay[Coming].size), StartOf(replay, Coming + 1) <= cut,
           input' = P!skip(in, replay[Coming].size),
           shown' = Append(shown, replay[Coming]),
           phase' = IF replay[Coming].kind = "end" THEN "End" ELSE "Tick",
           pcPlayback' = IF replay[Coming].kind = "end" THEN "done" ELSE "loop",
           UNCHANGED <<replay, cut, failure, exitCode, sawStop>>
    PROVE  PlaybackInv' /\ Reader!Deliver
<1> USE DEF PlaybackInv
<1> DEFINE r == replay[Coming]
<1>1. /\ Coming \in 1 .. Len(replay) /\ Len(shown) \in Nat /\ Len(replay) \in Nat
      /\ replay \in Replays /\ cut \in Nat /\ shown \in Seq(Records)
      /\ r \in Records /\ r.size \in Nat
  BY CurrentRecord, ComingRecord DEF PlaybackOK, ShownInv
<1>2. phase # "End" /\ exitCode = 0
  BY DEF PhaseInv, PlaybackOK
<1>3. Good(replay, cut, Coming)
  <2>1. Coming > 1 => Coming - 1 = Len(shown) /\ Len(shown) \in 1 .. Len(shown)
    BY <1>1 DEF Coming
  <2>2. Coming > 1 => replay[Coming - 1].kind # "end"
    BY <1>2, <2>1 DEF ShownInv, PhaseInv
  <2>3. QED
    BY <2>2 DEF Good
<1>4. /\ shown' \in Seq(Records) /\ Len(shown') = Coming
      /\ \A i \in 1 .. Len(shown) : shown'[i] = shown[i]
      /\ shown'[Coming] = r
  BY <1>1 DEF Coming
<1>5. \A i \in 1 .. Len(shown') : i \in 1 .. Len(shown) \/ i = Coming
  BY <1>1, <1>4 DEF Coming
<1>6. InputOK(input)' /\ Place(input)' = Place(input) + r.size
  BY <1>1, Skipped DEF InputOK, Place
<1>7. PlaybackOK'
  BY <1>6 DEF PlaybackOK
<1>8. AtARecord'
  <2>1. Coming' = Coming + 1 /\ Coming + 1 \in 1 .. Len(replay) + 1
    BY <1>1, <1>4 DEF Coming
  <2>2. QED
    BY <1>6, <2>1, ComingRecord DEF AtARecord
<1>9. ShownInv'
  <2>1. \A i \in 1 .. Len(shown') : shown'[i] = replay[i] /\ Good(replay, cut, i)
    BY <1>3, <1>4, <1>5 DEF ShownInv
  <2>2. QED
    BY <1>4, <2>1 DEF ShownInv
<1>10. PhaseInv'
  <2>1. \A i \in 1 .. Len(shown') : shown'[i].kind = "end" => phase' = "End"
    BY <1>2, <1>4, <1>5 DEF PhaseInv
  <2>2. QED
    BY <1>2, <2>1 DEF PhaseInv
<1>11. Reader!Deliver
  <2>1. Len(shown) # Readable(replay, cut)
    <3>1. Coming = Len(shown) + 1 /\ Len(shown) < Len(replay)
      BY <1>1 DEF Coming
    <3>2. Readable(replay, cut) < Len(replay) => ~Good(replay, cut, Readable(replay, cut) + 1)
      BY <1>1, ReadableExists
    <3>3. QED
      BY <1>3, <3>1, <3>2
  <2>2. Status = "reading"
    BY <1>2 DEF Status
  <2>3. Reader!Last(shown') = r
    BY <1>4 DEF Reader!Last
  <2>4. Status' = IF r.kind = "end" THEN "ended" ELSE "reading"
    BY <1>2 DEF Status
  <2>5. QED
    BY <2>1, <2>2, <2>3, <2>4, SameFormat DEF Reader!Deliver, Reader!Delivered, Coming
<1>12. QED
  BY <1>7, <1>8, <1>9, <1>10, <1>11

(* An error is reported when the record to come is not there or not good:   *)
(* Fail.                                                                    *)
LEMMA ErrorIsReported ==
    ASSUME PlaybackInv, pcPlayback # "done",
           Coming <= Len(replay) => ~Good(replay, cut, Coming),
           InputOK(input'), Place(input') = Place(input),
           P!Fail,
           UNCHANGED <<replay, cut, failure, sawStop>>
    PROVE  PlaybackInv' /\ Reader!Fail
<1> USE DEF PlaybackInv
<1>1. exitCode' = 1 /\ pcPlayback' = "done" /\ UNCHANGED <<phase, shown>>
  BY DEF P!Fail
<1>2. PlaybackOK'
  BY <1>1 DEF PlaybackOK, InputOK
<1>3. AtARecord'
  BY <1>1 DEF AtARecord, Coming, Place
<1>4. ShownInv' /\ PhaseInv'
  BY <1>1 DEF ShownInv, PhaseInv
<1>5. phase # "End" /\ exitCode = 0
  BY DEF PhaseInv, PlaybackOK
<1>6. Len(shown) = Readable(replay, cut)
  <2>1. Len(shown) \in 0 .. Len(replay)
    BY CurrentRecord DEF Coming, AtARecord
  <2>2. Len(shown) < Len(replay) => ~Good(replay, cut, Len(shown) + 1)
    BY CurrentRecord DEF Coming
  <2>3. QED
    BY <2>1, <2>2, ReadableIs DEF PlaybackOK, ShownInv
<1>7. Status = "reading" /\ Status' = "failed"
  BY <1>1, <1>5 DEF Status
<1>8. Reader!Fail
  BY <1>1, <1>6, <1>7, SameFormat DEF Reader!Fail, Reader!Delivered
<1>9. QED
  BY <1>2, <1>3, <1>4, <1>8

(* A record is not good if the file ends before it does.                    *)
LEMMA CutOff ==
    ASSUME PlaybackInv, NEW n \in Nat, ~(Place(input) + n <= cut),
           Coming <= Len(replay) => n <= replay[Coming].size
    PROVE  Coming <= Len(replay) => ~Good(replay, cut, Coming)
<1>1. SUFFICES ASSUME Coming <= Len(replay) PROVE ~(StartOf(replay, Coming + 1) <= cut)
  BY DEF Good
<1>2. QED
  BY <1>1, ComingRecord DEF PlaybackInv, PlaybackOK

(* The header is shown or an error reported.                                *)
LEMMA HeaderStep ==
    ASSUME PlaybackInv, P!ReadHeader
    PROVE  PlaybackInv' /\ (Reader!Deliver \/ Reader!Fail)
<1> DEFINE r == P!Current(input)
           in == P!ensureBuffered(input, P!Needs(r))
<1>1. /\ pcPlayback = "header" /\ UNCHANGED <<replay, cut, failure, sawStop>>
      /\ IF P!canRead(input, r) /\ P!Accepted(r)
         THEN /\ input' = P!skip(in, r.size) /\ phase' = "Tick" /\ shown' = <<r>>
              /\ pcPlayback' = "loop" /\ UNCHANGED exitCode
         ELSE input' = in /\ P!Fail
  BY DEF P!ReadHeader, P!file
<1>2. shown = <<>> /\ Coming = 1 /\ Coming <= Len(replay)
  <2>1. shown \in Seq(Records) /\ Len(shown) = 0
    BY <1>1 DEF PlaybackInv, PhaseInv, ShownInv
  <2>2. QED
    BY <2>1, ReplayType DEF Coming, PlaybackInv, PlaybackOK
<1>3. r = replay[Coming] /\ r.kind = "header"
  BY <1>2, CurrentRecord, ReplayAssumption DEF PlaybackInv, PlaybackOK
<1>4. P!Needs(r) = r.size /\ r.size \in Nat
  BY <1>2, <1>3, ComingRecord DEF P!Needs
<1>5. /\ InputOK(in) /\ Place(in) = Place(input)
      /\ P!has(in, r.size) <=> Place(input) + r.size <= cut
  BY <1>4, Buffered DEF PlaybackInv, PlaybackOK
<1>6. P!canRead(input, r) <=> P!has(in, r.size)
  BY <1>3, <1>4 DEF P!canRead
<1>7. StartOf(replay, Coming + 1) = Place(input) + r.size
  BY <1>2, <1>3, ComingRecord
<1> HIDE DEF r, in
<1>8. CASE P!canRead(input, r) /\ P!Accepted(r)
  <2>1. shown' = Append(shown, r)
    BY <1>1, <1>2, <1>8
  <2>2. QED
    BY <1>1, <1>2, <1>3, <1>5, <1>6, <1>7, <1>8, <2>1, SameFormat, RecordIsShown
<1>9. CASE ~(P!canRead(input, r) /\ P!Accepted(r))
  <2>1. ~Good(replay, cut, Coming)
    BY <1>3, <1>5, <1>6, <1>7, <1>9, SameFormat DEF Good
  <2>2. QED
    BY <1>1, <1>5, <1>9, <2>1, ErrorIsReported
<1>10. QED
  BY <1>8, <1>9

(* A record that canReadNextRecord has seen is shown, or an error reported, *)
(* also for the end marker, of which it has seen only two bytes.            *)
LEMMA RecordStep ==
    ASSUME PlaybackInv, P!PlayRecord
    PROVE  PlaybackInv' /\ (Reader!Deliver \/ Reader!Fail)
<1> DEFINE r == P!Current(input)
           in == P!ensureBuffered(input, r.size)
<1>1. /\ pcPlayback = "loop" /\ UNCHANGED <<replay, cut, failure, sawStop>>
      /\ P!canRead(input, r)
      /\ IF P!Accepted(r) /\ ~P!Truncated(in, r)
         THEN /\ input' = P!skip(in, r.size) /\ shown' = Append(shown, r)
              /\ phase' = IF r.kind = "end" THEN "End" ELSE "Tick"
              /\ pcPlayback' = IF r.kind = "end" THEN "done" ELSE "loop"
              /\ UNCHANGED exitCode
         ELSE input' = in /\ P!Fail
  BY DEF P!PlayRecord, P!file
<1>2. r.kind # "other"
  BY <1>1 DEF P!canRead
<1>3. Coming <= Len(replay) /\ r = replay[Coming]
  BY <1>2, CurrentRecord DEF PlaybackInv, AtARecord
<1>4. r.size \in Nat /\ StartOf(replay, Coming + 1) = Place(input) + r.size
  BY <1>3, ComingRecord
<1>5. /\ InputOK(in) /\ Place(in) = Place(input)
      /\ P!has(in, r.size) <=> Place(input) + r.size <= cut
  BY <1>4, Buffered DEF PlaybackInv, PlaybackOK
<1> HIDE DEF r, in
<1>6. CASE P!Accepted(r) /\ ~P!Truncated(in, r)
  <2>1. P!has(in, r.size) /\ StartOf(replay, Coming + 1) <= cut
    BY <1>4, <1>5, <1>6 DEF P!Truncated
  <2>2. QED
    BY <1>1, <1>2, <1>3, <1>5, <1>6, <2>1, SameFormat, RecordIsShown
<1>7. CASE ~(P!Accepted(r) /\ ~P!Truncated(in, r))
  <2>1. ~Good(replay, cut, Coming)
    BY <1>3, <1>4, <1>5, <1>7, SameFormat DEF Good, P!Truncated
  <2>2. QED
    BY <1>1, <1>5, <1>7, <2>1, ErrorIsReported
<1>8. QED
  BY <1>6, <1>7

(* When no record can be read, an error is reported only if none ever can.  *)
LEMMA NothingStep ==
    ASSUME PlaybackInv, P!PlayNothing
    PROVE  PlaybackInv' /\ (Reader!Fail \/ UNCHANGED Reader!vars)
<1> DEFINE r == P!Current(input)
           in == P!ensureBuffered(input, P!Needs(r))
<1>1. /\ pcPlayback = "loop" /\ UNCHANGED <<replay, cut, failure, sawStop>>
      /\ ~P!canRead(input, r)
      /\ input' = in
      /\ P!Fail \/ UNCHANGED <<phase, shown, pcPlayback, exitCode>>
  BY DEF P!PlayNothing, P!file
<1>2. P!Needs(r) \in Nat
  <2>1. CASE Coming <= Len(replay)
    BY <2>1, CurrentRecord, ComingRecord
  <2>2. CASE ~(Coming <= Len(replay))
    BY <2>2, CurrentRecord DEF P!Needs, PlaybackInv, AtARecord
  <2>3. QED
    BY <2>1, <2>2
<1>3. /\ InputOK(in) /\ Place(in) = Place(input)
      /\ P!has(in, P!Needs(r)) <=> Place(input) + P!Needs(r) <= cut
  BY <1>2, Buffered DEF PlaybackInv, PlaybackOK
<1>4. CASE P!Fail
  <2>1. Coming <= Len(replay) => ~Good(replay, cut, Coming)
    <3>1. SUFFICES ASSUME Coming <= Len(replay) PROVE ~Good(replay, cut, Coming)
      OBVIOUS
    <3>2. r = replay[Coming] /\ P!Needs(r) <= replay[Coming].size
      BY <3>1, CurrentRecord, ComingRecord
    <3>3. CASE r.kind = "other"
      BY <3>2, <3>3 DEF Good
    <3>4. CASE r.kind # "other"
      <4>1. ~P!has(in, P!Needs(r))
        BY <1>1, <3>4 DEF P!canRead
      <4> HIDE DEF r, in
      <4>2. QED
        BY <1>2, <1>3, <3>1, <3>2, <4>1, CutOff
    <3>5. QED
      BY <3>3, <3>4
  <2> HIDE DEF r, in
  <2>2. QED
    BY <1>1, <1>3, <1>4, <2>1, ErrorIsReported
<1>5. CASE UNCHANGED <<phase, shown, pcPlayback, exitCode>>
  <2> HIDE DEF r, in
  <2>1. InputOK(input') /\ Place(input') = Place(input)
    BY <1>1, <1>3
  <2>2. PlaybackInv'
    BY <1>1, <1>5, <2>1 DEF PlaybackInv, PlaybackOK, InputOK, AtARecord, Coming, Place, ShownInv,
       PhaseInv
  <2>3. UNCHANGED Reader!vars
    BY <1>1, <1>5 DEF Reader!vars, Status
  <2>4. QED
    BY <2>2, <2>3
<1>6. QED
  BY <1>1, <1>4, <1>5

-----------------------------------------------------------------------------
(* The user interface.                                                      *)

\* What is published goes from the header over the ticks to the end; the view has
\* a new tick whenever it has a new entry in the history.
TuiInv ==
    /\ T!TypeOK
    /\ ViewFollows
    /\ pcMain \in {"start", "open"} => progress.phase = "Header"
    /\ pcMain \in {"loop", "body", "finish"} => progress.phase = "Tick"
    /\ progress.phase = "Header" => progress.tick = 0
    /\ view.phase = "Header" => view.tick = 0
    /\ Len(history) <= view.tick

(* Nothing has been published or shown at the start.                        *)
LEMMA TuiStarts ==
    ASSUME T!Init
    PROVE  TuiInv
<1>1. /\ pcMain = "start" /\ ui = "none" /\ queue = 0
      /\ progress = T!Nothing /\ view = T!Nothing /\ history = <<>>
  BY DEF T!Init
<1>2. T!Nothing \in [phase : T!Phases, tick : 0 .. MaxTick]
  BY ProgramAssumption DEF T!Nothing, T!Phases
<1>3. /\ T!Nothing.phase = "Header" /\ T!Nothing.tick = 0
      /\ Len(history) = 0 /\ history \in Seq(1 .. MaxTick)
  BY <1>1 DEF T!Nothing
<1>4. T!TypeOK
  BY <1>1, <1>2, <1>3, ProgramAssumption DEF T!TypeOK
<1>5. ViewFollows
  BY <1>1, <1>3 DEF ViewFollows, T!ViewFollows
<1>6. QED
  BY <1>1, <1>3, <1>4, <1>5 DEF TuiInv

(* Publishing: the phases come in order, and the ticks go up.               *)
LEMMA PublishKeeps ==
    ASSUME TuiInv, NEW from, NEW to, NEW prog, NEW err,
           T!Publish(from, to, prog, err),
           from \in {"open", "body", "finish"},
           prog \in [phase : T!Phases, tick : 0 .. MaxTick],
           prog.tick >= progress.tick,
           prog.phase = "Header" => from = "open" /\ prog.tick = 0,
           to \in {"loop", "finish"} => prog.phase = "Tick",
           to \in {"loop", "finish", "wait"}
    PROVE  TuiInv'
<1>1. /\ pcMain = from /\ pcMain' = to /\ progress' = prog
      /\ UNCHANGED <<queue, ui, view, history>>
  BY DEF T!Publish, T!shownVars
<1>2. progress.phase # "End"
  BY <1>1 DEF TuiInv
<1>3. view.phase # "End"
  BY <1>2 DEF TuiInv, ViewFollows, T!ViewFollows
<1>4. /\ view \in [phase : T!Phases, tick : 0 .. MaxTick]
      /\ progress \in [phase : T!Phases, tick : 0 .. MaxTick]
  BY DEF TuiInv, T!TypeOK
<1>5. /\ view.tick \in Nat /\ progress.tick \in Nat /\ prog.tick \in Nat
      /\ view.tick <= progress.tick
  BY <1>4 DEF TuiInv, ViewFollows, T!ViewFollows
<1>6. view.tick <= progress'.tick
  BY <1>1, <1>5
<1>7. T!TypeOK'
  BY <1>1 DEF TuiInv, T!TypeOK
<1>8. view.phase # "Header" => progress'.phase # "Header"
  BY <1>1 DEF TuiInv, ViewFollows, T!ViewFollows
<1>9. ViewFollows'
  BY <1>1, <1>3, <1>6, <1>8 DEF TuiInv, ViewFollows, T!ViewFollows
<1>10. QED
  BY <1>1, <1>7, <1>9 DEF TuiInv

(* The view catches up with what is published, whatever it has missed, and  *)
(* its history gets the tick if it is new.                                  *)
LEMMA HandleUpdateKeeps ==
    ASSUME TuiInv, T!HandleUpdate
    PROVE  TuiInv'
<1>1. /\ UNCHANGED <<pcMain, progress, ui>>
      /\ queue > 0 /\ queue' = queue - 1
      /\ view' = T!Merged(view)
      /\ history' = IF T!IsNewTick(view, view') THEN Append(history, view'.tick) ELSE history
  BY DEF T!HandleUpdate, T!shared
<1>2. /\ view \in [phase : T!Phases, tick : 0 .. MaxTick]
      /\ progress \in [phase : T!Phases, tick : 0 .. MaxTick]
      /\ history \in Seq(1 .. MaxTick) /\ queue \in Nat
  BY DEF TuiInv, T!TypeOK
<1>3. view' = progress
  <2>1. CASE progress.phase # view.phase
    BY <1>1, <2>1 DEF T!Merged
  <2>2. CASE progress.phase = view.phase /\ progress.phase # "Header"
    <3>1. view' = [view EXCEPT !.tick = progress.tick]
      BY <1>1, <2>2 DEF T!Merged
    <3>2. QED
      BY <1>2, <2>2, <3>1
  <2>3. CASE progress.phase = view.phase /\ progress.phase = "Header"
    <3>1. view' = view /\ view.tick = progress.tick
      BY <1>1, <2>3 DEF T!Merged, TuiInv
    <3>2. /\ view = [phase |-> view.phase, tick |-> view.tick]
          /\ progress = [phase |-> progress.phase, tick |-> progress.tick]
      BY <1>2
    <3>3. QED
      BY <2>3, <3>1, <3>2
  <2>4. QED
    BY <2>1, <2>2, <2>3
<1>4. /\ view.tick \in Nat /\ progress.tick \in 0 .. MaxTick /\ MaxTick \in Nat
      /\ view.tick <= progress.tick
      /\ Len(history) \in Nat /\ Len(history) <= view.tick
  BY <1>2, ProgramAssumption DEF TuiInv, ViewFollows, T!ViewFollows
<1>5. T!IsNewTick(view, view') <=> progress.tick > view.tick
  BY <1>3, <1>4 DEF T!IsNewTick, T!currentTick, TuiInv
<1>6. /\ \A i, j \in 1 .. Len(history) : i < j => history[i] < history[j]
      /\ view.tick > 0 => history # <<>> /\ history[Len(history)] = view.tick
  BY DEF TuiInv, ViewFollows, T!ViewFollows
<1>7. /\ history' \in Seq(1 .. MaxTick) /\ Len(history') <= progress.tick
      /\ \A i, j \in 1 .. Len(history') : i < j => history'[i] < history'[j]
      /\ progress.tick > 0 => history' # <<>> /\ history'[Len(history')] = progress.tick
  <2>1. CASE ~(progress.tick > view.tick)
    BY <1>1, <1>2, <1>4, <1>5, <1>6, <2>1
  <2>2. CASE progress.tick > view.tick
    <3>1. history' = Append(history, progress.tick) /\ progress.tick \in 1 .. MaxTick
      BY <1>1, <1>3, <1>4, <1>5, <2>2
    <3>2. /\ history' \in Seq(1 .. MaxTick) /\ Len(history') = Len(history) + 1
          /\ \A i \in 1 .. Len(history) : history'[i] = history[i]
          /\ history'[Len(history) + 1] = progress.tick
      BY <1>2, <3>1
    <3>3. ASSUME NEW i \in 1 .. Len(history) PROVE history[i] <= view.tick
      <4>1. history[i] \in 1 .. MaxTick /\ Len(history) \in 1 .. Len(history)
        BY <1>2, <1>4
      <4>2. view.tick > 0
        BY <1>4
      <4>3. i = Len(history) \/ history[i] < history[Len(history)]
        BY <1>4, <1>6, <4>1
      <4>4. QED
        BY <1>4, <1>6, <4>1, <4>2, <4>3
    <3>4. ASSUME NEW i \in 1 .. Len(history'), NEW j \in 1 .. Len(history'), i < j
          PROVE  history'[i] < history'[j]
      <4>1. i \in 1 .. Len(history) /\ history'[i] = history[i] /\ history[i] \in 1 .. MaxTick
        BY <1>2, <1>4, <3>2, <3>4
      <4>2. CASE j \in 1 .. Len(history)
        BY <1>6, <3>2, <3>4, <4>1, <4>2
      <4>3. CASE j = Len(history) + 1
        BY <1>4, <2>2, <3>2, <3>3, <4>1, <4>3
      <4>4. QED
        BY <1>4, <3>2, <4>2, <4>3
    <3>5. Len(history') <= progress.tick /\ history' # <<>>
      BY <1>4, <2>2, <3>2
    <3>6. QED
      BY <3>2, <3>4, <3>5
  <2>3. QED
    BY <2>1, <2>2
<1>8. T!TypeOK'
  <2>1. queue' \in Nat
    BY <1>1, <1>2
  <2>2. Len(history') <= MaxTick
    BY <1>4, <1>7
  <2>3. QED
    BY <1>1, <1>2, <1>3, <1>7, <2>1, <2>2 DEF TuiInv, T!TypeOK
<1>9. ViewFollows'
  BY <1>1, <1>3, <1>4, <1>7 DEF ViewFollows, T!ViewFollows
<1>10. QED
  BY <1>1, <1>3, <1>7, <1>8, <1>9 DEF TuiInv

(* The steps that neither publish nor copy anything.                        *)
LEMMA OtherTuiKeeps ==
    ASSUME TuiInv, UNCHANGED <<progress, view, history>>,
           queue' \in Nat, ui' \in {"none", "starting", "looping", "exited"},
           \/ pcMain' = pcMain
           \/ pcMain = "start" /\ pcMain' = "open"
           \/ pcMain \in {"loop", "body"} /\ pcMain' \in {"loop", "body", "finish"}
           \/ pcMain' \in {"unwind", "wait", "joined"}
    PROVE  TuiInv'
<1>1. T!TypeOK'
  BY DEF TuiInv, T!TypeOK
<1>2. ViewFollows'
  BY DEF TuiInv, ViewFollows, T!ViewFollows
<1>3. QED
  BY <1>1, <1>2 DEF TuiInv

(* The steps of the two threads.                                            *)
LEMMA TuiKeeps ==
    ASSUME TuiInv, T!Next
    PROVE  TuiInv'
<1>1. /\ progress \in [phase : T!Phases, tick : 0 .. MaxTick]
      /\ progress.tick \in 0 .. MaxTick /\ MaxTick \in Nat /\ queue \in Nat
      /\ ui \in {"none", "starting", "looping", "exited"}
  BY ProgramAssumption DEF TuiInv, T!TypeOK
<1>2. CASE T!PublishHeader
  <2> DEFINE prog == [progress EXCEPT !.phase = "Tick"]
  <2>1. /\ prog \in [phase : T!Phases, tick : 0 .. MaxTick]
        /\ prog.phase = "Tick" /\ prog.tick = progress.tick
    BY <1>1 DEF T!Phases
  <2>2. T!Publish("open", "loop", prog, error)
    BY <1>2 DEF T!PublishHeader
  <2> HIDE DEF prog
  <2>3. QED
    BY <1>1, <2>1, <2>2, PublishKeeps
<1>3. ASSUME NEW to \in {"loop", "finish"}, T!PublishTick(to) PROVE TuiInv'
  <2> DEFINE prog == [progress EXCEPT !.tick = @ + 1]
  <2>1. progress.tick + 1 \in 0 .. MaxTick
    BY <1>1, <1>3 DEF T!PublishTick
  <2>2. T!Publish("body", to, prog, error)
    BY <1>3 DEF T!PublishTick
  <2>3. progress.phase = "Tick"
    BY <2>2 DEF T!Publish, TuiInv
  <2>4. /\ prog \in [phase : T!Phases, tick : 0 .. MaxTick] /\ prog.phase = "Tick"
        /\ prog.tick = progress.tick + 1
    BY <1>1, <2>1, <2>3
  <2> HIDE DEF prog
  <2>5. prog.tick >= progress.tick
    BY <1>1, <2>4
  <2>6. QED
    BY <2>2, <2>4, <2>5, PublishKeeps
<1>4. CASE T!PublishEnd
  <2> DEFINE prog == [progress EXCEPT !.phase = "End"]
             from == IF mode = "live" THEN "finish" ELSE "body"
  <2>1. /\ prog \in [phase : T!Phases, tick : 0 .. MaxTick]
        /\ prog.phase = "End" /\ prog.tick = progress.tick
    BY <1>1 DEF T!Phases
  <2>2. T!Publish(from, "wait", prog, error) /\ from \in {"open", "body", "finish"}
    BY <1>4 DEF T!PublishEnd
  <2> HIDE DEF prog, from
  <2>3. QED
    BY <1>1, <2>1, <2>2, PublishKeeps
<1>5. ASSUME NEW from \in {"open", "body"}, T!PublishError(from) PROVE TuiInv'
  <2>1. T!Publish(from, "wait", progress, TRUE)
    BY <1>5 DEF T!PublishError
  <2>2. progress.phase = "Header" => from = "open" /\ progress.tick = 0
    BY <1>5, <2>1 DEF T!Publish, TuiInv
  <2>3. from \in {"open", "body", "finish"} /\ progress.tick >= progress.tick
    BY <1>1, <1>5
  <2>4. QED
    BY <1>1, <2>1, <2>2, <2>3, PublishKeeps
<1>6. CASE T!Start \/ T!Notify \/ T!EnterLoop \/ T!LeaveLoop \/ T!FindNothing \/ T!Throw
              \/ T!RequestStop \/ T!Join
  <2>1. UNCHANGED <<progress, view, history>>
    BY <1>6 DEF T!Start, T!Notify, T!EnterLoop, T!LeaveLoop, T!FindNothing, T!Throw,
                T!RequestStop, T!Join, T!shared, T!shownVars
  <2>2. queue' \in Nat /\ ui' \in {"none", "starting", "looping", "exited"}
    BY <1>1, <1>6 DEF T!Start, T!Notify, T!EnterLoop, T!LeaveLoop, T!FindNothing, T!Throw,
                T!RequestStop, T!Join
  <2>3. \/ pcMain' = pcMain
        \/ pcMain = "start" /\ pcMain' = "open"
        \/ pcMain \in {"loop", "body"} /\ pcMain' \in {"loop", "body", "finish"}
        \/ pcMain' \in {"unwind", "wait", "joined"}
    BY <1>6 DEF T!Start, T!Notify, T!EnterLoop, T!LeaveLoop, T!FindNothing, T!Throw,
                T!RequestStop, T!Join
  <2>4. QED
    BY <2>1, <2>2, <2>3, OtherTuiKeeps
<1>7. CASE T!BeginLoop \/ T!HandleStop \/ T!PressQuit
  <2>1. UNCHANGED <<progress, view, history, pcMain>>
    BY <1>7 DEF T!BeginLoop, T!HandleStop, T!PressQuit, T!shared, T!shownVars
  <2>2. queue' \in Nat /\ ui' \in {"none", "starting", "looping", "exited"}
    BY <1>1, <1>7 DEF T!BeginLoop, T!HandleStop, T!PressQuit
  <2>3. QED
    BY <2>1, <2>2, OtherTuiKeeps
<1>8. QED
  BY <1>2, <1>3, <1>4, <1>5, <1>6, <1>7, HandleUpdateKeeps DEF T!Next, T!Main

(* Every step of the program leaves the interface alone or is one of its    *)
(* steps.                                                                   *)
LEMMA TuiSteps ==
    ASSUME [Next]_vars
    PROVE  T!Next \/ UNCHANGED tuiVars
<1>1. CASE HeadlessStep \/ Kill \/ UNCHANGED vars
  BY <1>1 DEF HeadlessStep, HeadlessSetup, HeadlessHeader, HeadlessTurn, HeadlessEnd,
       HeadlessUnwind, HeadlessReturn, Headless, Kill, vars
<1>2. CASE Start \/ Notify \/ EnterLoop \/ Join \/ RequestStop
  BY <1>2 DEF Start, Notify, EnterLoop, Join, RequestStop, T!Next, T!Main
<1>3. CASE Return
  BY <1>3 DEF Return
<1>4. CASE UiThread \/ PressQuit
  BY <1>4 DEF UiThread, PressQuit, T!Next
<1>5. CASE LiveStep
  BY <1>5 DEF LiveStep, LiveCreate, LiveHeader, LiveTurn, LiveLeave, LiveEnd, LiveDestroy,
       T!Next, T!Main
<1>6. CASE PlayStep
  <2>1. CASE PlayNoFile \/ PlaySawStop \/ PlayLeave
    BY <2>1 DEF PlayNoFile, PlaySawStop, PlayLeave, T!Next, T!Main
  <2>2. CASE PlayHeader
    BY <2>2 DEF PlayHeader, T!Next, T!Main
  <2>3. CASE PlayRecord
    BY <2>3 DEF PlayRecord, T!Next, T!Main
  <2>4. CASE PlayNothing
    BY <2>4 DEF PlayNothing, T!Next, T!Main
  <2>5. QED
    BY <1>6, <2>1, <2>2, <2>3, <2>4 DEF PlayStep
<1>7. QED
  BY <1>1, <1>2, <1>3, <1>4, <1>5, <1>6 DEF Next, Main

(* What is shown follows what is published, however the two threads are     *)
(* scheduled and however many events come for one tick or none for another. *)
THEOREM ViewAlwaysFollows == Spec => []ViewFollows
<1>1. Init => TuiInv
  BY TuiStarts DEF Init
<1>2. TuiInv /\ [Next]_vars => TuiInv'
  <2>1. TuiInv /\ UNCHANGED tuiVars => TuiInv'
    BY OtherTuiKeeps DEF tuiVars, TuiInv, T!TypeOK
  <2>2. QED
    BY <2>1, TuiSteps, TuiKeeps
<1>3. TuiInv => ViewFollows
  BY DEF TuiInv
<1>4. QED
  BY <1>1, <1>2, <1>3, PTL DEF Spec

-----------------------------------------------------------------------------
(* The writers.  Every byte that is handed over has its place in the file:  *)
(* the parts that are in the file, in the buffer of the stream and in zstd  *)
(* follow on each other, whatever the stream does.                          *)

Byte == {W!ByteOf(i) : i \in Nat \ {0}} \cup {W!FrameEnd}

\* The i-th byte of a file that has n bytes of records and is closed.
FileByte(n, i) == IF i <= n THEN W!ByteOf(i) ELSE W!FrameEnd

\* The sequence s is the part of that file after its first a bytes, up to b.
Part(s, a, b, n) ==
    /\ s \in Seq(Byte) /\ a + Len(s) = b
    /\ \A i \in 1 .. Len(s) : s[i] = FileByte(n, a + i)

Streams == [file : Seq(Byte), buffer : Seq(Byte), bad : BOOLEAN]

\* How many bytes of records there are.
Size == 2 * Len(handed)

WriterOK ==
    /\ writer \in {"none", "raw", "zstd"}
    /\ gone \in BOOLEAN /\ finished \in BOOLEAN
    /\ handed \in Seq({"header", "tick", "end"})
    /\ stream \in Streams
    /\ context \in Seq(Byte)
    /\ writer # "zstd" => context = <<>>
    /\ writer = "none" => handed = <<>> /\ ~finished /\ ~gone

\* The first n bytes are in the file, the buffer and zstd, in this order.
Stored(n) ==
    /\ ~stream.bad
    /\ \E a \in Nat, b \in Nat :
          /\ Part(stream.file, 0, a, n)
          /\ Part(stream.buffer, a, b, n)
          /\ Part(context, b, n, n)

\* The stream has failed, the rest is lost.
Lost == stream.bad /\ \E a \in 0 .. Size : Part(stream.file, 0, a, a)

\* The frame is closed after n bytes, and nothing is written any more.
Closed(n) ==
    /\ ~stream.bad
    /\ writer = "zstd" /\ (finished \/ gone)
    /\ stream.buffer = <<>> /\ context = <<>>
    /\ Part(stream.file, 0, n + 1, n)

FileOK == Lost \/ \E n \in 0 .. Size : Stored(n) \/ Closed(n)

\* finish has returned: everything is in the file.
Saved ==
    /\ writer = "raw" =>
          ~stream.bad /\ stream.buffer = <<>> /\ Part(stream.file, 0, Size, Size)
    /\ writer = "zstd" => Closed(Size)

\* The drivers write only as long as nothing has failed; what they return.
HeadlessInv ==
    /\ pcHeadless \in {"setup", "header", "loop", "end", "finish", "unwind", "return", "done"}
    /\ pcHeadless = "setup" => writer = "none"
    /\ pcHeadless \in {"header", "loop", "end", "finish"} =>
           writer # "none" /\ Stored(Size) /\ ~finished
    /\ pcHeadless # "done" => ~gone
    /\ pcHeadless = "finish" => Ended
    /\ pcHeadless = "unwind" => ~finished
    /\ pcHeadless = "return" => finished \/ code = "1"
    /\ pcHeadless # "done" => exit \in {"none", "killed"}

LiveInv ==
    /\ pcMain = "start" => writer = "none"
    /\ pcMain \in {"open", "loop", "body", "finish"} =>
           ~gone /\ ~finished /\ Stored(Size)
    /\ pcMain = "unwind" => ~finished
    /\ pcMain \in {"wait", "joined"} /\ writer # "none" => finished \/ code = "1"

WriterInv ==
    /\ mode \in {"headless", "live", "playback"}
    /\ exit \in {"none", "0", "1", "killed"} /\ code \in {"0", "1"}
    /\ WriterOK /\ FileOK
    /\ writer = "none" => Stored(Size)
    /\ finished => Saved /\ Ended
    /\ mode = "headless" => HeadlessInv
    /\ mode = "live" => LiveInv
    /\ mode = "playback" => writer = "none"
    /\ exit = "0" /\ writer # "none" => finished

(* Two parts that follow on each other are one.                             *)
LEMMA Joined ==
    ASSUME NEW n \in Nat, NEW a \in Nat, NEW b \in Nat, NEW c \in Nat, NEW s, NEW t,
           Part(s, a, b, n), Part(t, b, c, n)
    PROVE  Part(s \o t, a, c, n)
<1>1. /\ s \in Seq(Byte) /\ t \in Seq(Byte) /\ Len(s) \in Nat /\ Len(t) \in Nat
      /\ a + Len(s) = b /\ b + Len(t) = c
  BY DEF Part
<1>2. /\ s \o t \in Seq(Byte) /\ Len(s \o t) = Len(s) + Len(t)
  BY <1>1
<1>3. ASSUME NEW i \in 1 .. Len(s \o t) PROVE (s \o t)[i] = FileByte(n, a + i)
  <2>1. CASE i <= Len(s)
    BY <1>1, <1>2, <2>1 DEF Part
  <2>2. CASE i > Len(s)
    <3>1. (s \o t)[i] = t[i - Len(s)] /\ i - Len(s) \in 1 .. Len(t)
      BY <1>1, <1>2, <2>2
    <3>2. b + (i - Len(s)) = a + i
      BY <1>1, <1>2
    <3>3. QED
      BY <3>1, <3>2 DEF Part
  <2>3. QED
    BY <1>1, <1>2, <2>1, <2>2
<1>4. a + Len(s \o t) = c
  BY <1>1, <1>2
<1>5. QED
  BY <1>2, <1>3, <1>4 DEF Part

(* A part that is cut in two is two that follow on each other.              *)
LEMMA CutInTwo ==
    ASSUME NEW n \in Nat, NEW a \in Nat, NEW c \in Nat, NEW s, Part(s, a, c, n),
           NEW m \in 0 .. Len(s)
    PROVE  \E b \in Nat : /\ Part(W!First(s, m), a, b, n) /\ Part(W!Rest(s, m), b, c, n)
                          /\ b = a + m
<1>1. s \in Seq(Byte) /\ Len(s) \in Nat /\ m \in Nat /\ a + Len(s) = c
  BY DEF Part
<1> DEFINE b == a + m
<1>2. Part(W!First(s, m), a, b, n)
  <2>1. /\ SubSeq(s, 1, m) \in Seq(Byte) /\ Len(SubSeq(s, 1, m)) = m
        /\ \A i \in 1 .. m : SubSeq(s, 1, m)[i] = s[i]
    BY <1>1
  <2>2. QED
    BY <1>1, <2>1 DEF Part, W!First
<1>3. Part(W!Rest(s, m), b, c, n)
  <2>1. /\ SubSeq(s, m + 1, Len(s)) \in Seq(Byte)
        /\ Len(SubSeq(s, m + 1, Len(s))) = Len(s) - m
        /\ \A i \in 1 .. Len(s) - m : SubSeq(s, m + 1, Len(s))[i] = s[m + i]
    BY <1>1
  <2>2. ASSUME NEW i \in 1 .. Len(s) - m PROVE s[m + i] = FileByte(n, b + i)
    <3>1. m + i \in 1 .. Len(s) /\ a + (m + i) = b + i
      BY <1>1
    <3>2. s[m + i] = FileByte(n, a + (m + i))
      BY <3>1 DEF Part
    <3>3. QED
      BY <3>1, <3>2
  <2>3. b + (Len(s) - m) = c
    BY <1>1
  <2> HIDE DEF b
  <2>4. QED
    BY <2>1, <2>2, <2>3 DEF Part, W!Rest
<1>4. b \in Nat /\ b = a + m
  BY <1>1
<1> HIDE DEF b
<1>5. QED
  BY <1>2, <1>3, <1>4

(* A part has the length that its places say.                               *)
LEMMA PartLength ==
    ASSUME NEW n \in Nat, NEW a \in Nat, NEW b \in Nat, NEW s, Part(s, a, b, n)
    PROVE  s \in Seq(Byte) /\ Len(s) \in Nat /\ Len(s) = b - a /\ a <= b
  BY DEF Part

(* How many bytes of records a file has does not matter for those of them.  *)
LEMMA PartOfMore ==
    ASSUME NEW n \in Nat, NEW m \in Nat, NEW a \in Nat, NEW b \in Nat, NEW s,
           Part(s, a, b, n), b <= n, b <= m
    PROVE  Part(s, a, b, m)
<1>1. s \in Seq(Byte) /\ Len(s) \in Nat /\ a + Len(s) = b
  BY DEF Part
<1>2. \A i \in 1 .. Len(s) : FileByte(n, a + i) = FileByte(m, a + i)
  BY <1>1 DEF FileByte
<1>3. QED
  BY <1>1, <1>2 DEF Part

(* Nothing is a part anywhere.                                              *)
LEMMA EmptyPart ==
    ASSUME NEW n \in Nat, NEW a \in Nat
    PROVE  Part(<<>>, a, a, n)
<1>1. <<>> \in Seq(Byte) /\ Len(<<>>) = 0 /\ a + 0 = a
  OBVIOUS
<1>2. QED
  BY <1>1 DEF Part

(* The last block of the frame comes after the records.                     *)
LEMMA FramePart ==
    ASSUME NEW n \in Nat, NEW b \in Nat, NEW s, Part(s, b, n, n)
    PROVE  Part(Append(s, W!FrameEnd), b, n + 1, n)
<1> DEFINE t == Append(s, W!FrameEnd)
<1>1. s \in Seq(Byte) /\ Len(s) \in Nat /\ b + Len(s) = n
  BY DEF Part
<1>2. W!FrameEnd \in Byte
  BY DEF Byte
<1>3. /\ t \in Seq(Byte) /\ Len(t) = Len(s) + 1
      /\ \A i \in 1 .. Len(s) : t[i] = s[i]
      /\ t[Len(s) + 1] = W!FrameEnd
  BY <1>1, <1>2
<1> HIDE DEF t
<1>4. ASSUME NEW i \in 1 .. Len(t) PROVE t[i] = FileByte(n, b + i)
  <2>1. CASE i \in 1 .. Len(s)
    BY <1>3, <2>1 DEF Part
  <2>2. CASE i = Len(s) + 1
    <3>1. ~(b + i <= n)
      BY <1>1, <2>2
    <3>2. QED
      BY <1>3, <2>2, <3>1 DEF FileByte
  <2>3. QED
    BY <1>1, <1>3, <2>1, <2>2
<1>5. b + Len(t) = n + 1
  BY <1>1, <1>3
<1>6. QED
  BY <1>3, <1>4, <1>5 DEF Part, t

(* The next record is the next two bytes.                                   *)
LEMMA RecordPart ==
    ASSUME NEW h \in Nat
    PROVE  Part(W!RecordBytes(h + 1), 2 * h, 2 * (h + 1), 2 * (h + 1))
<1>1. /\ (2 * h + 1 + 1) \div 2 = h + 1 /\ (2 * h + 1) % 2 = 1
      /\ (2 * h + 2 + 1) \div 2 = h + 1 /\ (2 * h + 2) % 2 = 0
  OBVIOUS
<1>2. /\ W!ByteOf(2 * h + 1) = <<h + 1, "first">>
      /\ W!ByteOf(2 * h + 2) = <<h + 1, "second">>
  BY <1>1 DEF W!ByteOf, W!RecordBytes
<1>3. W!RecordBytes(h + 1) = <<W!ByteOf(2 * h + 1), W!ByteOf(2 * h + 2)>>
  BY <1>2 DEF W!RecordBytes
<1>4. W!ByteOf(2 * h + 1) \in Byte /\ W!ByteOf(2 * h + 2) \in Byte
  <2>1. 2 * h + 1 \in Nat \ {0} /\ 2 * h + 2 \in Nat \ {0}
    OBVIOUS
  <2>2. QED
    BY <2>1 DEF Byte
<1>5. /\ FileByte(2 * (h + 1), 2 * h + 1) = W!ByteOf(2 * h + 1)
      /\ FileByte(2 * (h + 1), 2 * h + 2) = W!ByteOf(2 * h + 2)
  BY DEF FileByte
<1> DEFINE first == W!ByteOf(2 * h + 1)
           second == W!ByteOf(2 * h + 2)
           b == <<first, second>>
<1>6. b \in Seq(Byte) /\ Len(b) = 2 /\ b[1] = first /\ b[2] = second
  <2> HIDE DEF first, second
  <2> QED BY <1>4 DEF first, second
<1>7. \A i \in 1 .. Len(b) : b[i] = FileByte(2 * (h + 1), 2 * h + i)
  <2>1. \A i \in 1 .. 2 : i = 1 \/ i = 2
    OBVIOUS
  <2> HIDE DEF b
  <2>2. QED
    BY <1>5, <1>6, <2>1
<1>8. 2 * h + 2 = 2 * (h + 1)
  OBVIOUS
<1> HIDE DEF b
<1>9. QED
  BY <1>3, <1>6, <1>7, <1>8 DEF Part, b

(* A device that fails has taken a part of the bytes, and not the last.     *)
LEMMA FailureParts ==
    ASSUME NEW n \in Nat, NEW s \in Streams, NEW a \in Nat, NEW c \in Nat,
           Part(s.file, 0, a, n), NEW data, Part(data, a, c, n),
           NEW w \in W!Failures(s, data)
    PROVE  w \in Streams /\ w.bad /\ \E d \in Nat : d < c /\ Part(w.file, 0, d, n)
<1>1. Len(data) \in Nat /\ Len(data) = c - a
  BY PartLength
<1>2. PICK m \in 0 .. Len(data) - 1 :
         w = [s EXCEPT !.file = @ \o W!First(data, m), !.buffer = <<>>, !.bad = TRUE]
  BY DEF W!Failures
<1>3. m \in 0 .. Len(data)
  BY <1>1
<1>4. PICK d \in Nat : Part(W!First(data, m), a, d, n) /\ d = a + m
  BY <1>3, CutInTwo
<1>5. d < c
  BY <1>1, <1>4
<1> DEFINE file == s.file \o W!First(data, m)
<1>6. Part(file, 0, d, n)
  BY <1>4, Joined
<1>7. file \in Seq(Byte)
  BY <1>6 DEF Part
<1> HIDE DEF file
<1>8. w = [s EXCEPT !.file = file, !.buffer = <<>>, !.bad = TRUE]
  BY <1>2 DEF file
<1>9. w \in Streams /\ w.file = file /\ w.bad = TRUE
  <2>1. <<>> \in Seq(Byte) /\ TRUE \in BOOLEAN
    OBVIOUS
  <2>2. QED
    BY <1>7, <1>8, <2>1 DEF Streams
<1>10. QED
  BY <1>5, <1>6, <1>9

(* A write that does not fail puts all of its bytes after those that are    *)
(* there, in the file or the buffer.                                        *)
LEMMA WrittenParts ==
    ASSUME NEW n \in Nat, NEW s \in Streams, ~s.bad,
           NEW a \in Nat, NEW b \in Nat, NEW c \in Nat,
           Part(s.file, 0, a, n), Part(s.buffer, a, b, n),
           NEW data, Part(data, b, c, n), NEW w \in W!Written(s, data)
    PROVE  /\ w \in Streams
           /\ ~w.bad => \E d \in Nat : Part(w.file, 0, d, n) /\ Part(w.buffer, d, c, n)
           /\ w.bad => \E d \in Nat : d < c /\ Part(w.file, 0, d, n)
<1> DEFINE all == s.buffer \o data
<1>1. Part(all, a, c, n)
  BY Joined
<1>2. \/ data = <<>> /\ w = s
      \/ \E m \in 0 .. Len(all) :
            w = [s EXCEPT !.file = @ \o W!First(all, m), !.buffer = W!Rest(all, m)]
      \/ w \in W!Failures(s, all)
  BY DEF W!Written
<1> HIDE DEF all
<1>3. CASE data = <<>> /\ w = s
  <2>1. Len(data) = 0 /\ Len(data) = c - b
    BY <1>3, PartLength
  <2>2. c = b
    BY <2>1
  <2>3. QED
    BY <1>3, <2>2
<1>4. CASE w \in W!Failures(s, all)
  BY <1>1, <1>4, FailureParts
<1>5. ASSUME NEW m \in 0 .. Len(all),
             w = [s EXCEPT !.file = @ \o W!First(all, m), !.buffer = W!Rest(all, m)]
      PROVE  /\ w \in Streams /\ ~w.bad
             /\ \E d \in Nat : Part(w.file, 0, d, n) /\ Part(w.buffer, d, c, n)
  <2> DEFINE first == W!First(all, m)
             rest == W!Rest(all, m)
             file == s.file \o first
  <2>1. PICK d \in Nat : Part(first, a, d, n) /\ Part(rest, d, c, n)
    BY <1>1, CutInTwo
  <2> HIDE DEF first, rest
  <2>2. Part(file, 0, d, n)
    BY <2>1, Joined
  <2>3. file \in Seq(Byte) /\ rest \in Seq(Byte)
    BY <2>1, <2>2 DEF Part
  <2>4. w = [s EXCEPT !.file = file, !.buffer = rest]
    BY <1>5 DEF first, rest
  <2> HIDE DEF file
  <2>5. w \in Streams /\ w.file = file /\ w.buffer = rest /\ w.bad = s.bad
    BY <2>3, <2>4 DEF Streams
  <2>6. QED
    BY <2>1, <2>2, <2>5
<1>6. QED
  BY <1>2, <1>3, <1>4, <1>5

(* A flush that does not fail empties the buffer into the file.             *)
LEMMA FlushedParts ==
    ASSUME NEW n \in Nat, NEW s \in Streams, ~s.bad, NEW a \in Nat, NEW b \in Nat,
           Part(s.file, 0, a, n), Part(s.buffer, a, b, n), NEW w \in W!Flushed(s)
    PROVE  /\ w \in Streams
           /\ ~w.bad => w.buffer = <<>> /\ Part(w.file, 0, b, n)
           /\ w.bad => \E d \in Nat : d < b /\ Part(w.file, 0, d, n)
<1> DEFINE file == s.file \o s.buffer
<1>1. Part(file, 0, b, n)
  BY Joined
<1>2. file \in Seq(Byte)
  BY <1>1 DEF Part
<1>3. \/ w = [s EXCEPT !.file = file, !.buffer = <<>>]
      \/ w \in W!Failures(s, s.buffer)
  BY DEF W!Flushed
<1> HIDE DEF file
<1>4. CASE w = [s EXCEPT !.file = file, !.buffer = <<>>]
  <2>1. <<>> \in Seq(Byte)
    OBVIOUS
  <2>2. w \in Streams /\ w.file = file /\ w.buffer = <<>> /\ w.bad = s.bad
    BY <1>2, <1>4, <2>1 DEF Streams
  <2>3. QED
    BY <1>1, <2>2
<1>5. CASE w \in W!Failures(s, s.buffer)
  BY <1>5, FailureParts
<1>6. QED
  BY <1>3, <1>4, <1>5

(* The encoding of a record, handed over when everything before it has been *)
(* stored: it is stored if writeChunk returns, and if it throws the file    *)
(* has no hole.                                                             *)
LEMMA ChunkWritten ==
    ASSUME WriterOK, Stored(Size), NEW kind \in {"header", "tick", "end"},
           NEW ok \in BOOLEAN, W!writeChunk(kind, ok)
    PROVE  /\ WriterOK' /\ FileOK' /\ (ok => Stored(Size)')
           /\ UNCHANGED <<writer, gone, finished>> /\ handed' = Append(handed, kind)
<1>0. PICK h \in Nat : h = Len(handed)
  BY DEF WriterOK
<1> DEFINE n == 2 * h
           m == 2 * (h + 1)
           chunk == W!RecordBytes(h + 1)
<1>1. /\ handed' = Append(handed, kind) /\ UNCHANGED <<writer, gone, finished>>
      /\ W!RawWrite(chunk, ok) \/ W!ZstdWrite(chunk, ok)
      /\ writer # "none" /\ ~gone
  BY <1>0 DEF W!writeChunk, W!Open
<1>2. handed \in Seq({"header", "tick", "end"})
  BY DEF WriterOK
<1>3. /\ handed' \in Seq({"header", "tick", "end"}) /\ Len(handed') = h + 1
      /\ Size = n /\ Size' = m
  BY <1>0, <1>1, <1>2 DEF Size
<1>4. Part(chunk, n, m, m)
  BY <1>2, RecordPart
<1>5. n \in Nat /\ m \in Nat /\ n < m
  BY <1>2
<1> HIDE DEF n, m, chunk
<1>6. stream \in Streams /\ ~stream.bad
  BY <1>3 DEF WriterOK, Stored
<1>7. PICK a \in Nat, b \in Nat :
         Part(stream.file, 0, a, n) /\ Part(stream.buffer, a, b, n) /\ Part(context, b, n, n)
  BY <1>3 DEF Stored
<1>8. a <= b /\ b <= n /\ a <= n /\ a <= m /\ b <= m /\ n <= m
  <2>1. a <= b /\ b <= n
    BY <1>5, <1>7, PartLength
  <2>2. QED
    BY <1>5, <2>1
<1>9. /\ Part(stream.file, 0, a, m) /\ Part(stream.buffer, a, b, m) /\ Part(context, b, n, m)
  BY <1>5, <1>7, <1>8, PartOfMore
<1>10. ASSUME stream' \in Streams, context' \in Seq(Byte), writer = "raw" => context' = <<>>
       PROVE  WriterOK'
  BY <1>1, <1>3, <1>10 DEF WriterOK
<1>11. ASSUME NEW d \in Nat, d <= m, stream'.bad, Part(stream'.file, 0, d, m)
       PROVE  FileOK'
  <2>1. d <= d /\ d \in 0 .. m
    BY <1>5, <1>11
  <2>2. Part(stream'.file, 0, d, d)
    BY <1>5, <1>11, <2>1, PartOfMore
  <2>3. QED
    BY <1>3, <1>11, <2>1, <2>2 DEF FileOK, Lost
<1>12. ASSUME Stored(m)'
       PROVE  FileOK' /\ Stored(Size)'
  <2>1. m \in 0 .. m
    BY <1>5
  <2>2. QED
    BY <1>3, <1>12, <2>1 DEF FileOK
<1>13. CASE W!RawWrite(chunk, ok)
  <2>1. /\ writer = "raw" /\ stream' \in W!Written(stream, chunk)
        /\ ok = ~stream'.bad /\ context' = context
    BY <1>13 DEF W!RawWrite
  <2>2. context = <<>> /\ Len(context) = 0
    BY <2>1 DEF WriterOK
  <2>3. b = n
    <3>1. Len(context) = n - b
      BY <1>5, <1>7, PartLength
    <3>2. QED
      BY <1>5, <2>2, <3>1
  <2>4. /\ stream' \in Streams
        /\ ~stream'.bad => \E d \in Nat : Part(stream'.file, 0, d, m) /\ Part(stream'.buffer, d, m, m)
        /\ stream'.bad => \E d \in Nat : d < m /\ Part(stream'.file, 0, d, m)
    BY <1>4, <1>5, <1>6, <1>9, <2>1, <2>3, WrittenParts
  <2>5. WriterOK'
    <3>1. context \in Seq(Byte)
      BY DEF WriterOK
    <3>2. QED
      BY <1>10, <2>1, <2>2, <2>4, <3>1
  <2>6. CASE stream'.bad
    <3>1. PICK d \in Nat : d < m /\ Part(stream'.file, 0, d, m)
      BY <2>4, <2>6
    <3>2. d <= m
      BY <1>5, <3>1
    <3>3. QED
      BY <1>1, <1>11, <2>1, <2>5, <2>6, <3>1, <3>2
  <2>7. CASE ~stream'.bad
    <3>1. Part(context', m, m, m)
      BY <1>5, <2>1, <2>2, EmptyPart
    <3>2. Stored(m)'
      BY <1>5, <2>4, <2>7, <3>1 DEF Stored
    <3>3. QED
      BY <1>1, <1>12, <2>5, <3>2
  <2>8. QED
    BY <2>6, <2>7
<1>14. CASE W!ZstdWrite(chunk, ok)
  <2> DEFINE pending == context \o chunk
  <2>1. /\ writer = "zstd"
        /\ \/ \E k \in 0 .. Len(pending) :
                 /\ stream' \in W!Written(stream, W!First(pending, k))
                 /\ context' = W!Rest(pending, k)
                 /\ ok = (k = 0 \/ ~stream'.bad)
           \/ ~ok /\ UNCHANGED <<stream, context>>
    BY <1>14 DEF W!ZstdWrite
  <2>2. Part(pending, b, m, m)
    BY <1>4, <1>5, <1>9, Joined
  <2> HIDE DEF pending
  <2>3. CASE ~ok /\ UNCHANGED <<stream, context>>
    <3>1. WriterOK'
      BY <1>10, <2>1, <2>3 DEF WriterOK
    <3>2. Stored(n)' /\ n \in 0 .. m
      BY <1>3, <1>5, <1>6, <1>7, <2>3 DEF Stored
    <3>3. FileOK'
      BY <1>3, <3>2 DEF FileOK
    <3>4. QED
      BY <1>1, <2>3, <3>1, <3>3
  <2>4. ASSUME NEW k \in 0 .. Len(pending),
               stream' \in W!Written(stream, W!First(pending, k)),
               context' = W!Rest(pending, k), ok = (k = 0 \/ ~stream'.bad)
        PROVE  WriterOK' /\ FileOK' /\ (ok => Stored(Size)')
    <3> DEFINE first == W!First(pending, k)
               rest == W!Rest(pending, k)
    <3>1. PICK e \in Nat : Part(first, b, e, m) /\ Part(rest, e, m, m) /\ e = b + k
      BY <1>5, <2>2, CutInTwo
    <3>2. k \in Nat
      BY <1>5, <2>2, PartLength
    <3> HIDE DEF first, rest
    <3>3. stream' \in W!Written(stream, first) /\ context' = rest
      BY <2>4 DEF first, rest
    <3>4. e <= m
      BY <1>5, <3>1, PartLength
    <3>5. /\ stream' \in Streams
          /\ ~stream'.bad => \E d \in Nat : Part(stream'.file, 0, d, m) /\ Part(stream'.buffer, d, e, m)
          /\ stream'.bad => \E d \in Nat : d < e /\ Part(stream'.file, 0, d, m)
      BY <1>5, <1>6, <1>9, <3>1, <3>3, WrittenParts
    <3>6. WriterOK'
      <4>1. rest \in Seq(Byte)
        BY <3>1 DEF Part
      <4>2. QED
        BY <1>10, <2>1, <3>3, <3>5, <4>1
    <3>7. CASE stream'.bad
      <4>1. PICK d \in Nat : d < e /\ Part(stream'.file, 0, d, m)
        BY <3>5, <3>7
      <4>2. d <= m
        BY <1>5, <3>4, <4>1
      <4>3. ~ok
        <5>1. SUFFICES ASSUME k = 0 PROVE FALSE
          BY <2>4, <3>7
        <5>2. Len(first) = 0 /\ first \in Seq(Byte)
          <6>1. Len(first) = e - b /\ first \in Seq(Byte)
            BY <1>5, <3>1, PartLength
          <6>2. QED
            BY <3>1, <5>1, <6>1
        <5>3. first = <<>>
          BY <5>2
        <5>4. stream' = stream
          BY <1>6, <3>3, <5>3 DEF W!Written
        <5>5. QED
          BY <1>6, <3>7, <5>4
      <4>4. QED
        BY <1>11, <3>6, <3>7, <4>1, <4>2, <4>3
    <3>8. CASE ~stream'.bad
      <4>1. Stored(m)'
        BY <3>1, <3>3, <3>5, <3>8 DEF Stored
      <4>2. QED
        BY <1>12, <3>6, <4>1
    <3>9. QED
      BY <3>7, <3>8
  <2>5. QED
    BY <1>1, <2>1, <2>3, <2>4
<1>15. QED
  BY <1>1, <1>13, <1>14

(* Ending the frame and flushing the stream: if nothing is reported, all    *)
(* that was stored is in the file.                                          *)
LEMMA FinishOutcomes ==
    ASSUME WriterOK, writer # "none", NEW n \in Nat, Stored(n),
           NEW ok \in BOOLEAN, W!FinishOutcome(stream, ok)
    PROVE  /\ stream' \in Streams /\ context' \in Seq(Byte)
           /\ writer = "raw" => context' = <<>>
           /\ \/ ~ok /\ stream'.bad /\ \E d \in Nat : d <= n /\ Part(stream'.file, 0, d, d)
              \/ /\ ok /\ ~stream'.bad /\ stream'.buffer = <<>> /\ context' = <<>>
                 /\ writer = "raw" => Part(stream'.file, 0, n, n)
                 /\ writer = "zstd" => Part(stream'.file, 0, n + 1, n)
              \/ ~ok /\ UNCHANGED <<stream, context>>
<1> DEFINE data == IF writer = "zstd" THEN Append(context, W!FrameEnd) ELSE <<>>
           last == IF writer = "zstd" THEN n + 1 ELSE n
<1>1. stream \in Streams /\ ~stream.bad /\ context \in Seq(Byte) /\ last \in Nat /\ last <= n + 1
  BY DEF WriterOK, Stored
<1>2. PICK a \in Nat, b \in Nat :
         Part(stream.file, 0, a, n) /\ Part(stream.buffer, a, b, n) /\ Part(context, b, n, n)
  BY DEF Stored
<1>3. Part(data, b, last, n)
  <2>1. CASE writer = "zstd"
    BY <1>2, <2>1, FramePart
  <2>2. CASE writer = "raw"
    <3>1. context = <<>> /\ data = context /\ last = n
      BY <2>2 DEF WriterOK
    <3>2. QED
      BY <1>2, <3>1
  <2>3. QED
    BY <2>1, <2>2 DEF WriterOK
<1>4. \/ \E w \in W!Written(stream, data) :
            /\ IF w.bad THEN stream' = w /\ ~ok ELSE W!Flush(w, ok)
            /\ context' = <<>>
      \/ writer = "zstd" /\ ~ok /\ UNCHANGED <<stream, context>>
  BY DEF W!FinishOutcome
<1>5. /\ writer = "raw" => last = n
      /\ writer = "zstd" => last = n + 1
  BY DEF WriterOK
<1> HIDE DEF data, last
<1>6. CASE writer = "zstd" /\ ~ok /\ UNCHANGED <<stream, context>>
  BY <1>1, <1>6
<1>7. ASSUME NEW d \in Nat, d < last, NEW file, Part(file, 0, d, n)
      PROVE  d <= n /\ Part(file, 0, d, d)
  <2>1. d <= n /\ d <= d
    BY <1>1, <1>7
  <2>2. QED
    BY <1>7, <2>1, PartOfMore
<1>8. ASSUME NEW w \in W!Written(stream, data),
             IF w.bad THEN stream' = w /\ ~ok ELSE W!Flush(w, ok), context' = <<>>
      PROVE  /\ stream' \in Streams
             /\ \/ ~ok /\ stream'.bad /\ \E d \in Nat : d <= n /\ Part(stream'.file, 0, d, d)
                \/ ok /\ ~stream'.bad /\ stream'.buffer = <<>> /\ Part(stream'.file, 0, last, n)
  <2>1. /\ w \in Streams
        /\ ~w.bad => \E d \in Nat : Part(w.file, 0, d, n) /\ Part(w.buffer, d, last, n)
        /\ w.bad => \E d \in Nat : d < last /\ Part(w.file, 0, d, n)
    BY <1>1, <1>2, <1>3, WrittenParts
  <2>2. CASE w.bad
    BY <1>7, <1>8, <2>1, <2>2
  <2>3. CASE ~w.bad
    <3>1. stream' \in W!Flushed(w) /\ ok = ~stream'.bad
      BY <1>8, <2>3 DEF W!Flush
    <3>2. PICK d \in Nat : Part(w.file, 0, d, n) /\ Part(w.buffer, d, last, n)
      BY <2>1, <2>3
    <3>3. /\ stream' \in Streams
          /\ ~stream'.bad => stream'.buffer = <<>> /\ Part(stream'.file, 0, last, n)
          /\ stream'.bad => \E e \in Nat : e < last /\ Part(stream'.file, 0, e, n)
      BY <1>1, <2>1, <2>3, <3>1, <3>2, FlushedParts
    <3>4. CASE stream'.bad
      BY <1>7, <3>1, <3>3, <3>4
    <3>5. CASE ~stream'.bad
      BY <3>1, <3>3, <3>5
    <3>6. QED
      BY <3>3, <3>4, <3>5
  <2>4. QED
    BY <2>2, <2>3
<1>9. <<>> \in Seq(Byte)
  OBVIOUS
<1>10. QED
  BY <1>4, <1>5, <1>6, <1>8, <1>9

(* When finish returns everything is saved; when it throws the file has no  *)
(* hole.                                                                    *)
LEMMA FinishSaves ==
    ASSUME WriterOK, Stored(Size), NEW ok \in BOOLEAN, W!finish(ok)
    PROVE  /\ WriterOK' /\ FileOK' /\ (ok => Saved')
           /\ finished' = ok /\ UNCHANGED <<writer, gone, handed>>
<1>1. /\ W!FinishOutcome(stream, ok) /\ writer # "none"
      /\ finished' = ok /\ UNCHANGED <<writer, gone, handed>>
  BY DEF W!finish, W!Open
<1>2. PICK n \in Nat : n = Size /\ n \in 0 .. Size
  BY DEF WriterOK, Size
<1>3. Size' = n /\ Size = n
  BY <1>1, <1>2 DEF Size
<1>4. Stored(n)
  BY <1>2
<1>5. /\ stream' \in Streams /\ context' \in Seq(Byte)
      /\ writer = "raw" => context' = <<>>
      /\ \/ ~ok /\ stream'.bad /\ \E d \in Nat : d <= n /\ Part(stream'.file, 0, d, d)
         \/ /\ ok /\ ~stream'.bad /\ stream'.buffer = <<>> /\ context' = <<>>
            /\ writer = "raw" => Part(stream'.file, 0, n, n)
            /\ writer = "zstd" => Part(stream'.file, 0, n + 1, n)
         \/ ~ok /\ UNCHANGED <<stream, context>>
  BY <1>1, <1>4, FinishOutcomes
<1>6. WriterOK'
  BY <1>1, <1>5 DEF WriterOK
<1>7. CASE ~ok /\ stream'.bad /\ \E d \in Nat : d <= n /\ Part(stream'.file, 0, d, d)
  <2>1. PICK d \in 0 .. n : Part(stream'.file, 0, d, d)
    BY <1>7
  <2>2. QED
    BY <1>1, <1>3, <1>6, <1>7, <2>1 DEF FileOK, Lost
<1>8. CASE ~ok /\ UNCHANGED <<stream, context>>
  <2>1. Stored(n)'
    BY <1>4, <1>8 DEF Stored
  <2>2. QED
    BY <1>1, <1>2, <1>3, <1>6, <1>8, <2>1 DEF FileOK
<1>9. CASE /\ ok /\ ~stream'.bad /\ stream'.buffer = <<>> /\ context' = <<>>
           /\ writer = "raw" => Part(stream'.file, 0, n, n)
           /\ writer = "zstd" => Part(stream'.file, 0, n + 1, n)
  <2>1. CASE writer = "zstd"
    <3>1. Closed(n)'
      BY <1>1, <1>9, <2>1 DEF Closed
    <3>2. Saved'
      BY <1>1, <1>3, <2>1, <3>1 DEF Saved
    <3>3. QED
      BY <1>1, <1>2, <1>3, <1>6, <3>1, <3>2 DEF FileOK
  <2>2. CASE writer = "raw"
    <3>1. Stored(n)'
      BY <1>9, <2>2, EmptyPart DEF Stored
    <3>2. Saved'
      BY <1>1, <1>3, <1>9, <2>2 DEF Saved
    <3>3. QED
      BY <1>1, <1>2, <1>3, <1>6, <3>1, <3>2 DEF FileOK
  <2>3. QED
    BY <1>1, <2>1, <2>2 DEF WriterOK
<1>10. QED
  BY <1>5, <1>7, <1>8, <1>9

(* The destructor leaves what is saved as it is, and makes no hole.         *)
LEMMA DestroyKeeps ==
    ASSUME WriterOK, FileOK, finished => Saved, W!Destroy
    PROVE  /\ WriterOK' /\ FileOK' /\ (finished => Saved')
           /\ UNCHANGED <<writer, handed, finished>>
<1>1. /\ writer # "none" /\ ~gone /\ gone' = TRUE /\ UNCHANGED <<writer, handed, finished>>
      /\ \/ writer = "zstd" /\ finished /\ UNCHANGED <<stream, context>>
         \/ /\ ~(writer = "zstd" /\ finished)
            /\ \E ok \in BOOLEAN : W!FinishOutcome(stream, ok)
  BY DEF W!Destroy, W!Open
<1>2. PICK size \in Nat : size = Size /\ size = Size'
  BY <1>1 DEF WriterOK, Size
<1>3. CASE writer = "zstd" /\ finished /\ UNCHANGED <<stream, context>>
  <2>1. WriterOK'
    BY <1>1, <1>3 DEF WriterOK
  <2>2. Closed(size)
    BY <1>2, <1>3 DEF Saved
  <2>3. Closed(size)'
    BY <1>1, <1>3, <2>2 DEF Closed
  <2>4. Saved' /\ size \in 0 .. size
    BY <1>1, <1>2, <1>3, <2>3 DEF Saved
  <2>5. QED
    BY <1>1, <1>2, <2>1, <2>3, <2>4 DEF FileOK
<1>4. ASSUME NEW ok \in BOOLEAN, W!FinishOutcome(stream, ok), writer = "zstd" => ~finished
      PROVE  WriterOK' /\ FileOK' /\ (finished => Saved')
  <2>1. CASE Lost
    <3> DEFINE data == IF writer = "zstd" THEN Append(context, W!FrameEnd) ELSE <<>>
    <3>1. W!Written(stream, data) = {stream} /\ stream.bad
      BY <2>1 DEF W!Written, Lost
    <3>2. stream' = stream /\ (context' = <<>> \/ context' = context)
      BY <1>4, <3>1 DEF W!FinishOutcome
    <3>3. WriterOK'
      <4>1. <<>> \in Seq(Byte)
        OBVIOUS
      <4>2. QED
        BY <1>1, <3>2, <4>1 DEF WriterOK
    <3>4. FileOK'
      BY <1>1, <1>2, <2>1, <3>2 DEF FileOK, Lost
    <3>5. ~finished
      BY <1>1, <1>4, <2>1 DEF Saved, Lost, WriterOK
    <3>6. QED
      BY <3>3, <3>4, <3>5
  <2>2. ASSUME NEW n \in 0 .. Size, Closed(n) PROVE FALSE
    BY <1>1, <1>4, <2>2 DEF Closed
  <2>3. ASSUME NEW n \in 0 .. Size, Stored(n)
        PROVE  WriterOK' /\ FileOK' /\ (finished => Saved')
    <3>1. n \in Nat /\ n <= size /\ n \in 0 .. size
      BY <1>2
    <3>2. /\ stream' \in Streams /\ context' \in Seq(Byte)
          /\ writer = "raw" => context' = <<>>
          /\ \/ ~ok /\ stream'.bad /\ \E d \in Nat : d <= n /\ Part(stream'.file, 0, d, d)
             \/ /\ ok /\ ~stream'.bad /\ stream'.buffer = <<>> /\ context' = <<>>
                /\ writer = "raw" => Part(stream'.file, 0, n, n)
                /\ writer = "zstd" => Part(stream'.file, 0, n + 1, n)
             \/ ~ok /\ UNCHANGED <<stream, context>>
      BY <1>1, <1>4, <2>3, <3>1, FinishOutcomes
    <3>3. WriterOK'
      BY <1>1, <3>2 DEF WriterOK
    <3>4. FileOK'
      <4>1. CASE stream'.bad /\ \E d \in Nat : d <= n /\ Part(stream'.file, 0, d, d)
        <5>1. PICK d \in Nat : d <= n /\ Part(stream'.file, 0, d, d)
          BY <4>1
        <5>2. d \in 0 .. size
          BY <1>2, <3>1, <5>1
        <5>3. QED
          BY <1>2, <4>1, <5>1, <5>2 DEF FileOK, Lost
      <4>2. CASE UNCHANGED <<stream, context>>
        <5>1. Stored(n)'
          BY <2>3, <4>2 DEF Stored
        <5>2. QED
          BY <1>2, <3>1, <5>1 DEF FileOK
      <4>3. CASE /\ ~stream'.bad /\ stream'.buffer = <<>> /\ context' = <<>>
                 /\ writer = "raw" /\ Part(stream'.file, 0, n, n)
        <5>1. Stored(n)'
          BY <3>1, <4>3, EmptyPart DEF Stored
        <5>2. QED
          BY <1>2, <3>1, <5>1 DEF FileOK
      <4>4. CASE /\ ~stream'.bad /\ stream'.buffer = <<>> /\ context' = <<>>
                 /\ writer = "zstd" /\ Part(stream'.file, 0, n + 1, n)
        <5>1. Closed(n)'
          BY <1>1, <4>4 DEF Closed
        <5>2. QED
          BY <1>2, <3>1, <5>1 DEF FileOK
      <4>5. QED
        BY <1>1, <3>2, <4>1, <4>2, <4>3, <4>4 DEF WriterOK
    <3>5. ASSUME finished PROVE Saved'
      <4>1. /\ writer = "raw" /\ ~stream.bad /\ stream.buffer = <<>>
            /\ Part(stream.file, 0, size, size)
        BY <1>1, <1>2, <1>4, <3>5 DEF Saved, WriterOK
      <4>2. stream \in Streams
        BY DEF WriterOK
      <4>3. W!Written(stream, <<>>) = {stream}
        BY DEF W!Written
      <4>4. stream' \in W!Flushed(stream)
        BY <1>4, <4>1, <4>3 DEF W!FinishOutcome, W!Flush
      <4>5. Part(stream.buffer, size, size, size)
        BY <4>1, EmptyPart
      <4>6. /\ stream'.bad \in BOOLEAN
            /\ ~stream'.bad => stream'.buffer = <<>> /\ Part(stream'.file, 0, size, size)
        BY <4>1, <4>2, <4>4, <4>5, FlushedParts DEF Streams
      <4>7. ~stream'.bad
        <5>1. Len(stream.buffer) = 0
          BY <4>1
        <5>2. W!Failures(stream, stream.buffer) = {}
          <6>1. ~\E m \in 0 .. Len(stream.buffer) - 1 : TRUE
            BY <5>1
          <6>2. QED
            BY <6>1 DEF W!Failures
        <5>3. stream' = [stream EXCEPT !.file = @ \o stream.buffer, !.buffer = <<>>]
          BY <4>1, <4>4, <5>2 DEF W!Flushed
        <5>4. QED
          BY <4>1, <4>2, <5>3 DEF Streams
      <4>8. QED
        BY <1>1, <1>2, <4>1, <4>6, <4>7 DEF Saved
    <3>6. QED
      BY <3>3, <3>4, <3>5
  <2>4. QED
    BY <2>1, <2>2, <2>3 DEF FileOK
<1>5. QED
  BY <1>1, <1>3, <1>4

-----------------------------------------------------------------------------
(* The drivers and their writer.                                            *)

(* What a step that leaves the writer alone leaves true.                    *)
LEMMA WriterAlone ==
    ASSUME UNCHANGED writerVars
    PROVE  /\ WriterOK => WriterOK'
           /\ FileOK => FileOK'
           /\ Stored(Size) => Stored(Size)'
           /\ Saved => Saved'
           /\ Ended => Ended'
<1>1. UNCHANGED <<writer, gone, handed, stream, context, finished>>
  BY DEF writerVars
<1>2. Size' = Size
  BY <1>1 DEF Size
<1>3. /\ Stored(Size) => Stored(Size)'
      /\ Lost => Lost'
      /\ \A n \in 0 .. Size : (Stored(n) => Stored(n)') /\ (Closed(n) => Closed(n)')
      /\ Closed(Size) => Closed(Size)'
  BY <1>1, <1>2 DEF Stored, Lost, Closed
<1>4. WriterOK => WriterOK'
  BY <1>1 DEF WriterOK
<1>5. FileOK => FileOK'
  BY <1>2, <1>3 DEF FileOK
<1>6. Saved => Saved'
  BY <1>1, <1>2, <1>3 DEF Saved
<1>7. Ended => Ended'
  BY <1>1 DEF Ended
<1>8. QED
  BY <1>3, <1>4, <1>5, <1>6, <1>7

(* A file that holds everything has no hole.                                *)
LEMMA StoredIsOK ==
    ASSUME WriterOK, Stored(Size)
    PROVE  FileOK
<1>1. Size \in 0 .. Size
  BY DEF WriterOK, Size
<1>2. QED
  BY <1>1 DEF FileOK

(* A new writer has nothing to store.                                       *)
LEMMA CreateKeeps ==
    ASSUME WriterOK, Stored(Size), NEW kind \in {"raw", "zstd"}, W!Create(kind)
    PROVE  WriterOK' /\ FileOK' /\ Stored(Size)' /\ ~finished' /\ ~gone' /\ writer' # "none"
<1>1. /\ writer = "none" /\ writer' = kind
      /\ UNCHANGED <<gone, handed, stream, context, finished>>
  BY DEF W!Create
<1>2. WriterOK' /\ ~finished' /\ ~gone'
  BY <1>1 DEF WriterOK
<1>3. Stored(Size)'
  BY <1>1 DEF Stored, Size
<1>4. Size' = Size /\ Size \in 0 .. Size
  BY <1>1 DEF WriterOK, Size
<1>5. QED
  BY <1>1, <1>2, <1>3, <1>4 DEF FileOK

(* The end marker has been handed over.                                     *)
LEMMA EndHanded ==
    ASSUME WriterOK, handed' = Append(handed, "end")
    PROVE  Ended'
<1>1. handed \in Seq({"header", "tick", "end"}) /\ Len(handed) \in Nat
  BY DEF WriterOK
<1>2. handed' # <<>> /\ Len(handed') = Len(handed) + 1 /\ handed'[Len(handed) + 1] = "end"
  BY <1>1
<1>3. QED
  BY <1>2 DEF Ended, Last

(* There is no writer at the start.                                         *)
LEMMA WriterStarts ==
    ASSUME Init
    PROVE  WriterInv
<1>1. /\ writer = "none" /\ gone = FALSE /\ handed = <<>> /\ finished = FALSE
      /\ stream = [file |-> <<>>, buffer |-> <<>>, bad |-> FALSE] /\ context = <<>>
  BY DEF Init, W!Init
<1>2. <<>> \in Seq(Byte) /\ <<>> \in Seq({"header", "tick", "end"}) /\ Len(<<>>) = 0
  OBVIOUS
<1>3. WriterOK
  <2>1. stream \in Streams
    BY <1>1, <1>2 DEF Streams
  <2>2. QED
    BY <1>1, <1>2, <2>1 DEF WriterOK
<1>4. Size = 0
  BY <1>1, <1>2 DEF Size
<1>5. Stored(Size)
  <2>1. Part(<<>>, 0, 0, 0) /\ 0 \in Nat
    BY EmptyPart
  <2>2. stream.file = <<>> /\ stream.buffer = <<>> /\ ~stream.bad
    BY <1>1
  <2>3. QED
    BY <1>1, <1>4, <2>1, <2>2 DEF Stored
<1>6. /\ mode \in {"headless", "live", "playback"} /\ exit = "none" /\ code = "0"
      /\ pcHeadless = "setup" /\ pcMain = "start"
  BY DEF Init, T!Init
<1>7. HeadlessInv /\ LiveInv
  BY <1>1, <1>6 DEF HeadlessInv, LiveInv
<1>8. QED
  BY <1>1, <1>3, <1>5, <1>6, <1>7, StoredIsOK DEF WriterInv

(* runHeadlessLiveMode.                                                     *)
LEMMA HeadlessKeeps ==
    ASSUME WriterInv, HeadlessStep \/ Kill
    PROVE  WriterInv'
<1>1. mode = "headless" /\ exit = "none" /\ mode' = mode
  BY DEF HeadlessStep, HeadlessSetup, HeadlessHeader, HeadlessTurn, HeadlessEnd,
         HeadlessUnwind, HeadlessReturn, Headless, Kill
<1>2. /\ WriterOK /\ FileOK /\ HeadlessInv /\ code \in {"0", "1"}
      /\ finished => Saved /\ Ended
      /\ writer = "none" => Stored(Size)
  BY <1>1 DEF WriterInv
<1>3. ASSUME UNCHANGED writerVars
      PROVE  /\ WriterOK' /\ FileOK' /\ (finished' => Saved' /\ Ended')
             /\ writer' = "none" => Stored(Size)'
             /\ UNCHANGED <<writer, gone, finished>>
  BY <1>2, <1>3, WriterAlone DEF writerVars
<1>4. CASE HeadlessSetup
  <2>1. /\ exit' = exit /\ code' = code /\ pcHeadless = "setup" /\ writer = "none" /\ ~gone
        /\ ~finished
    BY <1>2, <1>4 DEF HeadlessSetup, Headless, HeadlessInv, WriterOK
  <2>2. CASE pcHeadless' = "header" /\ \E kind \in {"raw", "zstd"} : W!Create(kind)
    <3>1. WriterOK' /\ FileOK' /\ Stored(Size)' /\ ~finished' /\ ~gone' /\ writer' # "none"
      BY <1>2, <2>1, <2>2, CreateKeeps
    <3>2. HeadlessInv'
      BY <1>1, <2>1, <2>2, <3>1 DEF HeadlessInv
    <3>3. QED
      BY <1>1, <1>2, <2>1, <3>1, <3>2 DEF WriterInv
  <2>3. CASE pcHeadless' = "unwind" /\ UNCHANGED writerVars
    <3>1. HeadlessInv'
      BY <1>1, <1>3, <2>1, <2>3 DEF HeadlessInv
    <3>2. QED
      BY <1>1, <1>2, <1>3, <2>1, <2>3, <3>1 DEF WriterInv
  <2>4. QED
    BY <1>4, <2>2, <2>3 DEF HeadlessSetup, Headless
<1>5. ASSUME pcHeadless \in {"header", "loop", "end"}, exit' = exit, code' \in {"0", "1"},
             NEW kind \in {"header", "tick", "end"}, NEW ok \in BOOLEAN,
             W!writeChunk(kind, ok),
             ok => /\ pcHeadless' \in {"loop", "end", "finish"}
                   /\ pcHeadless' = "finish" => kind = "end",
             ~ok => pcHeadless' = "unwind"
      PROVE  WriterInv'
  <2>1. Stored(Size) /\ writer # "none" /\ ~finished /\ ~gone
    BY <1>2, <1>5 DEF HeadlessInv
  <2>2. /\ WriterOK' /\ FileOK' /\ (ok => Stored(Size)')
        /\ UNCHANGED <<writer, gone, finished>> /\ handed' = Append(handed, kind)
    BY <1>2, <1>5, <2>1, ChunkWritten
  <2>3. kind = "end" => Ended'
    BY <1>2, <2>2, EndHanded
  <2>4. HeadlessInv'
    <3>1. CASE ok
      BY <1>1, <1>5, <2>1, <2>2, <2>3, <3>1 DEF HeadlessInv
    <3>2. CASE ~ok
      BY <1>1, <1>5, <2>1, <2>2, <3>2 DEF HeadlessInv
    <3>3. QED
      BY <3>1, <3>2
  <2>5. QED
    BY <1>1, <1>5, <2>1, <2>2, <2>4 DEF WriterInv
<1>6. CASE HeadlessHeader
  BY <1>2, <1>5, <1>6 DEF HeadlessHeader, Headless
<1>7. CASE HeadlessTurn
  BY <1>2, <1>5, <1>7 DEF HeadlessTurn, Headless
<1>8. ASSUME pcHeadless = "finish", exit' = exit, code' = code,
             NEW ok \in BOOLEAN, W!finish(ok),
             pcHeadless' = IF ok THEN "return" ELSE "unwind"
      PROVE  WriterInv'
  <2>1. Stored(Size) /\ writer # "none" /\ ~finished /\ ~gone /\ Ended
    BY <1>2, <1>8 DEF HeadlessInv
  <2>2. /\ WriterOK' /\ FileOK' /\ (ok => Saved')
        /\ finished' = ok /\ UNCHANGED <<writer, gone, handed>>
    BY <1>2, <1>8, <2>1, FinishSaves
  <2>3. Ended'
    BY <2>1, <2>2 DEF Ended
  <2>4. HeadlessInv'
    BY <1>1, <1>8, <2>1, <2>2 DEF HeadlessInv
  <2>5. QED
    BY <1>1, <1>2, <1>8, <2>1, <2>2, <2>3, <2>4 DEF WriterInv
<1>9. CASE HeadlessEnd
  <2>1. CASE pcHeadless = "end"
    BY <1>2, <1>5, <1>9, <2>1 DEF HeadlessEnd, Headless
  <2>2. CASE pcHeadless = "finish"
    BY <1>2, <1>8, <1>9, <2>2 DEF HeadlessEnd, Headless
  <2>3. QED
    BY <1>9, <2>1, <2>2 DEF HeadlessEnd, Headless
<1>10. CASE HeadlessUnwind
  <2>1. /\ exit' = exit /\ code' = "1" /\ pcHeadless = "unwind" /\ pcHeadless' = "return"
        /\ UNCHANGED writerVars /\ ~gone
    BY <1>2, <1>10 DEF HeadlessUnwind, Headless, HeadlessInv
  <2>2. HeadlessInv'
    BY <1>1, <1>3, <2>1 DEF HeadlessInv
  <2>3. QED
    BY <1>1, <1>3, <2>1, <2>2 DEF WriterInv
<1>11. CASE HeadlessReturn
  <2>1. /\ exit' = code /\ code' = code /\ pcHeadless = "return" /\ pcHeadless' = "done"
        /\ finished \/ code = "1"
        /\ \/ writer = "none" /\ UNCHANGED writerVars
           \/ writer # "none" /\ W!Destroy
    BY <1>2, <1>11 DEF HeadlessReturn, Headless, HeadlessInv
  <2>2. HeadlessInv'
    BY <2>1 DEF HeadlessInv
  <2>3. CASE writer = "none" /\ UNCHANGED writerVars
    BY <1>1, <1>2, <1>3, <2>1, <2>2, <2>3 DEF WriterInv
  <2>4. CASE writer # "none" /\ W!Destroy
    <3>1. /\ WriterOK' /\ FileOK' /\ (finished => Saved')
          /\ UNCHANGED <<writer, handed, finished>>
      BY <1>2, <2>4, DestroyKeeps
    <3>2. Ended => Ended'
      BY <3>1 DEF Ended
    <3>3. QED
      BY <1>1, <1>2, <2>1, <2>2, <2>4, <3>1, <3>2 DEF WriterInv
  <2>5. QED
    BY <2>1, <2>3, <2>4
<1>12. CASE Kill
  <2>1. exit' = "killed" /\ code' = code /\ pcHeadless' = pcHeadless /\ UNCHANGED writerVars
    BY <1>12 DEF Kill
  <2>2. HeadlessInv'
    BY <1>2, <1>3, <2>1, WriterAlone DEF HeadlessInv
  <2>3. QED
    BY <1>1, <1>2, <1>3, <2>1, <2>2 DEF WriterInv
<1>13. QED
  BY <1>4, <1>6, <1>7, <1>9, <1>10, <1>11, <1>12 DEF HeadlessStep

(* The steps of corertt that leave the writer alone.                        *)
LEMMA AloneKeeps ==
    ASSUME WriterInv, UNCHANGED writerVars, mode' = mode, mode # "headless",
           exit' = exit, code' = code,
           mode = "live" =>
               \/ pcMain' = pcMain
               \/ pcMain = "start" /\ pcMain' = "open"
               \/ /\ pcMain \in {"open", "loop", "body", "finish"}
                  /\ pcMain' \in {"open", "loop", "body", "finish", "unwind"}
               \/ pcMain = "wait" /\ pcMain' = "joined"
               \/ pcMain' = "wait" /\ writer = "none"
    PROVE  WriterInv'
<1>1. /\ WriterOK' /\ FileOK' /\ (finished' => Saved' /\ Ended')
      /\ writer' = "none" => Stored(Size)'
      /\ UNCHANGED <<writer, gone, finished>>
  BY WriterAlone DEF WriterInv, writerVars
<1>2. ASSUME mode = "live" PROVE LiveInv'
  <2>1. LiveInv /\ WriterOK
    BY <1>2 DEF WriterInv
  <2>2. Stored(Size) => Stored(Size)'
    BY WriterAlone
  <2>3. writer = "none" => ~gone /\ ~finished
    BY <2>1 DEF WriterOK
  <2>4. QED
    BY <1>1, <1>2, <2>1, <2>2, <2>3 DEF LiveInv
<1>3. QED
  BY <1>1, <1>2 DEF WriterInv

(* What the two modes of corertt share.                                     *)
LEMMA SharedKeeps ==
    ASSUME WriterInv, Start \/ Notify \/ EnterLoop \/ Join \/ RequestStop \/ Return
                          \/ UiThread \/ PressQuit
    PROVE  WriterInv'
<1>1. mode # "headless" /\ exit = "none" /\ mode' = mode /\ UNCHANGED writerVars
  BY DEF Start, Notify, EnterLoop, Join, RequestStop, Return, UiThread, PressQuit,
         Interface, Corertt
<1>2. CASE Start \/ Notify \/ EnterLoop \/ Join \/ UiThread \/ PressQuit
  <2>1. exit' = exit /\ code' = code
    BY <1>2 DEF Start, Notify, EnterLoop, Join, UiThread, PressQuit, Interface
  <2>2. \/ pcMain' = pcMain
        \/ pcMain = "start" /\ pcMain' = "open"
        \/ pcMain = "loop" /\ pcMain' = "body"
        \/ pcMain = "wait" /\ pcMain' = "joined"
    BY <1>2 DEF Start, Notify, EnterLoop, Join, UiThread, PressQuit, T!Start, T!Notify,
       T!EnterLoop, T!Join, T!BeginLoop, T!HandleUpdate, T!HandleStop, T!PressQuit
  <2>3. QED
    BY <1>1, <2>1, <2>2, AloneKeeps
<1>3. /\ WriterOK /\ FileOK /\ (finished => Saved /\ Ended)
      /\ WriterOK' /\ FileOK' /\ (finished' => Saved' /\ Ended')
      /\ writer' = "none" => Stored(Size)'
      /\ UNCHANGED <<writer, gone, finished>>
  BY <1>1, WriterAlone DEF WriterInv, writerVars
<1>4. CASE RequestStop
  <2>1. exit' = exit /\ code' = "1" /\ pcMain' = "wait"
    BY <1>4 DEF RequestStop, T!RequestStop
  <2>2. LiveInv'
    BY <2>1 DEF LiveInv
  <2>3. QED
    BY <1>1, <1>3, <2>1, <2>2 DEF WriterInv
<1>5. CASE Return
  <2>1. /\ exit' = (IF exitCode = 1 THEN "1" ELSE code) /\ code' = code
        /\ pcMain = "joined" /\ pcMain' = pcMain
    BY <1>5 DEF Return, tuiVars
  <2>2. LiveInv => LiveInv'
    BY <1>3, <2>1 DEF LiveInv
  <2>3. mode = "live" /\ writer # "none" => finished \/ code = "1"
    BY <2>1 DEF WriterInv, LiveInv
  <2>4. QED
    BY <1>1, <1>3, <2>1, <2>2, <2>3 DEF WriterInv
<1>6. QED
  BY <1>2, <1>4, <1>5

(* runLiveMode.                                                             *)
LEMMA LiveKeeps ==
    ASSUME WriterInv, LiveStep
    PROVE  WriterInv'
<1>1. mode = "live" /\ exit = "none" /\ mode' = mode /\ exit' = exit /\ code' = code
  BY DEF LiveStep, LiveCreate, LiveHeader, LiveTurn, LiveLeave, LiveEnd, LiveDestroy, Live,
         Corertt
<1>2. /\ WriterOK /\ FileOK /\ LiveInv /\ code \in {"0", "1"}
      /\ finished => Saved /\ Ended
      /\ writer = "none" => Stored(Size)
  BY <1>1 DEF WriterInv
<1>3. ASSUME UNCHANGED writerVars,
             \/ /\ pcMain \in {"open", "loop", "body", "finish"}
                /\ pcMain' \in {"open", "loop", "body", "finish", "unwind"}
             \/ pcMain' = "wait" /\ writer = "none"
      PROVE  WriterInv'
  BY <1>1, <1>3, AloneKeeps
<1>4. ASSUME pcMain \in {"open", "body", "finish"},
             NEW kind \in {"header", "tick", "end"}, NEW ok \in BOOLEAN, W!writeChunk(kind, ok),
             ok => pcMain' \in {"loop", "finish"},
             ~ok => pcMain' = "unwind"
      PROVE  WriterInv'
  <2>1. Stored(Size) /\ ~finished /\ ~gone
    BY <1>2, <1>4 DEF LiveInv
  <2>2. writer # "none"
    BY <1>4 DEF W!writeChunk, W!Open
  <2>3. /\ WriterOK' /\ FileOK' /\ (ok => Stored(Size)')
        /\ UNCHANGED <<writer, gone, finished>>
    BY <1>2, <1>4, <2>1, ChunkWritten
  <2>4. LiveInv'
    BY <1>4, <2>1, <2>3 DEF LiveInv
  <2>5. QED
    BY <1>1, <1>2, <2>1, <2>2, <2>3, <2>4 DEF WriterInv
<1>5. ASSUME pcMain = "finish", Ended, NEW ok \in BOOLEAN, W!finish(ok),
             pcMain' = IF ok THEN "wait" ELSE "unwind"
      PROVE  WriterInv'
  <2>1. Stored(Size) /\ ~finished /\ ~gone
    BY <1>2, <1>5 DEF LiveInv
  <2>2. writer # "none"
    BY <1>5 DEF W!finish, W!Open
  <2>3. /\ WriterOK' /\ FileOK' /\ (ok => Saved')
        /\ finished' = ok /\ UNCHANGED <<writer, gone, handed>>
    BY <1>2, <1>5, <2>1, FinishSaves
  <2>4. Ended'
    BY <1>5, <2>3 DEF Ended
  <2>5. LiveInv'
    BY <1>5, <2>1, <2>3 DEF LiveInv
  <2>6. QED
    BY <1>1, <1>2, <2>2, <2>3, <2>4, <2>5 DEF WriterInv
<1>6. CASE LiveCreate
  <2>1. CASE T!Throw /\ UNCHANGED writerVars
    <3>1. pcMain = "open" /\ pcMain' = "unwind"
      BY <1>6, <2>1 DEF LiveCreate, T!Throw
    <3>2. QED
      BY <1>3, <2>1, <3>1
  <2>2. ASSUME NEW kind \in {"raw", "zstd"}, W!Create(kind), UNCHANGED tuiVars
        PROVE  WriterInv'
    <3>1. pcMain = "open" /\ pcMain' = "open" /\ writer = "none"
      BY <1>6, <2>2 DEF LiveCreate, tuiVars
    <3>2. WriterOK' /\ FileOK' /\ Stored(Size)' /\ ~finished' /\ ~gone' /\ writer' # "none"
      BY <1>2, <2>2, <3>1, CreateKeeps
    <3>3. LiveInv'
      BY <3>1, <3>2 DEF LiveInv
    <3>4. QED
      BY <1>1, <1>2, <3>2, <3>3 DEF WriterInv
  <2>3. QED
    BY <1>6, <2>1, <2>2 DEF LiveCreate
<1>7. CASE LiveHeader
  <2>1. pcMain = "open"
    BY <1>7 DEF LiveHeader
  <2>2. CASE Written("header", TRUE) /\ T!PublishHeader
    <3>1. pcMain' = "loop"
      BY <2>2 DEF T!PublishHeader, T!Publish
    <3>2. QED
      BY <1>3, <1>4, <2>1, <2>2, <3>1 DEF Written
  <2>3. CASE Written("header", FALSE) /\ T!Throw
    <3>1. pcMain' = "unwind"
      BY <2>3 DEF T!Throw
    <3>2. QED
      BY <1>3, <1>4, <2>1, <2>3, <3>1 DEF Written
  <2>4. QED
    BY <1>7, <2>2, <2>3 DEF LiveHeader
<1>8. CASE LiveTurn
  <2>1. pcMain = "body"
    BY <1>8 DEF LiveTurn
  <2>2. ASSUME NEW to \in {"loop", "finish"}, Written("tick", TRUE), T!PublishTick(to)
        PROVE  WriterInv'
    <3>1. pcMain' \in {"loop", "finish"}
      BY <2>2 DEF T!PublishTick, T!Publish
    <3>2. QED
      BY <1>3, <1>4, <2>1, <2>2, <3>1 DEF Written
  <2>3. CASE Written("tick", FALSE) /\ T!Throw
    <3>1. pcMain' = "unwind"
      BY <2>3 DEF T!Throw
    <3>2. QED
      BY <1>3, <1>4, <2>1, <2>3, <3>1 DEF Written
  <2>4. QED
    BY <1>8, <2>2, <2>3 DEF LiveTurn
<1>9. CASE LiveLeave
  <2>1. pcMain = "loop" /\ pcMain' = "finish" /\ UNCHANGED writerVars
    BY <1>1, <1>9 DEF LiveLeave, T!LeaveLoop
  <2>2. QED
    BY <1>3, <2>1
<1>10. CASE LiveEnd
  <2>1. pcMain = "finish" /\ ~gone
    BY <1>2, <1>10 DEF LiveEnd, LiveInv
  <2>2. T!PublishEnd => pcMain' = "wait"
    BY DEF T!PublishEnd, T!Publish
  <2>3. T!Throw => pcMain' = "unwind"
    BY DEF T!Throw
  <2>4. CASE ~W!Open /\ UNCHANGED writerVars /\ T!PublishEnd
    <3>1. writer = "none"
      BY <2>1, <2>4 DEF W!Open
    <3>2. QED
      BY <1>3, <2>2, <2>4, <3>1
  <2>5. CASE W!writeChunk("end", TRUE) /\ UNCHANGED tuiVars
    <3>1. pcMain' = pcMain
      BY <2>5 DEF tuiVars
    <3>2. QED
      BY <1>4, <2>1, <2>5, <3>1
  <2>6. CASE W!writeChunk("end", FALSE) /\ T!Throw
    BY <1>4, <2>1, <2>3, <2>6
  <2>7. CASE Ended /\ W!finish(TRUE) /\ T!PublishEnd
    BY <1>5, <2>1, <2>2, <2>7
  <2>8. CASE Ended /\ W!finish(FALSE) /\ T!Throw
    BY <1>5, <2>1, <2>3, <2>8
  <2>9. QED
    BY <1>10, <2>4, <2>5, <2>6, <2>7, <2>8 DEF LiveEnd
<1>11. CASE LiveDestroy
  <2>1. pcMain \in {"unwind", "joined"} /\ pcMain' = pcMain /\ W!Destroy /\ writer # "none"
    BY <1>11 DEF LiveDestroy, tuiVars, W!Destroy, W!Open
  <2>2. /\ WriterOK' /\ FileOK' /\ (finished => Saved')
        /\ UNCHANGED <<writer, handed, finished>>
    BY <1>2, <2>1, DestroyKeeps
  <2>3. Ended => Ended'
    BY <2>2 DEF Ended
  <2>4. LiveInv'
    BY <1>1, <1>2, <2>1, <2>2 DEF LiveInv
  <2>5. QED
    BY <1>1, <1>2, <2>1, <2>2, <2>3, <2>4 DEF WriterInv
<1>12. QED
  BY <1>6, <1>7, <1>8, <1>9, <1>10, <1>11 DEF LiveStep

(* Every step of the program.                                               *)
LEMMA WriterKeeps ==
    ASSUME WriterInv, [Next]_vars
    PROVE  WriterInv'
<1>1. CASE PlayStep
  <2>1. /\ mode = "playback" /\ mode' = mode /\ exit' = exit /\ code' = code
        /\ UNCHANGED writerVars
    BY <1>1 DEF PlayStep, PlayNoFile, PlayHeader, PlayRecord, PlayNothing, PlaySawStop,
       PlayLeave, Play, Corertt
  <2>2. QED
    BY <2>1, AloneKeeps
<1>2. CASE UNCHANGED vars
  <2>1. UNCHANGED <<mode, exit, code, pcHeadless, pcMain>> /\ UNCHANGED writerVars
    BY <1>2 DEF vars, tuiVars
  <2>2. CASE mode = "headless"
    <3>1. /\ WriterOK' /\ FileOK' /\ (finished' => Saved' /\ Ended')
          /\ writer' = "none" => Stored(Size)'
          /\ UNCHANGED <<writer, gone, finished>>
      BY <2>1, WriterAlone DEF WriterInv, writerVars
    <3>2. HeadlessInv => HeadlessInv'
      BY <2>1, <3>1, WriterAlone DEF HeadlessInv
    <3>3. QED
      BY <2>1, <2>2, <3>1, <3>2 DEF WriterInv
  <2>3. CASE mode # "headless"
    BY <2>1, <2>3, AloneKeeps
  <2>4. QED
    BY <2>2, <2>3
<1>3. QED
  BY <1>1, <1>2, HeadlessKeeps, SharedKeeps, LiveKeeps DEF Next, Main

(* A byte of a record is not the last block of a frame.                     *)
LEMMA NotTheFrame ==
    ASSUME NEW i \in Nat
    PROVE  W!ByteOf(i) # W!FrameEnd
<1> DEFINE k == (i + 1) \div 2
<1>1. 2 - (i % 2) \in {1, 2}
  OBVIOUS
<1> HIDE DEF k
<1>2. W!ByteOf(i) = <<k, "first">> \/ W!ByteOf(i) = <<k, "second">>
  BY <1>1 DEF W!ByteOf, W!RecordBytes, k
<1>3. W!ByteOf(i)[2] # "frame" /\ W!FrameEnd[2] = "frame"
  BY <1>2 DEF W!FrameEnd
<1>4. QED
  BY <1>3

(* The first bytes of the file, in the words of FileTellsTheMatch.          *)
LEMMA FirstBytes ==
    ASSUME WriterOK, NEW a \in 0 .. Size, NEW s, Part(s, 0, a, a)
    PROVE  /\ IsPrefix(s, W!Encoded)
           /\ a = Size => s = W!Encoded
           /\ ~(s # <<>> /\ Last(s) = W!FrameEnd)
<1>1. Size \in Nat /\ a \in Nat /\ a <= Size
  BY DEF WriterOK, Size
<1>2. s \in Seq(Byte) /\ Len(s) = a /\ \A i \in 1 .. a : s[i] = FileByte(a, 0 + i)
  BY <1>1 DEF Part
<1>3. \A i \in 1 .. a : s[i] = W!ByteOf(i)
  <2>1. \A i \in 1 .. a : 0 + i = i /\ i <= a
    BY <1>1
  <2>2. QED
    BY <1>2, <2>1 DEF FileByte
<1> DEFINE all == W!Encoded
<1>4. all = [i \in 1 .. Size |-> W!ByteOf(i)]
  BY DEF W!Encoded, Size
<1>5. all \in Seq(Byte) /\ Len(all) = Size /\ \A i \in 1 .. Size : all[i] = W!ByteOf(i)
  <2>1. \A i \in 1 .. Size : W!ByteOf(i) \in Byte
    BY <1>1 DEF Byte
  <2> HIDE DEF all
  <2>2. QED
    BY <1>1, <1>4, <2>1
<1> HIDE DEF all
<1>6. IsPrefix(s, all)
  <2> DEFINE p == SubSeq(s, 1, a)
             q == SubSeq(all, 1, a)
  <2>1. /\ p \in Seq(Byte) /\ Len(p) = a /\ \A i \in 1 .. a : p[i] = s[i]
    BY <1>1, <1>2
  <2>2. /\ q \in Seq(Byte) /\ Len(q) = a /\ \A i \in 1 .. a : q[i] = all[i]
    BY <1>1, <1>5
  <2>3. \A i \in 1 .. a : p[i] = q[i]
    <3>1. \A i \in 1 .. a : i \in 1 .. Size
      BY <1>1
    <3>2. QED
      BY <1>3, <1>5, <2>1, <2>2, <3>1
  <2> HIDE DEF p, q
  <2>4. p = q
    BY <2>1, <2>2, <2>3
  <2>5. QED
    BY <1>1, <1>2, <1>5, <2>4 DEF IsPrefix, p, q
<1>7. a = Size => s = all
  BY <1>2, <1>3, <1>5
<1>8. ASSUME s # <<>> PROVE Last(s) # W!FrameEnd
  <2>1. a # 0
    BY <1>2, <1>8
  <2>2. a \in 1 .. a
    BY <1>1, <2>1
  <2>3. QED
    BY <1>1, <1>2, <1>3, <2>2, NotTheFrame DEF Last
<1>9. QED
  BY <1>6, <1>7, <1>8 DEF all

(* A file whose frame is closed has the last block after the records.       *)
LEMMA ClosedFile ==
    ASSUME NEW n \in Nat, NEW s, Part(s, 0, n + 1, n)
    PROVE  s # <<>> /\ Last(s) = W!FrameEnd /\ Part(Front(s), 0, n, n)
<1>1. s \in Seq(Byte) /\ Len(s) = n + 1 /\ n \in 0 .. Len(s) /\ n + 1 \in Nat
  BY DEF Part
<1>2. s[n + 1] = FileByte(n, 0 + (n + 1))
  <2>1. n + 1 \in 1 .. Len(s)
    BY <1>1
  <2>2. QED
    BY <2>1 DEF Part
<1>3. ~(0 + (n + 1) <= n)
  OBVIOUS
<1>4. Last(s) = W!FrameEnd /\ s # <<>>
  BY <1>1, <1>2, <1>3 DEF FileByte, Last
<1>5. PICK b \in Nat : Part(W!First(s, n), 0, b, n) /\ b = 0 + n
  BY <1>1, CutInTwo
<1>6. b = n /\ Len(s) - 1 = n
  BY <1>1, <1>5
<1>7. Front(s) = W!First(s, n)
  BY <1>6 DEF Front, W!First
<1>8. QED
  BY <1>4, <1>5, <1>6, <1>7

(* What the invariant says about the file.                                  *)
LEMMA FileIsTold ==
    ASSUME WriterInv
    PROVE  FileTellsTheMatch
<1> DEFINE file == stream.file
           closed == file # <<>> /\ Last(file) = W!FrameEnd
           bytes == IF closed THEN Front(file) ELSE file
<1>1. WriterOK /\ FileOK /\ (finished => Saved /\ Ended) /\ Size \in Nat
  BY DEF WriterInv, WriterOK, Size
<1>2. ASSUME NEW a \in 0 .. Size, Part(file, 0, a, a)
      PROVE  /\ ~closed /\ IsPrefix(bytes, W!Encoded)
             /\ a = Size => bytes = W!Encoded
  BY <1>1, <1>2, FirstBytes
<1>3. ASSUME NEW n \in 0 .. Size, Part(file, 0, n + 1, n)
      PROVE  /\ closed /\ IsPrefix(bytes, W!Encoded)
             /\ n = Size => bytes = W!Encoded
  <2>1. n \in Nat
    BY <1>1
  <2>2. closed /\ Part(Front(file), 0, n, n)
    BY <1>3, <2>1, ClosedFile
  <2>3. QED
    BY <1>1, <2>2, FirstBytes
<1> HIDE DEF closed, bytes
<1>4. IsPrefix(bytes, W!Encoded)
  <2>1. CASE Lost
    BY <1>2, <2>1 DEF Lost
  <2>2. ASSUME NEW n \in 0 .. Size, Stored(n) PROVE IsPrefix(bytes, W!Encoded)
    <3>1. n \in Nat /\ n <= Size
      BY <1>1
    <3>2. PICK a \in Nat, b \in Nat :
             Part(file, 0, a, n) /\ Part(stream.buffer, a, b, n) /\ Part(context, b, n, n)
      BY <2>2 DEF Stored
    <3>3. a <= b /\ b <= n
      BY <3>1, <3>2, PartLength
    <3>4. a <= n /\ a <= a /\ a \in 0 .. Size
      BY <1>1, <3>1, <3>3
    <3>5. Part(file, 0, a, a)
      BY <3>1, <3>2, <3>4, PartOfMore
    <3>6. QED
      BY <1>2, <3>4, <3>5
  <2>3. ASSUME NEW n \in 0 .. Size, Closed(n) PROVE IsPrefix(bytes, W!Encoded)
    BY <1>3, <2>3 DEF Closed
  <2>4. QED
    BY <1>1, <2>1, <2>2, <2>3 DEF FileOK
<1>5. ASSUME finished
      PROVE  Ended /\ bytes = W!Encoded /\ ((writer = "zstd") <=> closed)
  <2>1. Size \in 0 .. Size
    BY <1>1
  <2>2. writer \in {"raw", "zstd"}
    BY <1>1, <1>5 DEF WriterOK
  <2>3. CASE writer = "zstd"
    BY <1>1, <1>3, <1>5, <2>1, <2>3 DEF Saved, Closed
  <2>4. CASE writer = "raw"
    BY <1>1, <1>2, <1>5, <2>1, <2>4 DEF Saved
  <2>5. QED
    BY <2>2, <2>3, <2>4
<1>6. exit = "0" /\ writer # "none" => finished
  BY DEF WriterInv
<1>7. QED
  BY <1>4, <1>5, <1>6 DEF FileTellsTheMatch, closed, bytes

(* The replay file never has a hole, whichever write fails, wherever the    *)
(* stream or zstd keep bytes back and whenever the program is killed; and   *)
(* after the exit code 0 it has the whole match.                            *)
THEOREM FileAlwaysTells == Spec => []FileTellsTheMatch
<1>1. Init => WriterInv
  BY WriterStarts
<1>2. WriterInv /\ [Next]_vars => WriterInv'
  BY WriterKeeps
<1>3. WriterInv => FileTellsTheMatch
  BY FileIsTold
<1>4. QED
  BY <1>1, <1>2, <1>3, PTL DEF Spec

-----------------------------------------------------------------------------
(* Playback in the program.                                                 *)

(* A file to be played has not been read at the start.                      *)
LEMMA PlaybackStarts ==
    ASSUME P!Init
    PROVE  PlaybackInv /\ Reader!Init
<1>1. /\ replay \in Replays /\ cut \in 0 .. Bytes(replay) /\ failure \in {"eof", "bad"}
      /\ input = [read |-> 0, io |-> "good", ended |-> FALSE, size |-> 0, cursor |-> 0]
      /\ phase = "Header" /\ shown = <<>> /\ pcPlayback = "header"
      /\ exitCode = 0 /\ sawStop = FALSE
  BY SameFormat DEF P!Init
<1>2. cut \in Nat
  BY <1>1
<1>3. InputOK(input)
  <2>1. input \in P!Input
    BY <1>1 DEF P!Input
  <2>2. QED
    BY <1>1, <1>2, <2>1 DEF InputOK
<1>4. Len(shown) = 0 /\ shown \in Seq(Records) /\ Len(replay) \in Nat \ {0}
  BY <1>1, ReplayType
<1>5. AtARecord
  <2>1. Coming = 1 /\ Place(input) = 0
    BY <1>1, <1>4 DEF Coming, Place
  <2>2. QED
    BY <1>1, <1>4, <2>1, StartsAddUp DEF AtARecord
<1>6. PlaybackInv
  <2>1. PlaybackOK
    BY <1>1, <1>2, <1>3 DEF PlaybackOK
  <2>2. ShownInv /\ PhaseInv
    BY <1>1, <1>4 DEF ShownInv, PhaseInv
  <2>3. QED
    BY <1>5, <2>1, <2>2 DEF PlaybackInv
<1>7. Status = "reading"
  BY <1>1 DEF Status
<1>8. QED
  BY <1>1, <1>6, <1>7, SameFormat DEF Reader!Init

(* The user quits: the loop sees it, and is left.                           *)
LEMMA QuitSteps ==
    ASSUME PlaybackInv, P!RequestStop \/ P!Stop
    PROVE  PlaybackInv' /\ (Reader!Stop \/ UNCHANGED Reader!vars)
<1>1. /\ UNCHANGED <<replay, cut, failure, input, phase, shown, exitCode>>
      /\ \/ pcPlayback' = pcPlayback /\ sawStop' = TRUE
         \/ pcPlayback = "loop" /\ pcPlayback' = "done" /\ sawStop' = sawStop
  BY DEF P!RequestStop, P!Stop, P!file
<1>2. PlaybackInv'
  BY <1>1 DEF PlaybackInv, PlaybackOK, InputOK, AtARecord, Coming, Place, ShownInv, PhaseInv
<1>3. CASE pcPlayback' = pcPlayback
  BY <1>1, <1>2, <1>3 DEF Reader!vars, Status
<1>4. CASE pcPlayback = "loop" /\ pcPlayback' = "done"
  <2>1. phase = "Tick" /\ exitCode = 0
    BY <1>4 DEF PlaybackInv, PhaseInv
  <2>2. Status = "reading" /\ Status' = "stopped"
    BY <1>1, <1>4, <2>1 DEF Status
  <2>3. QED
    BY <1>1, <1>2, <2>2 DEF Reader!Stop
<1>5. QED
  BY <1>1, <1>3, <1>4

(* Every step of the program leaves playback alone or is one of its steps.  *)
LEMMA PlaybackSteps ==
    ASSUME [Next]_vars
    PROVE  \/ P!ReadHeader \/ P!PlayRecord \/ P!PlayNothing \/ P!RequestStop \/ P!Stop
           \/ UNCHANGED playbackVars
<1>1. CASE HeadlessStep \/ Kill \/ UNCHANGED vars
  BY <1>1 DEF HeadlessStep, HeadlessSetup, HeadlessHeader, HeadlessTurn, HeadlessEnd,
       HeadlessUnwind, HeadlessReturn, Headless, Kill, vars
<1>2. CASE Start \/ Notify \/ EnterLoop \/ Join \/ RequestStop \/ Return \/ UiThread \/ PressQuit
  BY <1>2 DEF Start, Notify, EnterLoop, Join, RequestStop, Return, UiThread, PressQuit, Interface
<1>3. CASE LiveStep
  BY <1>3 DEF LiveStep, LiveCreate, LiveHeader, LiveTurn, LiveLeave, LiveEnd, LiveDestroy, Live
<1>4. CASE PlayStep
  BY <1>4 DEF PlayStep, PlayNoFile, PlayHeader, PlayRecord, PlayNothing, PlaySawStop, PlayLeave
<1>5. QED
  BY <1>1, <1>2, <1>3, <1>4 DEF Next, Main

(* A step of playback is a step of the reader or shows nothing.             *)
LEMMA PlaybackKeeps ==
    ASSUME PlaybackInv, [Next]_vars
    PROVE  PlaybackInv' /\ [Reader!Next]_(Reader!vars)
<1>1. CASE UNCHANGED playbackVars
  <2>1. PlaybackInv'
    BY <1>1 DEF playbackVars, PlaybackInv, PlaybackOK, InputOK, AtARecord, Coming, Place,
       ShownInv, PhaseInv
  <2>2. UNCHANGED Reader!vars
    BY <1>1 DEF playbackVars, Reader!vars, Status
  <2>3. QED
    BY <2>1, <2>2
<1>2. QED
  BY <1>1, PlaybackSteps, HeaderStep, RecordStep, NothingStep, QuitSteps DEF Reader!Next

(* Playback implements the reader of replays, for every replay, wherever    *)
(* its file is cut off, whatever the size of the chunks and whenever the    *)
(* user quits.                                                              *)
THEOREM PlaybackRefinesReader == Spec => PlaybackIsAReader
<1>1. Init => PlaybackInv /\ Reader!Init
  BY PlaybackStarts DEF Init
<1>2. PlaybackInv /\ [Next]_vars => PlaybackInv' /\ [Reader!Next]_(Reader!vars)
  BY PlaybackKeeps
<1>3. QED
  BY <1>1, <1>2, PTL DEF Spec, PlaybackIsAReader, Reader!Spec

(* The components keep their types when they are put together.              *)
THEOREM TypeCorrect == Spec => []TypeOK
<1>1. Init => PlaybackInv /\ TuiInv /\ WriterInv
  BY PlaybackStarts, TuiStarts, WriterStarts DEF Init
<1>2. PlaybackInv /\ TuiInv /\ WriterInv /\ [Next]_vars => PlaybackInv' /\ TuiInv' /\ WriterInv'
  <2>1. TuiInv /\ UNCHANGED tuiVars => TuiInv'
    BY OtherTuiKeeps DEF tuiVars, TuiInv, T!TypeOK
  <2>2. QED
    BY <2>1, PlaybackKeeps, TuiSteps, TuiKeeps, WriterKeeps
<1>3. PlaybackInv /\ TuiInv /\ WriterInv => TypeOK
  <2>1. PlaybackInv => P!TypeOK
    BY DEF PlaybackInv, PlaybackOK, InputOK, P!TypeOK
  <2>2. TuiInv => T!TypeOK
    BY DEF TuiInv
  <2>3. WriterInv => /\ writer \in {"none", "raw", "zstd"}
                     /\ finished => writer # "none"
                     /\ exit \in {"none", "0", "1", "killed"}
    BY DEF WriterInv, WriterOK
  <2>4. QED
    BY <2>1, <2>2, <2>3 DEF TypeOK
<1>4. QED
  BY <1>1, <1>2, <1>3, PTL DEF Spec
=============================================================================
