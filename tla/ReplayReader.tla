---------------------------- MODULE ReplayReader ----------------------------
(***************************************************************************)
(* What a reader of replays promises, whatever it reads the bytes from and  *)
(* in whatever pieces: it delivers the records of the replay one by one, up *)
(* to the end marker or the first one that is not there or not acceptable,  *)
(* and says which of these it was.  Playback and the decoder of             *)
(* js/corereplay are shown to implement this.                               *)
(***************************************************************************)
EXTENDS ReplayFormat

VARIABLES
    replay, cut,   \* the records, and how many bytes of them there are
    tolerant,      \* the reader accepts a replay without an end marker
    shown,         \* the records delivered
    status         \* "reading", "ended", "truncated", "failed" or "stopped"

vars == <<replay, cut, tolerant, shown, status>>

Init ==
    /\ replay \in Replays
    /\ cut \in 0 .. Bytes(replay)
    /\ tolerant \in BOOLEAN
    /\ shown = <<>>
    /\ status = "reading"

Delivered == Len(shown) = Readable(replay, cut)

Deliver ==
    /\ status = "reading" /\ ~Delivered
    /\ shown' = Append(shown, replay[Len(shown) + 1])
    /\ status' = IF Last(shown').kind = "end" THEN "ended" ELSE "reading"
    /\ UNCHANGED <<replay, cut, tolerant>>

Fail ==
    /\ status = "reading" /\ Delivered
    /\ status' = "failed"
    /\ UNCHANGED <<replay, cut, tolerant, shown>>

\* The bytes end before the next record does.
RanOut ==
    LET next == Len(shown) + 1 IN
    next > Len(replay) \/ cut < StartOf(replay, next) + 1 \/ cut < StartOf(replay, next + 1)

Truncate ==
    /\ status = "reading" /\ Delivered
    /\ tolerant /\ RanOut /\ shown # <<>>
    /\ status' = "truncated"
    /\ UNCHANGED <<replay, cut, tolerant, shown>>

\* The user has had enough.
Stop ==
    /\ status = "reading"
    /\ status' = "stopped"
    /\ UNCHANGED <<replay, cut, tolerant, shown>>

Next == Deliver \/ Fail \/ Truncate \/ Stop

Spec == Init /\ [][Next]_vars
=============================================================================
