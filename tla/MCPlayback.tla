----------------------------- MODULE MCPlayback -----------------------------
(* Replays as the encoders write them.                                       *)
EXTENDS Playback

Rec(kind, size) == [kind |-> kind, size |-> size, logs |-> 0, sound |-> TRUE]

Header == Rec("header", 10)
Tick(payload) == Rec("tick", 9 + payload)
End == Rec("end", 3)

\* What the encoders write: ticks with n log entries of one byte each.
Logging(n) == [Tick(14 + 11 * n) EXCEPT !.logs = n]
MCRecorded == {<<Header, Logging(n), End>> : n \in {0, 64, 65}}
=============================================================================
