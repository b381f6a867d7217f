---------------------------- MODULE ReplayFormat ----------------------------
(***************************************************************************)
(* A replay as bytes on disk or in a pipe: a header, tick records and an    *)
(* end marker.  A record is known by its kind and its encoded size; what    *)
(* the payload says is left out, except its number of log entries and       *)
(* whether its fields have values that the decoders accept (`sound`).       *)
(***************************************************************************)
EXTENDS Integers, Sequences, SequencesExt

CONSTANTS Replays   \* the sequences of records to be decoded

HeaderPrefix == 8   \* magic, version, header size
TickPrefix == 9     \* type, tick, payload size
EndSize == 3        \* type, termination, winner
MaxLogCount == 64   \* the log entries that decoders accept in a tick

Kinds == {"header", "tick", "end", "other"}

ASSUME ReplayAssumption ==
    \A f \in Replays :
        /\ f \in Seq([kind : Kinds, size : Nat \ {0}, logs : Nat, sound : BOOLEAN])
        /\ Len(f) > 0
        /\ \A i \in 1 .. Len(f) : (f[i].kind = "header") <=> (i = 1)
        /\ \A i \in 1 .. Len(f) :
              /\ f[i].kind = "header" => f[i].size >= HeaderPrefix
              /\ f[i].kind = "tick" => f[i].size >= TickPrefix
              /\ f[i].kind = "end" => f[i].size = EndSize

\* decodeReplayHeader, decodeReplayTickPayload, decodeReplayEndMarker succeed.
Accepted(r) == r.sound /\ r.logs <= MaxLogCount

\* The number of bytes before record i.
StartOf(f, i) ==
    LET end[k \in 0 .. Len(f)] == IF k = 0 THEN 0 ELSE end[k - 1] + f[k].size
    IN  end[i - 1]

Bytes(f) == StartOf(f, Len(f) + 1)

\* What a decoder takes the bytes at an offset for: a record, if one starts there.
RecordAt(f, offset) ==
    IF \E i \in 1 .. Len(f) : StartOf(f, i) = offset
    THEN f[CHOOSE i \in 1 .. Len(f) : StartOf(f, i) = offset]
    ELSE [kind |-> "other", size |-> 1, logs |-> 0, sound |-> FALSE]

\* Record i is acceptable, complete in the first n bytes and not after the end.
Good(f, n, i) ==
    /\ f[i].kind # "other" /\ Accepted(f[i])
    /\ StartOf(f, i + 1) <= n
    /\ i > 1 => f[i - 1].kind # "end"

\* How many records at the start of f are good.
Readable(f, n) ==
    CHOOSE k \in 0 .. Len(f) :
        /\ \A i \in 1 .. k : Good(f, n, i)
        /\ k < Len(f) => ~Good(f, n, k + 1)

\* The records as they should be decoded from the first n bytes.
Decodable(f, n) == SubSeq(f, 1, Readable(f, n))

\* The whole replay can be decoded from its first n bytes.
Complete(f, n) == Readable(f, n) > 0 /\ f[Readable(f, n)].kind = "end"
=============================================================================
