------------------------------ MODULE MCProgram ------------------------------
(* Replays of a header, a few ticks and an end marker, sizes kept small.     *)
EXTENDS Program

Rec(kind, size) == [kind |-> kind, size |-> size, logs |-> 0, sound |-> TRUE]
Unfit(r) == [r EXCEPT !.sound = FALSE]

Header == Rec("header", 10)
Tick(payload) == Rec("tick", 9 + payload)
End == Rec("end", 3)

\* Ticks of different sizes; an end marker across two chunks, and bytes after it;
\* undecodable records.
MCReplays == {<<Header, End>>,
              <<Header, Tick(12), Tick(1), End>>,
              <<Header, Tick(7), End, Tick(0)>>,
              <<Header, Tick(5), Unfit(Tick(4)), End>>,
              <<Header, Tick(2), Unfit(End)>>,
              <<Header, Tick(2), Rec("other", 5), End>>,
              <<Unfit(Header), End>>}
=============================================================================
