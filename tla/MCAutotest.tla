----------------------------- MODULE MCAutotest -----------------------------
(* Replays whose records are longer and shorter than the chunks.             *)
EXTENDS Autotest

Rec(kind, size) == [kind |-> kind, size |-> size, logs |-> 0, sound |-> TRUE]
Header == Rec("header", 10)
Tick(payload, n) == [Rec("tick", 9 + payload) EXCEPT !.logs = n]
End == Rec("end", 3)

MCReplays == {<<Header, Tick(0, 0), Tick(12, 1), End>>,
              <<Header, Tick(3, 2), End, Tick(0, 0)>>,
              <<Header, Tick(1, 0), Tick(4, 65), End>>,
              <<Header, Rec("other", 5), End>>}

MCAssertions == {[atLeast |-> 0, maxAllowed |-> 100], [atLeast |-> 1, maxAllowed |-> 1]}
=============================================================================
