----------------------------- MODULE MCEconomy -----------------------------
(* A map of 2 x 4 tiles, the bases at its two ends.  Energy is counted      *)
(* modulo 6 instead of 65536, so that a turn's gain (3 at most) fits above  *)
(* the first capacity (2) and not above the second (5).                     *)
EXTENDS Economy, TLC

CONSTANTS a1, a2, a3, b1, b2

MCBaseCorner == 1 :> <<0, 0>> @@ 2 :> <<0, 2>>
MCResource == {<<0, 0>>}
MCUpgradeCost == "capacity" :> 1 @@ "vision" :> 3 @@ "damage" :> 2

\* Player 1 has the ids 1 and 2, player 2 the id 1; ids 1 have two objects.
MCSlotOf == [o \in Objects |-> CASE o \in {a1, a3} -> <<1, 1>>
                                [] o = a2 -> <<1, 2>>
                                [] o \in {b1, b2} -> <<2, 1>>]
=============================================================================
