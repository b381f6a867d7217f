------------------------------ MODULE MCCombat ------------------------------
(* An 8 x 4 map: two 2 x 2 bases at the ends of a corridor in row 0, which   *)
(* is longer than the five tiles a bullet flies in a turn; rock elsewhere.   *)
EXTENDS Combat, TLC

CONSTANTS a1, b1, x1, x2, x3

MCObstacle == ((0..7) \X (2..3)) \cup ((2..5) \X {1})
MCBaseCorner == <<<<0, 0>>, <<6, 0>>>>

TwoUnits == {a1, b1}
TwoInOrder == <<a1, b1>>
TwoTiles == (a1 :> <<1, 0>>) @@ (b1 :> <<6, 0>>)

Upgraded == {a1}
ThreeIds == {x1, x2, x3}
Interchangeable == Permutations(BulletIds)
=============================================================================
