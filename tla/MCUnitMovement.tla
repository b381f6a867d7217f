--------------------------- MODULE MCUnitMovement ---------------------------
(* A 4 x 4 map (the smallest the rules allow) whose two adjacent 2 x 2 bases *)
(* form a 4 x 2 strip with one resource tile; below it there is rock.  One   *)
(* base tile is water, which a binary map may have: units are made on it,    *)
(* leave it and never enter it.                                              *)
EXTENDS UnitMovement, TLC

CONSTANTS a1, a2, a3, b1

MCWater == {<<3, 0>>}
MCResource == {<<2, 1>>}
MCObstacle == (0..3) \X (2..3)
MCBaseCorner == <<<<0, 0>>, <<2, 0>>>>

FourUnits == {a1, a2, a3, b1}
OwnerOfFour == (a1 :> 1) @@ (a2 :> 1) @@ (a3 :> 1) @@ (b1 :> 2)
OneBullet == {{}, {<<1, 1>>}}
OneHit == {{}, {b1}}

SameSide == Permutations({a1, a2, a3})
=============================================================================
