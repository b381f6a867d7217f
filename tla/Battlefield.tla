---------------------------- MODULE Battlefield ----------------------------
(***************************************************************************)
(* The battlefield: a Width x Height grid of tiles with a terrain, resource *)
(* zones and one BaseSize x BaseSize base per player (Tilemap, Tile and the *)
(* geometry helpers of World).  It has no state: the terrain is fixed when  *)
(* the map is loaded.  A tile is its pair <<x, y>> of coordinates.          *)
(***************************************************************************)
EXTENDS Integers

CONSTANTS
    Width, Height,        \* Tilemap::_width, Tilemap::_height
    Obstacle, Water,      \* the tiles with that terrain; all others are plain
    Resource,             \* the tiles with is_resource
    BaseSize,             \* Tilemap::_base_size
    BaseCorner            \* top-left tile of each player's base (base_x, base_y)

Players == {1, 2}

Tiles == (0 .. Width - 1) \X (0 .. Height - 1)

ASSUME SizeAssumption == Width \in Nat /\ Height \in Nat /\ BaseSize \in Nat

ASSUME TerrainAssumption ==
    /\ Obstacle \subseteq Tiles
    /\ Water \subseteq Tiles
    /\ Resource \subseteq Tiles

ASSUME BaseAssumption == BaseCorner \in [Players -> Tiles]

Direction == {"up", "right", "down", "left"}

Offset == [up |-> <<0, -1>>, right |-> <<1, 0>>, down |-> <<0, 1>>, left |-> <<-1, 0>>]

\* The tile one step from t in direction d; it may be off the map.
TileAhead(t, d) == <<t[1] + Offset[d][1], t[2] + Offset[d][2]>>

isInBounds(t) ==
    /\ t[1] >= 0 /\ t[1] < Width
    /\ t[2] >= 0 /\ t[2] < Height

isInBase(t, pid) ==
    /\ t[1] >= BaseCorner[pid][1] /\ t[1] < BaseCorner[pid][1] + BaseSize
    /\ t[2] >= BaseCorner[pid][2] /\ t[2] < BaseCorner[pid][2] + BaseSize

BaseTiles(pid) == {t \in Tiles : isInBase(t, pid)}
=============================================================================
