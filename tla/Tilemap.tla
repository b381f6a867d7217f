------------------------------ MODULE Tilemap ------------------------------
(***************************************************************************)
(* Maps and map files: Tilemap::load with its two formats, the two save     *)
(* functions, Tilemap::generate and the packing of a tile into a byte.      *)
(*                                                                          *)
(* These are functions without state of their own.  Whatever can throw      *)
(* returns [verdict |-> "refused"]; a fail-fast check that fires returns    *)
(* "aborted" (std::abort in a debug build, std::unreachable in a release    *)
(* build), and an access before the start of an array "undefined".          *)
(*                                                                          *)
(* Limits of the source are constants, so that small maps meet them.        *)
(***************************************************************************)
EXTENDS Integers, Sequences, FiniteSets, SequencesExt

CONSTANTS
    MaxDimension,            \* 512, of loadBinary
    MinRandom, MaxRandom,    \* 16 and 255, the map sizes of generate
    MinBase, MaxBase,        \* 2 and 8, the base sizes of generate and GameRules
    ClusterSize,             \* 2, resource_pattern_size
    AttemptsPerCluster,      \* 10, in generate
    WordSize                 \* 65536, the number of values of std::uint16_t and of pos_t

ASSUME LimitAssumption ==
    /\ {MaxDimension, MinRandom, MaxRandom, MinBase, MaxBase, ClusterSize,
        AttemptsPerCluster, WordSize} \subseteq Nat \ {0}
    /\ MinRandom >= 2 * MaxBase      \* the two corners of generate are apart
    /\ 2 * MaxDimension < WordSize

\* The values of pos_t, the signed type of coordinates and sizes.
pos_t == {n \in Int : -WordSize <= 2 * n /\ 2 * n < WordSize}

\* A std::uint16_t that is stored in a pos_t.
Signed(n) == IF 2 * n < WordSize THEN n ELSE n - WordSize

EMPTY == 0
WATER == 1
OBSTACLE == 3

Tile == [terrain : {EMPTY, WATER, OBSTACLE}, side : 0 .. 2,
         is_resource : BOOLEAN, is_base : BOOLEAN]

\* Tile::Tile.
Plain == [terrain |-> EMPTY, side |-> 0, is_resource |-> FALSE, is_base |-> FALSE]

Positions(w, h) == (0 .. w - 1) \X (0 .. h - 1)

\* The tiles in the order of the loops "for y, for x", and of "for x, for y".
RowMajor(w, h) == [i \in 1 .. w * h |-> <<(i - 1) % w, (i - 1) \div w>>]
ColumnMajor(w, h) == [i \in 1 .. w * h |-> <<(i - 1) \div h, (i - 1) % h>>]

\* The square of side n whose top-left tile is t.
Square(t, n) == (t[1] .. t[1] + n - 1) \X (t[2] .. t[2] + n - 1)

Refused == [verdict |-> "refused"]
Aborted == [verdict |-> "aborted"]
Undefined == [verdict |-> "undefined"]
Loaded(w, h, n, tiles) ==
    [verdict |-> "loaded",
     map |-> [width |-> w, height |-> h, base_size |-> n, tiles |-> tiles]]

-----------------------------------------------------------------------------
(* The text format.  A file is the two numbers of its first line and its    *)
(* rows, each the characters that are left when white space is removed; the *)
(* last row may or may not end with a newline.  The first line is "good",   *)
(* or the file ends after the width ("short"), or no number follows it      *)
(* ("word").  The width has no sign, since a text file starts with a digit. *)
(* Numbers that do not fit pos_t, which the constructor narrows and the     *)
(* loops do not, are left out.                                              *)

TextFiles == [format : {"text"}, first : {"good", "short", "word"},
              width : pos_t \cap Nat, height : pos_t,
              rows : Seq(Seq(STRING)), newline : BOOLEAN]

TextTile ==
    [c \in {"#", ".", "~", "$", "B"} |->
        [terrain |-> CASE c = "#" -> OBSTACLE [] c = "~" -> WATER [] OTHER -> EMPTY,
         side |-> 0, is_resource |-> c = "$", is_base |-> c = "B"]]

\* What `line` holds when row y has been asked for.  A getline that finds the
\* stream at its end before it starts leaves `line` as it was; one that starts
\* and finds nothing empties it.  After a failed ">>" every getline fails.
Line(f, y) ==
    CASE f.first # "good" -> <<>>
      [] f.first = "good" /\ y < Len(f.rows) -> f.rows[y + 1]
      [] OTHER -> IF f.newline \/ f.rows = <<>> THEN <<>> ELSE Last(f.rows)

\* The height of the tilemap: ">> height" stores 0 when it finds no number, and
\* leaves the variable uninitialised when it finds no more input.  Of all values,
\* the three stand for a negative one, zero and a positive one.
Heights(f) == CASE f.first = "good" -> {f.height}
                [] f.first = "word" -> {0}
                [] f.first = "short" -> {-1, 0, 1}

\* The length of the run of base tiles that starts at t and goes right.
RunLength(is_base, w, t) ==
    CHOOSE n \in 1 .. w - t[1] :
        /\ \A i \in 0 .. n - 1 : <<t[1] + i, t[2]>> \in is_base
        /\ t[1] + n = w \/ <<t[1] + n, t[2]>> \notin is_base

\* Mutant of TooMany: the second base is one too many.
TooMany_OffByOne(found) == found >= 2

\* The check of base_found, after it has been incremented.
TooMany(found) == found > 2

\* One tile of the scan for bases; s is what the scan has found so far.  The
\* square is marked column by column, so that it leaves the map at the bottom only
\* when the whole first column is base.
ScanText(is_base, w, h, s, t) ==
    LET n == RunLength(is_base, w, t)
        square == Square(t, n)
        firstColumn == {<<t[1], y>> : y \in t[2] .. h - 1}
    IN
    IF s.verdict # "loaded" \/ t \notin is_base \/ s.side[t] # 0 THEN s
    ELSE IF TooMany(s.found + 1) \/ (s.size # 0 /\ n # s.size) THEN [s EXCEPT !.verdict = "refused"]
    ELSE IF t[2] + n > h /\ firstColumn \subseteq is_base
    THEN [s EXCEPT !.verdict = "aborted"]
    ELSE IF ~(square \subseteq is_base) THEN [s EXCEPT !.verdict = "refused"]
    ELSE [s EXCEPT !.found = @ + 1, !.size = n,
                   !.side = [u \in DOMAIN @ |-> IF u \in square THEN s.found + 1 ELSE @[u]]]

\* The scan after k tiles, for every k.
TextScan(is_base, w, h) ==
    LET scan[k \in 0 .. w * h] ==
            IF k = 0
            THEN [verdict |-> "loaded", found |-> 0, size |-> 0,
                  side |-> [t \in Positions(w, h) |-> 0]]
            ELSE ScanText(is_base, w, h, scan[k - 1], RowMajor(w, h)[k])
    IN  scan

\* The rows are not all as long as the width says, or have other characters.
BadRows(f, h) ==
    \E y \in 0 .. h - 1 : \/ Len(Line(f, y)) # f.width
                          \/ ~(Range(Line(f, y)) \subseteq DOMAIN TextTile)

BaseTiles(f, h) == {t \in Positions(f.width, h) : Line(f, t[2])[t[1] + 1] = "B"}

\* h is the height the header line has left in the variable.  An array of a
\* negative number of tiles cannot be made; one of no tiles can.
loadText(f, h) ==
    LET w == f.width
        scan == TextScan(BaseTiles(f, h), w, h)[w * h]
    IN
    IF (w > 0 /\ h < 0) \/ BadRows(f, h) THEN Refused
    ELSE IF scan.verdict # "loaded" THEN [verdict |-> scan.verdict]
    ELSE Loaded(w, h, scan.size,
                [t \in Positions(w, h) |-> [TextTile[Line(f, t[2])[t[1] + 1]]
                                               EXCEPT !.side = scan.side[t]]])

TextChar(tile) ==
    CASE tile.is_base -> "B"
      [] ~tile.is_base /\ tile.is_resource -> "$"
      [] OTHER -> CASE tile.terrain = EMPTY -> "."
                    [] tile.terrain = WATER -> "~"
                    [] tile.terrain = OBSTACLE -> "#"

saveAsText(m) ==
    [format |-> "text", first |-> "good", width |-> m.width, height |-> m.height, newline |-> TRUE,
     rows |-> [y \in 1 .. m.height |->
                  [x \in 1 .. m.width |-> TextChar(m.tiles[<<x - 1, y - 1>>])]]]

-----------------------------------------------------------------------------
(* The binary format: a prefix with magic, version, the sizes and two       *)
(* unused bytes, then a byte per tile.  prefix is "good", or what is wrong  *)
(* with it ("short", "magic", "version").                                   *)

BinaryFiles == [format : {"binary"}, prefix : {"good", "short", "magic", "version"},
                width : 0 .. WordSize - 1, height : 0 .. WordSize - 1,
                base_size : 0 .. WordSize - 1, bytes : Seq(0 .. 255)]

\* Mutant of pack: the side is shifted by one bit only.
pack_SideTooLow(tile) ==
    tile.terrain + 2 * tile.side + (IF tile.is_resource THEN 16 ELSE 0)
                 + (IF tile.is_base THEN 32 ELSE 0)

\* TileFlags::pack and TileFlags::unpack; the two highest bits are not used.
pack(tile) ==
    tile.terrain + 4 * tile.side + (IF tile.is_resource THEN 16 ELSE 0)
                 + (IF tile.is_base THEN 32 ELSE 0)

unpack(byte) ==
    [terrain |-> byte % 4, side |-> (byte \div 4) % 4,
     is_resource |-> (byte \div 16) % 2 = 1, is_base |-> (byte \div 32) % 2 = 1]

\* Mutant of ValidTile: any two bits are a terrain.
ValidTile_AnyTerrain(tile) ==
    /\ tile.side <= 2
    /\ ~tile.is_base => tile.side = 0

ValidTile(tile) ==
    /\ tile.terrain \in {EMPTY, WATER, OBSTACLE}
    /\ tile.side <= 2
    /\ ~tile.is_base => tile.side = 0

\* Mutant of ScanBinary: a base that has been found is not looked at again.
ScanBinary_FirstTileOnly(tiles, w, h, n, s, t) ==
    LET side == tiles[t].side
        OwnBase(u) == tiles[u].is_base /\ tiles[u].side = side
    IN
    IF s.verdict # "loaded" \/ ~tiles[t].is_base THEN s
    ELSE IF side = 0 THEN [s EXCEPT !.verdict = "undefined"]
    ELSE IF s.corner[side] # <<>> THEN s
    ELSE IF t[1] + n > w \/ t[2] + n > h \/ \E u \in Square(t, n) : ~OwnBase(u)
    THEN [s EXCEPT !.verdict = "refused"]
    ELSE [s EXCEPT !.corner[side] = t]

\* One tile of the check of the bases; s.corner has the first tile of each base.
\* A base tile without a side reads and writes base_found[-1].
ScanBinary(tiles, w, h, n, s, t) ==
    LET side == tiles[t].side
        OwnBase(u) == tiles[u].is_base /\ tiles[u].side = side
    IN
    IF s.verdict # "loaded" \/ ~tiles[t].is_base THEN s
    ELSE IF side = 0 THEN [s EXCEPT !.verdict = "undefined"]
    ELSE IF s.corner[side] # <<>>
    THEN IF t \in Square(s.corner[side], n) THEN s ELSE [s EXCEPT !.verdict = "refused"]
    ELSE IF t[1] + n > w \/ t[2] + n > h \/ \E u \in Square(t, n) : ~OwnBase(u)
    THEN [s EXCEPT !.verdict = "refused"]
    ELSE [s EXCEPT !.corner[side] = t]

\* The check after k tiles, for every k.
BinaryScan(tiles, w, h, n) ==
    LET scan[k \in 0 .. w * h] ==
            IF k = 0
            THEN [verdict |-> "loaded", corner |-> <<<<>>, <<>>>>]
            ELSE ScanBinary(tiles, w, h, n, scan[k - 1], RowMajor(w, h)[k])
    IN  scan

UnpackedTiles(f) ==
    [t \in Positions(f.width, f.height) |-> unpack(f.bytes[t[2] * f.width + t[1] + 1])]

\* The three sizes are stored in a pos_t.  A width or height that is negative
\* there is refused like one that is too large; a negative base size is not.
loadBinary(f) ==
    LET w == f.width
        h == f.height
        n == Signed(f.base_size)
        tiles == UnpackedTiles(f)
        scan == BinaryScan(tiles, w, h, n)[w * h]
    IN
    IF \/ f.prefix # "good"
       \/ ~({w, h} \subseteq 1 .. MaxDimension)
       \/ Len(f.bytes) < w * h
       \/ \E t \in Positions(w, h) : ~ValidTile(tiles[t])
    THEN Refused
    ELSE IF scan.verdict # "loaded" THEN [verdict |-> scan.verdict]
    ELSE IF Len(f.bytes) > w * h THEN Refused
    ELSE Loaded(w, h, n, tiles)

saveAsBinary(m) ==
    [format |-> "binary", prefix |-> "good", width |-> m.width, height |-> m.height,
     base_size |-> m.base_size % WordSize,
     bytes |-> [i \in 1 .. m.width * m.height |->
                   pack(m.tiles[RowMajor(m.width, m.height)[i]])]]

\* Tilemap::load; h as for loadText.
load(f, h) ==
    CASE f.format = "empty" -> Refused
      [] f.format = "text" -> loadText(f, h)
      [] f.format = "binary" -> loadBinary(f)

-----------------------------------------------------------------------------
(* Generation.  The noise is taken as the terrain it stands for: any         *)
(* function from positions to terrains.                                      *)

\* The map before the resources are placed: the bases in two corners.
Ground(c, terrain) ==
    LET corner == <<c.width - c.base_size, c.height - c.base_size>>
    IN  [t \in Positions(c.width, c.height) |->
            IF t \in Square(corner, c.base_size)
            THEN [Plain EXCEPT !.is_base = TRUE, !.side = 2]
            ELSE IF t \in Square(<<0, 0>>, c.base_size)
            THEN [Plain EXCEPT !.is_base = TRUE, !.side = 1]
            ELSE [Plain EXCEPT !.terrain = terrain[t]]]

\* A cluster fits at t.
Fits(ground, t) ==
    \A u \in Square(t, ClusterSize) :
        u \in DOMAIN ground /\ ground[u].terrain = EMPTY /\ ~ground[u].is_base

\* The clusters after k attempts, for every k; the loop ends when enough are placed.
Clusters(ground, limit, spots) ==
    LET s[k \in 0 .. Len(spots)] ==
            IF k = 0 THEN [placed |-> 0, tiles |-> {}]
            ELSE IF s[k - 1].placed < limit /\ Fits(ground, spots[k])
            THEN [placed |-> s[k - 1].placed + 1,
                  tiles |-> s[k - 1].tiles \cup Square(spots[k], ClusterSize)]
            ELSE s[k - 1]
    IN  s

generate(c, terrain, spots) ==
    LET ground == Ground(c, terrain)
        resources == Clusters(ground, c.num_resources, spots)[Len(spots)].tiles
    IN
    IF ~({c.width, c.height} \subseteq MinRandom .. MaxRandom) \/ c.base_size \notin MinBase .. MaxBase
    THEN Refused
    ELSE Loaded(c.width, c.height, c.base_size,
                [t \in DOMAIN ground |-> [ground[t] EXCEPT !.is_resource = t \in resources]])
=============================================================================
