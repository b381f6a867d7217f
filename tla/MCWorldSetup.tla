---------------------------- MODULE MCWorldSetup ----------------------------
(* Every placing of base tiles on a small text map, damaged binary and text  *)
(* files, and command lines that differ from the usual one in a few places.  *)
EXTENDS WorldSetup

Usual == [mode |-> "Headless", given |-> {}, random |-> FALSE,
          size |-> [width |-> 4, height |-> 4, base_size |-> 2, num_resources |-> 1],
          ui_mode |-> "tui", step_interval_ms |-> 0,
          rules |-> [r \in Rules |-> 1], programs |-> TRUE,
          file |-> [format |-> "unreadable"]]

\* A w x h text file with these base tiles; the others differ from one another.
Filler == <<".", "#", "~", "$">>
TextFile(w, h, bases) ==
    [format |-> "text", first |-> "good", width |-> w, height |-> h, newline |-> TRUE,
     rows |-> [y \in 1 .. h |-> [x \in 1 .. w |->
                  IF <<x - 1, y - 1>> \in bases THEN "B" ELSE Filler[1 + ((x * y) % 4)]]]]

\* One whole base and anything in the other tiles.
Layouts == {TextFile(5, 3, b) : b \in {c \in SUBSET Positions(5, 3) :
                                         \E a \in Positions(4, 2) : Square(a, 2) \subseteq c}}

Good == TextFile(5, 4, Square(<<3, 0>>, 2) \cup Square(<<0, 2>>, 2))

\* Files that are damaged, or have other sizes: bases of one tile and of three,
\* bases that touch at a corner and at an edge, maps that are wider than a byte.
OddText ==
    {[Good EXCEPT !.first = "short"], [Good EXCEPT !.first = "word"],
     [Good EXCEPT !.rows[2] = <<".", "?", ".", "B", "B">>],
     [Good EXCEPT !.rows[2] = <<".", ".", "B", "B">>],
     [Good EXCEPT !.height = -1], [Good EXCEPT !.rows = <<>>],
     [Good EXCEPT !.width = 0, !.height = -1], [Good EXCEPT !.width = 0, !.first = "short"]}
    \cup {[Good EXCEPT !.rows = SubSeq(@, 1, n), !.newline = e] :
             n \in 3 .. 4, e \in BOOLEAN}
    \cup {TextFile(w, 4, Square(<<0, 0>>, 2) \cup Square(<<w - 2, 1>>, 2)) :
             w \in {2, 7, 8, 9, 11, 13}}
    \cup {TextFile(7, 5, Square(<<0, 0>>, n) \cup Square(<<4, y>>, n)) : n \in {1, 3}, y \in 0 .. 2}
    \cup {TextFile(5, 4, Square(<<0, 0>>, 2) \cup Square(<<x, 2>>, 2)) : x \in 0 .. 3}

\* A binary file with one byte changed, or another length or base size.
Bytes(a, b, n) == [i \in 1 .. 20 |-> CASE RowMajor(5, 4)[i] \in Square(a, n) -> 32 + 4
                                     [] RowMajor(5, 4)[i] \in Square(b, n) -> 32 + 8
                                     [] OTHER -> i % 2]
GoodBinary ==
    [format |-> "binary", prefix |-> "good", width |-> 5, height |-> 4, base_size |-> 2,
     bytes |-> Bytes(<<3, 0>>, <<0, 2>>, 2)]

\* Of the base sizes, 16 and more are negative in a pos_t, and 10, 18 and 26 look
\* like 2 in a byte.
OddBinary ==
    {[GoodBinary EXCEPT !.bytes[i] = v] : i \in 1 .. 20,
                                         v \in {0, 1, 2, 4, 16, 32, 36, 37, 40, 44, 128}}
    \cup {[GoodBinary EXCEPT !.base_size = n, !.bytes = Bytes(<<3, 0>>, <<0, 2>>, k)] :
             n \in {0, 1, 2, 3, 10, 16, 18, 26, WordSize - 1}, k \in 0 .. 2}
    \cup {[GoodBinary EXCEPT !.prefix = p] : p \in {"short", "magic", "version"}}
    \cup {[GoodBinary EXCEPT !.bytes = Tail(@)], [GoodBinary EXCEPT !.bytes = Append(@, 0)],
          [GoodBinary EXCEPT !.width = 0], [GoodBinary EXCEPT !.width = MaxDimension + 1],
          [GoodBinary EXCEPT !.width = 10, !.height = 2, !.bytes = Bytes(<<4, 0>>, <<0, 2>>, 1),
                             !.base_size = 1]}

WithMap(f) == [Usual EXCEPT !.given = {"map"}, !.file = f]

\* Command lines: any set of flags; one rule or size changed; a pair out of order.
Flagged == {[Usual EXCEPT !.mode = m, !.given = g, !.random = r, !.file = Good] :
               m \in {"Headless", "Interactive"}, g \in SUBSET Flags, r \in BOOLEAN}
Ruled == {[Usual EXCEPT !.rules[r] = v] :
             r \in Rules, v \in {0, ByteSize - 1, ByteSize, ByteSize + 1, WordSize, WordSize + 1}}
Sized == {[Usual EXCEPT !.random = TRUE, !.size.width = w, !.size.height = h, !.size.base_size = n] :
             w \in {MinSize - 1, 3, 5, ByteSize}, h \in {4, 6}, n \in 1 .. 3}
Odd == {[Usual EXCEPT !.mode = "Interactive", !.ui_mode = "other"],
        [Usual EXCEPT !.mode = "Interactive", !.step_interval_ms = -1],
        [Usual EXCEPT !.programs = FALSE]}

MCInputs == {WithMap(f) : f \in Layouts \cup OddText \cup OddBinary
                                \cup {Good, GoodBinary, [format |-> "empty"],
                                      [format |-> "unreadable"]}}
            \cup Flagged \cup Ruled \cup Sized \cup Odd

\* Noise that is high or low on one tile, and two attempts for the one cluster.
MCTerrains(w, h) ==
    {[t \in Positions(w, h) |-> IF t = u THEN x ELSE EMPTY] :
        u \in {<<0, 0>>, <<2, 1>>}, x \in {EMPTY, WATER, OBSTACLE}}
MCSpots(w, h, n) == [1 .. n -> {<<0, 2>>, <<2, 0>>, <<2, 1>>, <<1, 1>>, <<w - 1, 0>>}]
=============================================================================
