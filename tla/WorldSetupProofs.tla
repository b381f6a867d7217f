-------------------------- MODULE WorldSetupProofs --------------------------
(***************************************************************************)
(* Proofs about WorldSetup and Tilemap: for every command line, every map   *)
(* file and every size, a world that runs has two proper bases, a file that *)
(* its format allows is loaded, and a map survives saving.                  *)
(*                                                                          *)
(* The loaders are loops over the tiles of a map, which Tilemap writes as   *)
(* recursive functions on the number of tiles looked at.  What a loop       *)
(* computes is proved by induction over sets of natural numbers             *)
(* (SetInduction, RoundInduction): the set of the rounds after which the    *)
(* invariant of the loop holds is the set of all rounds.                    *)
(***************************************************************************)
EXTENDS WorldSetup, FiniteSetTheorems, WellFoundedInduction, TLAPS

-----------------------------------------------------------------------------
(* Numbers and loops.                                                       *)

(* A set of natural numbers has a least element.                            *)
LEMMA LeastElement ==
    ASSUME NEW M \in SUBSET Nat, M # {}
    PROVE  \E m \in M : \A k \in M : m <= k
<1>1. PICK m \in M : \A k \in M : <<k, m>> \notin OpToRel(<, Nat)
  BY WFMin, NatLessThanWellFounded, Zenon
<1>2. \A k \in M : ~(k < m)
  BY <1>1, Zenon DEF OpToRel
<1>3. QED
  BY <1>2

(* Induction over the natural numbers, for a set of them.                   *)
LEMMA SetInduction ==
    ASSUME NEW T \in SUBSET Nat, 0 \in T, \A n \in T : n + 1 \in T
    PROVE  T = Nat
<1>1. SUFFICES ASSUME Nat \ T # {} PROVE FALSE
  OBVIOUS
<1>2. PICK m \in Nat \ T : \A k \in Nat \ T : m <= k
  BY <1>1, LeastElement
<1>3. m - 1 \in T
  BY <1>2
<1>4. QED
  BY <1>2, <1>3

\* The bodies of a loop of n rounds over the states S, and its runs: the states
\* after each round.
Bodies(S, n) == [S \X (1 .. n) -> S]
Runs(S, n, start, F) ==
    {e \in [0 .. n -> S] : e[0] = start /\ \A k \in 1 .. n : e[k] = F[<<e[k - 1], k>>]}

(* A loop runs.                                                              *)
LEMMA LoopRuns ==
    ASSUME NEW S, NEW n \in Nat, NEW start \in S, NEW F \in Bodies(S, n)
    PROVE  Runs(S, n, start, F) # {}
<1> USE DEF Bodies
<1> DEFINE Run(m) == \E e \in [0 .. m -> S] :
                        e[0] = start /\ \A k \in 1 .. m : e[k] = F[<<e[k - 1], k>>]
           T == {m \in Nat : m <= n => Run(m)}
<1>1. 0 \in T
  <2> DEFINE e == [k \in 0 .. 0 |-> start]
  <2>1. e \in [0 .. 0 -> S] /\ e[0] = start /\ \A k \in 1 .. 0 : e[k] = F[<<e[k - 1], k>>]
    OBVIOUS
  <2>2. Run(0)
    BY <2>1
  <2>3. QED
    BY <2>2
<1>2. ASSUME NEW m \in T PROVE m + 1 \in T
  <2> SUFFICES ASSUME m + 1 <= n PROVE Run(m + 1)
    OBVIOUS
  <2>1. PICK e \in [0 .. m -> S] : e[0] = start /\ \A k \in 1 .. m : e[k] = F[<<e[k - 1], k>>]
    OBVIOUS
  <2>2. m \in 0 .. m /\ e[m] \in S /\ F[<<e[m], m + 1>>] \in S
    BY <2>1
  <2> DEFINE g == [k \in 0 .. m + 1 |-> IF k <= m THEN e[k] ELSE F[<<e[m], m + 1>>]]
  <2>3. g \in [0 .. m + 1 -> S]
    BY <2>1, <2>2
  <2>4. g[0] = start
    BY <2>1
  <2>5. ASSUME NEW k \in 1 .. m + 1 PROVE g[k] = F[<<g[k - 1], k>>]
    <3>1. CASE k <= m
      <4>1. g[k] = e[k] /\ g[k - 1] = e[k - 1] /\ k \in 1 .. m
        BY <3>1
      <4>2. QED
        BY <2>1, <4>1
    <3>2. CASE k = m + 1
      <4>1. g[k] = F[<<e[m], m + 1>>] /\ g[k - 1] = e[m]
        BY <3>2
      <4>2. QED
        BY <3>2, <4>1
    <3>3. QED
      BY <3>1, <3>2
  <2> HIDE DEF g
  <2>6. QED
    BY <2>3, <2>4, <2>5
<1>3. T \in SUBSET Nat
  OBVIOUS
<1> HIDE DEF T
<1>4. T = Nat
  BY <1>1, <1>2, <1>3, SetInduction
<1>5. n \in T
  BY <1>4
<1>6. Run(n)
  BY <1>5 DEF T
<1>7. QED
  BY <1>6 DEF Runs

(* Division with remainder.                                                 *)
LEMMA DivisionIs ==
    ASSUME NEW x \in Nat, NEW d \in Nat \ {0}
    PROVE  /\ x \div d \in Nat /\ x % d \in 0 .. d - 1
           /\ x = (x \div d) * d + (x % d)
<1> DEFINE Split(y) == \E q \in Nat, r \in 0 .. d - 1 : y = q * d + r
           T == {y \in Nat : Split(y)}
<1>1. 0 \in T
  <2>1. 0 = 0 * d + 0 /\ 0 \in 0 .. d - 1
    OBVIOUS
  <2>2. QED
    BY <2>1
<1>2. ASSUME NEW y \in T PROVE y + 1 \in T
  <2>1. PICK q \in Nat, r \in 0 .. d - 1 : y = q * d + r
    OBVIOUS
  <2>2. CASE r < d - 1
    <3>1. y + 1 = q * d + (r + 1) /\ r + 1 \in 0 .. d - 1
      BY <2>1, <2>2
    <3>2. QED
      BY <3>1
  <2>3. CASE r = d - 1
    <3>1. (q + 1) * d = q * d + d /\ q * d \in Nat
      OBVIOUS
    <3>2. y + 1 = (q + 1) * d + 0 /\ 0 \in 0 .. d - 1 /\ q + 1 \in Nat
      BY <2>1, <2>3, <3>1
    <3>3. Split(y + 1)
      BY <3>2, Zenon
    <3>4. QED
      BY <3>3
  <2>4. QED
    BY <2>2, <2>3
<1>3. T \in SUBSET Nat
  OBVIOUS
<1> HIDE DEF T
<1>4. T = Nat
  BY <1>1, <1>2, <1>3, SetInduction
<1>5. PICK q \in Nat, r \in 0 .. d - 1 : x = q * d + r
  BY <1>4 DEF T
<1>6. (q * d + r) \div d = q /\ (q * d + r) % d = r
  OBVIOUS
<1>7. x \div d = q /\ x % d = r
  BY <1>5, <1>6
<1>8. QED
  BY <1>5, <1>7, Zenon

(* The places of a grid in the order of two nested loops: the place with    *)
(* outer index a and inner index b comes at a * d + b + 1, of m * d.        *)
LEMMA GridIndices ==
    ASSUME NEW m \in Nat, NEW d \in Nat, NEW i \in 1 .. m * d
    PROVE  /\ (i - 1) \div d \in 0 .. m - 1 /\ (i - 1) % d \in 0 .. d - 1
           /\ i = ((i - 1) \div d) * d + ((i - 1) % d) + 1
<1>1. d \in Nat \ {0}
  <2>1. CASE d = 0
    <3>1. m * d = 0
      BY <2>1
    <3>2. QED
      BY <3>1
  <2>2. QED
    BY <2>1
<1>2. i - 1 \in Nat /\ m * d \in Nat
  OBVIOUS
<1>3. PICK q \in Nat, r \in 0 .. d - 1 : q = (i - 1) \div d /\ r = (i - 1) % d /\ i - 1 = q * d + r
  BY <1>1, <1>2, DivisionIs
<1>4. q < m
  <2>1. SUFFICES ASSUME q >= m PROVE FALSE
    OBVIOUS
  <2>2. (q - m) * d \in Nat /\ (q - m) * d = q * d - m * d
    BY <2>1
  <2>3. q * d \in Nat /\ m * d \in Nat
    OBVIOUS
  <2>4. QED
    BY <1>3, <2>2, <2>3
<1>5. q \in 0 .. m - 1 /\ i = q * d + r + 1
  BY <1>3, <1>4
<1>6. QED
  BY <1>3, <1>5, Zenon

(* The other way around: the indices of a place.                            *)
LEMMA GridPlace ==
    ASSUME NEW m \in Nat, NEW d \in Nat, NEW a \in 0 .. m - 1, NEW b \in 0 .. d - 1
    PROVE  /\ a * d + b + 1 \in 1 .. m * d
           /\ (a * d + b) \div d = a /\ (a * d + b) % d = b
<1>1. d \in Nat \ {0} /\ a \in Nat
  OBVIOUS
<1>2. (a * d + b) \div d = a /\ (a * d + b) % d = b
  BY <1>1
<1>3. (m - 1 - a) * d \in Nat /\ (m - 1 - a) * d = m * d - d - a * d
  BY <1>1
<1>4. a * d \in Nat /\ m * d \in Nat
  BY <1>1
<1>5. a * d + b + 1 \in 1 .. m * d
  BY <1>1, <1>3, <1>4
<1>6. QED
  BY <1>2, <1>5

(* Of two places the one with the smaller outer index comes first, and of    *)
(* two with the same the one with the smaller inner index.                   *)
LEMMA GridLess ==
    ASSUME NEW d \in Nat, NEW a \in Nat, NEW b \in 0 .. d - 1,
           NEW e \in Nat, NEW f \in 0 .. d - 1
    PROVE  a * d + b <= e * d + f <=> a < e \/ (a = e /\ b <= f)
<1>1. ASSUME NEW x \in Nat, NEW y \in Nat, x < y
      PROVE  x * d + d <= y * d
  <2>1. (y - x - 1) * d \in Nat /\ (y - x - 1) * d = y * d - (x * d + d)
    BY <1>1
  <2>2. x * d \in Nat /\ y * d \in Nat
    OBVIOUS
  <2>3. QED
    BY <2>1, <2>2
<1>2. a * d \in Nat /\ e * d \in Nat
  OBVIOUS
<1>3. CASE a < e
  <2>1. a * d + d <= e * d
    BY <1>1, <1>3
  <2>2. QED
    BY <1>2, <1>3, <2>1
<1>4. CASE a = e
  BY <1>2, <1>4
<1>5. CASE e < a
  <2>1. e * d + d <= a * d
    BY <1>1, <1>5
  <2>2. QED
    BY <1>2, <1>5, <2>1
<1>6. QED
  BY <1>3, <1>4, <1>5

-----------------------------------------------------------------------------
(* Tiles in the order of the loops, and squares of tiles.                    *)

\* The sizes that a loaded map can have: a text file may say a width of 0 and any
\* height.
Sizes(w, h) == w \in Nat /\ h \in Int /\ (w = 0 \/ h \in Nat)

\* The place of a tile in the two orders.
Place(w, t) == t[2] * w + t[1] + 1
ColumnPlace(h, t) == t[1] * h + t[2] + 1

(* The number of tiles is a number.                                          *)
LEMMA Area ==
    ASSUME NEW w, NEW h, Sizes(w, h)
    PROVE  /\ w * h \in Nat /\ w \in Nat /\ h \in Int
           /\ w = 0 => w * h = 0
           /\ w # 0 => h \in Nat
           /\ h * w \in Nat /\ h * w = w * h
<1>1. CASE w = 0
  <2>1. w * h = 0 /\ h * w = 0
    BY <1>1 DEF Sizes
  <2>2. QED
    BY <1>1, <2>1 DEF Sizes
<1>2. CASE w # 0
  <2>1. h \in Nat /\ w \in Nat
    BY <1>2 DEF Sizes
  <2>2. QED
    BY <1>2, <2>1
<1>3. QED
  BY <1>1, <1>2

(* A map with a tile has a height.                                           *)
LEMMA Height ==
    ASSUME NEW w, NEW h, Sizes(w, h), Positions(w, h) # {} \/ w * h # 0
    PROVE  w \in Nat /\ h \in Nat /\ w # 0
<1>1. w # 0
  <2>1. CASE w = 0
    <3>1. w * h = 0 /\ Positions(w, h) = {}
      BY <2>1, Area DEF Positions
    <3>2. QED
      BY <3>1
  <2>2. QED
    BY <2>1
<1>2. QED
  BY <1>1, Area

(* RowMajor lists every tile once, and a tile at its place.                  *)
LEMMA RowMajorIs ==
    ASSUME NEW w, NEW h, Sizes(w, h)
    PROVE  /\ \A k \in 1 .. w * h : /\ RowMajor(w, h)[k] \in Positions(w, h)
                                    /\ Place(w, RowMajor(w, h)[k]) = k
           /\ \A t \in Positions(w, h) : /\ Place(w, t) \in 1 .. w * h
                                         /\ RowMajor(w, h)[Place(w, t)] = t
<1>1. ASSUME NEW k \in 1 .. w * h
      PROVE  RowMajor(w, h)[k] \in Positions(w, h) /\ Place(w, RowMajor(w, h)[k]) = k
  <2>1. w \in Nat /\ h \in Nat /\ h * w = w * h
    <3>1. w * h # 0
      BY Area
    <3>2. QED
      BY <3>1, Area, Height
  <2>2. k \in 1 .. h * w
    BY <2>1
  <2>3. PICK x \in 0 .. w - 1, y \in 0 .. h - 1 :
           y = (k - 1) \div w /\ x = (k - 1) % w /\ k = y * w + x + 1
    <3>1. /\ (k - 1) \div w \in 0 .. h - 1 /\ (k - 1) % w \in 0 .. w - 1
          /\ k = ((k - 1) \div w) * w + ((k - 1) % w) + 1
      BY <2>1, <2>2, GridIndices, Zenon
    <3>2. QED
      BY <3>1, Zenon
  <2>4. RowMajor(w, h)[k] = <<x, y>>
    BY <2>3, Zenon DEF RowMajor
  <2>5. <<x, y>> \in Positions(w, h)
    BY DEF Positions
  <2>6. Place(w, <<x, y>>) = y * w + x + 1
    BY DEF Place
  <2>7. QED
    BY <2>3, <2>4, <2>5, <2>6, Zenon
<1>2. ASSUME NEW t \in Positions(w, h)
      PROVE  Place(w, t) \in 1 .. w * h /\ RowMajor(w, h)[Place(w, t)] = t
  <2>1. PICK x \in 0 .. w - 1, y \in 0 .. h - 1 : t = <<x, y>>
    BY DEF Positions
  <2>2. w \in Nat /\ h \in Nat /\ h * w = w * h
    BY Area, Height
  <2>3. y * w + x + 1 \in 1 .. h * w /\ (y * w + x) \div w = y /\ (y * w + x) % w = x
    <3>1. \A a \in 0 .. h - 1, b \in 0 .. w - 1 :
             /\ a * w + b + 1 \in 1 .. h * w
             /\ (a * w + b) \div w = a /\ (a * w + b) % w = b
      BY <2>2, GridPlace
    <3>2. QED
      BY <3>1, Zenon
  <2>4. Place(w, t) = y * w + x + 1
    BY <2>1 DEF Place
  <2>5. Place(w, t) \in 1 .. w * h
    BY <2>2, <2>3, <2>4, Zenon
  <2>6. y * w \in Nat
    BY <2>2
  <2>7. Place(w, t) - 1 = y * w + x
    BY <2>4, <2>6
  <2>8. RowMajor(w, h)[Place(w, t)] = <<x, y>>
    BY <2>3, <2>5, <2>7, Zenon DEF RowMajor
  <2>9. QED
    BY <2>1, <2>5, <2>8
<1>3. QED
  BY <1>1, <1>2

(* The order of the rows.                                                    *)
LEMMA RowOrder ==
    ASSUME NEW w, NEW h, Sizes(w, h), NEW t \in Positions(w, h), NEW u \in Positions(w, h)
    PROVE  Place(w, t) <= Place(w, u) <=> t[2] < u[2] \/ (t[2] = u[2] /\ t[1] <= u[1])
<1>1. PICK x \in 0 .. w - 1, y \in 0 .. h - 1 : t = <<x, y>>
  BY DEF Positions
<1>2. PICK p \in 0 .. w - 1, q \in 0 .. h - 1 : u = <<p, q>>
  BY DEF Positions
<1>3. w \in Nat /\ y \in Nat /\ q \in Nat
  BY Height
<1>4. y * w + x <= q * w + p <=> y < q \/ (y = q /\ x <= p)
  BY <1>3, GridLess
<1>5. y * w \in Nat /\ q * w \in Nat
  BY <1>3
<1>6. Place(w, t) = y * w + x + 1 /\ Place(w, u) = q * w + p + 1
  BY <1>1, <1>2 DEF Place
<1>7. Place(w, t) <= Place(w, u) <=> y * w + x <= q * w + p
  BY <1>5, <1>6
<1>8. QED
  BY <1>1, <1>2, <1>4, <1>7

(* The same for the order column by column.                                  *)
LEMMA ColumnMajorIs ==
    ASSUME NEW w, NEW h, Sizes(w, h)
    PROVE  /\ DOMAIN ColumnMajor(w, h) = 1 .. w * h
           /\ \A k \in 1 .. w * h : /\ ColumnMajor(w, h)[k] \in Positions(w, h)
                                    /\ ColumnPlace(h, ColumnMajor(w, h)[k]) = k
           /\ \A t \in Positions(w, h) : /\ ColumnPlace(h, t) \in 1 .. w * h
                                         /\ ColumnMajor(w, h)[ColumnPlace(h, t)] = t
<1>1. ASSUME NEW k \in 1 .. w * h
      PROVE  ColumnMajor(w, h)[k] \in Positions(w, h) /\ ColumnPlace(h, ColumnMajor(w, h)[k]) = k
  <2>1. w \in Nat /\ h \in Nat
    <3>1. w * h # 0
      BY Area
    <3>2. QED
      BY <3>1, Height
  <2>3. PICK x \in 0 .. w - 1, y \in 0 .. h - 1 :
           x = (k - 1) \div h /\ y = (k - 1) % h /\ k = x * h + y + 1
    <3>1. /\ (k - 1) \div h \in 0 .. w - 1 /\ (k - 1) % h \in 0 .. h - 1
          /\ k = ((k - 1) \div h) * h + ((k - 1) % h) + 1
      BY <2>1, GridIndices, Zenon
    <3>2. QED
      BY <3>1, Zenon
  <2>4. ColumnMajor(w, h)[k] = <<x, y>>
    BY <2>3, Zenon DEF ColumnMajor
  <2>5. <<x, y>> \in Positions(w, h)
    BY DEF Positions
  <2>6. ColumnPlace(h, <<x, y>>) = x * h + y + 1
    BY DEF ColumnPlace
  <2>7. QED
    BY <2>3, <2>4, <2>5, <2>6, Zenon
<1>2. ASSUME NEW t \in Positions(w, h)
      PROVE  ColumnPlace(h, t) \in 1 .. w * h /\ ColumnMajor(w, h)[ColumnPlace(h, t)] = t
  <2>1. PICK x \in 0 .. w - 1, y \in 0 .. h - 1 : t = <<x, y>>
    BY DEF Positions
  <2>2. w \in Nat /\ h \in Nat
    BY Height
  <2>3. x * h + y + 1 \in 1 .. w * h /\ (x * h + y) \div h = x /\ (x * h + y) % h = y
    <3>1. \A a \in 0 .. w - 1, b \in 0 .. h - 1 :
             /\ a * h + b + 1 \in 1 .. w * h
             /\ (a * h + b) \div h = a /\ (a * h + b) % h = b
      BY <2>2, GridPlace
    <3>2. QED
      BY <3>1, Zenon
  <2>4. ColumnPlace(h, t) = x * h + y + 1
    BY <2>1 DEF ColumnPlace
  <2>5. ColumnPlace(h, t) \in 1 .. w * h
    BY <2>3, <2>4, Zenon
  <2>6. x * h \in Nat
    BY <2>2
  <2>7. ColumnPlace(h, t) - 1 = x * h + y
    BY <2>4, <2>6
  <2>8. ColumnMajor(w, h)[ColumnPlace(h, t)] = <<x, y>>
    BY <2>3, <2>5, <2>7, Zenon DEF ColumnMajor
  <2>9. QED
    BY <2>1, <2>5, <2>8
<1>3. DOMAIN ColumnMajor(w, h) = 1 .. w * h
  BY DEF ColumnMajor
<1>4. QED
  BY <1>1, <1>2, <1>3

(* The order of the columns.                                                 *)
LEMMA ColumnOrder ==
    ASSUME NEW w, NEW h, Sizes(w, h), NEW t \in Positions(w, h), NEW u \in Positions(w, h)
    PROVE  ColumnPlace(h, t) <= ColumnPlace(h, u) <=> t[1] < u[1] \/ (t[1] = u[1] /\ t[2] <= u[2])
<1>1. PICK x \in 0 .. w - 1, y \in 0 .. h - 1 : t = <<x, y>>
  BY DEF Positions
<1>2. PICK p \in 0 .. w - 1, q \in 0 .. h - 1 : u = <<p, q>>
  BY DEF Positions
<1>3. h \in Nat /\ x \in Nat /\ p \in Nat
  BY Height
<1>4. x * h + y <= p * h + q <=> x < p \/ (x = p /\ y <= q)
  BY <1>3, GridLess
<1>5. x * h \in Nat /\ p * h \in Nat
  BY <1>3
<1>6. ColumnPlace(h, t) = x * h + y + 1 /\ ColumnPlace(h, u) = p * h + q + 1
  BY <1>1, <1>2 DEF ColumnPlace
<1>7. ColumnPlace(h, t) <= ColumnPlace(h, u) <=> x * h + y <= p * h + q
  BY <1>5, <1>6
<1>8. QED
  BY <1>1, <1>2, <1>4, <1>7

(* Induction over the rounds of a loop.                                      *)
LEMMA RoundInduction ==
    ASSUME NEW n \in Nat, NEW T \in SUBSET (0 .. n),
           0 \in T, \A k \in 1 .. n : k - 1 \in T => k \in T
    PROVE  T = 0 .. n
<1> DEFINE U == {k \in Nat : k <= n => k \in T}
<1>1. 0 \in U
  OBVIOUS
<1>2. ASSUME NEW k \in U PROVE k + 1 \in U
  <2>1. SUFFICES ASSUME k + 1 <= n PROVE k + 1 \in T
    OBVIOUS
  <2>2. k \in T /\ k + 1 \in 1 .. n /\ (k + 1) - 1 = k
    BY <2>1
  <2>3. QED
    BY <2>2
<1>3. U \in SUBSET Nat
  OBVIOUS
<1> HIDE DEF U
<1>4. U = Nat
  BY <1>1, <1>2, <1>3, SetInduction
<1>5. ASSUME NEW k \in 0 .. n PROVE k \in T
  <2>1. k \in U /\ k <= n
    BY <1>4
  <2>2. QED
    BY <2>1 DEF U
<1>6. QED
  BY <1>5

(* The tiles of a square.                                                    *)
LEMMA SquareIs ==
    ASSUME NEW x \in Int, NEW y \in Int, NEW n \in Int
    PROVE  /\ Square(<<x, y>>, n) = (x .. x + n - 1) \X (y .. y + n - 1)
           /\ \A p, q : <<p, q>> \in Square(<<x, y>>, n)
                           <=> p \in x .. x + n - 1 /\ q \in y .. y + n - 1
<1>1. Square(<<x, y>>, n) = (x .. x + n - 1) \X (y .. y + n - 1)
  BY DEF Square
<1>2. QED
  BY <1>1

-----------------------------------------------------------------------------
(* The scan of a text file for bases.                                        *)

(* A run of base tiles has a length: it ends at the edge or before a tile    *)
(* that is not base.                                                         *)
LEMMA RunLengthIs ==
    ASSUME NEW w \in Int, NEW h \in Int, NEW is_base \in SUBSET Positions(w, h),
           NEW x, NEW y, <<x, y>> \in is_base
    PROVE  LET n == RunLength(is_base, w, <<x, y>>) IN
           /\ n \in 1 .. w - x
           /\ \A i \in 0 .. n - 1 : <<x + i, y>> \in is_base
           /\ x + n = w \/ <<x + n, y>> \notin is_base
<1>1. x \in 0 .. w - 1 /\ y \in 0 .. h - 1
  BY DEF Positions
<1> DEFINE Stops == {n \in Nat : n >= 1 /\ (x + n = w \/ <<x + n, y>> \notin is_base)}
<1>2. w - x \in Stops
  BY <1>1
<1>3. Stops \in SUBSET Nat /\ Stops # {}
  BY <1>2
<1>4. PICK n \in Stops : \A k \in Stops : n <= k
  BY <1>3, LeastElement
<1>5. n \in 1 .. w - x
  <2>1. n \in Nat /\ n >= 1 /\ n <= w - x
    BY <1>2, <1>4
  <2>2. QED
    BY <1>1, <2>1
<1>6. ASSUME NEW i \in 0 .. n - 1 PROVE <<x + i, y>> \in is_base
  <2>1. CASE i = 0
    BY <1>1, <2>1
  <2>2. CASE i # 0
    <3>1. i \in Nat /\ i >= 1 /\ i \notin Stops
      BY <1>4, <2>2
    <3>2. QED
      BY <3>1
  <2>3. QED
    BY <2>1, <2>2
<1>7. x + n = w \/ <<x + n, y>> \notin is_base
  BY <1>4
<1> DEFINE Run(m) == /\ \A i \in 0 .. m - 1 : <<x + i, y>> \in is_base
                     /\ x + m = w \/ <<x + m, y>> \notin is_base
<1>8. Run(n)
  BY <1>6, <1>7
<1>9. RunLength(is_base, w, <<x, y>>) = CHOOSE m \in 1 .. w - x : Run(m)
  BY DEF RunLength
<1> HIDE DEF Run
<1>10. /\ RunLength(is_base, w, <<x, y>>) \in 1 .. w - x
       /\ Run(RunLength(is_base, w, <<x, y>>))
  BY <1>5, <1>8, <1>9
<1>11. QED
  BY <1>10 DEF Run

\* What the scan may have found.
TextState(w, h) == [verdict : {"loaded", "refused", "aborted"}, found : Nat, size : Nat,
                    side : [Positions(w, h) -> Nat]]

TextStart(w, h) == [verdict |-> "loaded", found |-> 0, size |-> 0,
                    side |-> [t \in Positions(w, h) |-> 0]]

(* What a record looks like after the updates of the scan.                   *)
LEMMA RecordUpdate ==
    ASSUME NEW V, NEW S, NEW s \in [verdict : V, found : Nat, size : Nat, side : S],
           NEW v \in V, NEW k \in Nat, NEW n \in Nat, NEW m \in S
    PROVE  LET r == [s EXCEPT !.found = k, !.size = n, !.side = m]
               q == [s EXCEPT !.verdict = v]
           IN  /\ r \in [verdict : V, found : Nat, size : Nat, side : S]
               /\ q \in [verdict : V, found : Nat, size : Nat, side : S]
               /\ r.verdict = s.verdict /\ r.found = k /\ r.size = n /\ r.side = m
               /\ q.verdict = v
  OBVIOUS

(* A tile of the scan leads from such a state to such a state.               *)
LEMMA ScanTextType ==
    ASSUME NEW w \in Int, NEW h \in Int, NEW is_base \in SUBSET Positions(w, h),
           NEW s \in TextState(w, h), NEW t \in Positions(w, h)
    PROVE  ScanText(is_base, w, h, s, t) \in TextState(w, h)
<1>1. PICK x, y : t = <<x, y>>
  BY DEF Positions
<1> DEFINE n == RunLength(is_base, w, t)
           marked == [u \in DOMAIN s.side |-> IF u \in Square(t, n) THEN s.found + 1 ELSE s.side[u]]
<1>2. ASSUME t \in is_base PROVE n \in Nat
  <2>1. <<x, y>> \in is_base /\ x \in Int
    BY <1>1, <1>2 DEF Positions
  <2>2. RunLength(is_base, w, <<x, y>>) \in 1 .. w - x
    BY <2>1, RunLengthIs
  <2>3. QED
    BY <1>1, <2>1, <2>2
<1>3. marked \in [Positions(w, h) -> Nat]
  BY DEF TextState
<1>4. /\ [s EXCEPT !.verdict = "refused"] \in TextState(w, h)
      /\ [s EXCEPT !.verdict = "aborted"] \in TextState(w, h)
  BY DEF TextState
<1>5. ASSUME t \in is_base
      PROVE  [s EXCEPT !.found = s.found + 1, !.size = n, !.side = marked] \in TextState(w, h)
  <2> HIDE DEF n, marked
  <2>1. n \in Nat /\ marked \in [Positions(w, h) -> Nat] /\ s.found + 1 \in Nat
    BY <1>2, <1>3, <1>5 DEF TextState
  <2>2. QED
    BY <2>1, RecordUpdate DEF TextState
<1>6. QED
  BY <1>4, <1>5, Zenon DEF ScanText

(* The scan is the loop that its definition says, tile after tile.           *)
LEMMA TextScanIs ==
    ASSUME NEW w, NEW h, Sizes(w, h), NEW is_base \in SUBSET Positions(w, h)
    PROVE  LET r == TextScan(is_base, w, h) IN
           /\ r[0] = TextStart(w, h)
           /\ \A k \in 1 .. w * h : r[k] = ScanText(is_base, w, h, r[k - 1], RowMajor(w, h)[k])
           /\ \A k \in 0 .. w * h : r[k] \in TextState(w, h)
<1> DEFINE S == TextState(w, h)
           n == w * h
           step(s, k) == ScanText(is_base, w, h, s, RowMajor(w, h)[k])
           F == [x \in S \X (1 .. n) |-> step(x[1], x[2])]
           Fix(f) == f = [k \in 0 .. n |-> IF k = 0 THEN TextStart(w, h) ELSE step(f[k - 1], k)]
           r == TextScan(is_base, w, h)
<1>1. n \in Nat /\ w \in Int /\ h \in Int
  BY Area
<1>2. TextStart(w, h) \in S
  BY DEF TextStart, TextState
<1>3. \A s \in S, k \in 1 .. n : step(s, k) \in S
  <2>1. \A k \in 1 .. n : RowMajor(w, h)[k] \in Positions(w, h)
    BY RowMajorIs
  <2>2. QED
    BY <1>1, <2>1, ScanTextType
<1>4. r = CHOOSE f : Fix(f)
  BY DEF TextScan, TextStart
<1> HIDE DEF S, n, step, r
<1>5. F \in Bodies(S, n)
  BY <1>3 DEF Bodies
<1>6. \A s \in S, k \in 1 .. n : F[<<s, k>>] = step(s, k)
  OBVIOUS
<1> HIDE DEF F
<1>7. PICK e \in [0 .. n -> S] :
         e[0] = TextStart(w, h) /\ \A k \in 1 .. n : e[k] = F[<<e[k - 1], k>>]
  <2>1. Runs(S, n, TextStart(w, h), F) # {}
    BY <1>1, <1>2, <1>5, LoopRuns
  <2>2. QED
    BY <2>1 DEF Runs
<1>8. ASSUME NEW k \in 0 .. n
      PROVE  e[k] = IF k = 0 THEN TextStart(w, h) ELSE step(e[k - 1], k)
  <2>1. CASE k = 0
    BY <1>7, <2>1
  <2>2. CASE k # 0
    <3>1. k \in 1 .. n /\ k - 1 \in 0 .. n
      BY <1>1, <2>2
    <3>2. QED
      BY <1>6, <1>7, <2>2, <3>1
  <2>3. QED
    BY <2>1, <2>2
<1>9. Fix(e)
  BY <1>8
<1>10. Fix(r)
  <2> HIDE DEF Fix
  <2>1. QED
    BY <1>4, <1>9, Zenon
<1>11. r[0] = TextStart(w, h) /\ \A k \in 1 .. n : r[k] = step(r[k - 1], k)
  <2>1. 0 \in 0 .. n /\ \A k \in 1 .. n : k \in 0 .. n /\ k # 0
    BY <1>1
  <2>2. \A k \in 0 .. n : r[k] = IF k = 0 THEN TextStart(w, h) ELSE step(r[k - 1], k)
    BY <1>10
  <2>3. QED
    BY <2>1, <2>2
<1> DEFINE T == {k \in 0 .. n : r[k] \in S}
<1>12. 0 \in T
  BY <1>1, <1>2, <1>11
<1>13. \A k \in 1 .. n : k - 1 \in T => k \in T
  BY <1>1, <1>3, <1>11
<1>14. T = 0 .. n
  <2> HIDE DEF T
  <2>1. T \in SUBSET (0 .. n)
    BY DEF T
  <2>2. QED
    BY <1>1, <1>12, <1>13, <2>1, RoundInduction
<1>15. QED
  BY <1>11, <1>14 DEF S, n, step, r

(* The square that is marked at the start t of a run shares no tile with one *)
(* that was marked before: a tile of both would make the run longer.         *)
LEMMA NoOverlap ==
    ASSUME NEW w, NEW h, Sizes(w, h), NEW is_base \in SUBSET Positions(w, h),
           NEW a \in Positions(w, h), NEW t \in is_base, NEW n,
           n = RunLength(is_base, w, t), Square(a, n) \subseteq is_base,
           Place(w, a) <= Place(w, t), t \notin Square(a, n)
    PROVE  Square(a, n) \cap Square(t, n) = {}
<1>1. PICK x \in 0 .. w - 1, y \in 0 .. h - 1 : t = <<x, y>>
  BY DEF Positions
<1>2. PICK p \in 0 .. w - 1, q \in 0 .. h - 1 : a = <<p, q>>
  BY DEF Positions
<1>3. w \in Int /\ h \in Int
  BY DEF Sizes
<1>4. /\ n \in 1 .. w - x
      /\ \A i \in 0 .. n - 1 : <<x + i, y>> \in is_base
      /\ x + n = w \/ <<x + n, y>> \notin is_base
  BY <1>1, <1>3, RunLengthIs
<1>5. n \in Nat /\ n >= 1
  BY <1>3, <1>4
<1>6. q < y \/ (q = y /\ p <= x)
  BY <1>1, <1>2, RowOrder
<1>7. SUFFICES ASSUME NEW u \in Square(a, n), u \in Square(t, n) PROVE FALSE
  OBVIOUS
<1>8. PICK c, d : u = <<c, d>>
  BY DEF Square
<1>9. /\ c \in p .. p + n - 1 /\ d \in q .. q + n - 1
      /\ c \in x .. x + n - 1 /\ d \in y .. y + n - 1
  BY <1>1, <1>2, <1>5, <1>7, <1>8, SquareIs
<1>10. y \in q .. q + n - 1
  BY <1>5, <1>6, <1>9
<1>11. x < p
  <2>1. x \notin p .. p + n - 1
    BY <1>1, <1>2, <1>5, <1>10, SquareIs
  <2>2. QED
    BY <1>5, <1>9, <2>1
<1>12. x + n \in p .. p + n - 1
  BY <1>5, <1>9, <1>11
<1>13. <<x + n, y>> \in is_base
  BY <1>2, <1>5, <1>10, <1>12, SquareIs
<1>14. x + n \in 0 .. w - 1
  BY <1>13 DEF Positions
<1>15. QED
  BY <1>4, <1>13, <1>14, <1>3

\* What the scan has found after k tiles: squares of one size, made of base
\* tiles, that start at a tile it has seen, and no base tile is left behind.
TextFound(is_base, w, h, k, s) ==
    /\ s.found \in 0 .. 2
    /\ s.found = 0 <=> s.size = 0
    /\ \A t \in Positions(w, h) : s.side[t] \in 0 .. s.found
    /\ \A p \in 1 .. s.found :
          \E a \in Positions(w, h) :
              /\ Place(w, a) <= k
              /\ Square(a, s.size) \subseteq is_base
              /\ \A t \in Positions(w, h) : s.side[t] = p <=> t \in Square(a, s.size)
    /\ \A t \in is_base : Place(w, t) <= k => s.side[t] # 0

TextInv(is_base, w, h, k, s) == s.verdict = "loaded" => TextFound(is_base, w, h, k, s)

\* The base whose run of n tiles starts at t is marked.
Marks(is_base, w, h, s, t, n, s2) ==
    /\ n = RunLength(is_base, w, t) /\ Square(t, n) \subseteq is_base
    /\ s.side[t] = 0 /\ s.found < 2 /\ (s.size = 0 \/ n = s.size)
    /\ s2.found = s.found + 1 /\ s2.size = n
    /\ \A u \in Positions(w, h) :
          s2.side[u] = IF u \in Square(t, n) THEN s.found + 1 ELSE s.side[u]

(* What has been found is then squares as before, and one more.              *)
LEMMA MarkText ==
    ASSUME NEW w, NEW h, Sizes(w, h), NEW is_base \in SUBSET Positions(w, h),
           NEW k \in 1 .. w * h, NEW s \in TextState(w, h), NEW s2 \in TextState(w, h),
           NEW t \in is_base, Place(w, t) = k, NEW n,
           TextFound(is_base, w, h, k - 1, s), Marks(is_base, w, h, s, t, n, s2)
    PROVE  TextFound(is_base, w, h, k, s2)
<1> USE DEF Marks
<1>1. s.found \in 0 .. 1 /\ s2.found \in 1 .. 2 /\ w \in Int /\ h \in Int
  BY Area DEF TextFound, TextState
<1>2. n \in Nat /\ n >= 1 /\ t \in Square(t, n)
  <2>1. PICK x \in 0 .. w - 1, y \in 0 .. h - 1 : t = <<x, y>>
    BY DEF Positions
  <2>2. n \in 1 .. w - x
    <3>1. <<x, y>> \in is_base /\ n = RunLength(is_base, w, <<x, y>>)
      BY <2>1
    <3>2. RunLength(is_base, w, <<x, y>>) \in 1 .. w - x
      BY <1>1, <3>1, RunLengthIs
    <3>3. QED
      BY <3>1, <3>2
  <2>3. n \in Nat /\ n >= 1
    BY <1>1, <2>1, <2>2
  <2>4. t \in Square(t, n)
    <3>1. x \in Int /\ y \in Int
      BY <1>1
    <3>2. <<x, y>> \in Square(<<x, y>>, n)
      BY <2>3, <3>1, SquareIs
    <3>3. QED
      BY <2>1, <3>2
  <2>5. QED
    BY <2>3, <2>4
<1>3. k \in Nat /\ \A u \in Positions(w, h) : Place(w, u) \in Nat
  <2>1. \A u \in Positions(w, h) : Place(w, u) \in 1 .. w * h
    BY RowMajorIs
  <2>2. QED
    BY <2>1, Area
<1>4. ASSUME NEW p \in 1 .. s.found
      PROVE  \E a \in Positions(w, h) :
              /\ Place(w, a) <= k
              /\ Square(a, n) \subseteq is_base
              /\ \A u \in Positions(w, h) : s2.side[u] = p <=> u \in Square(a, n)
  <2>1. n = s.size /\ p # s.found + 1 /\ p # 0
    BY <1>1 DEF TextFound
  <2>2. PICK a \in Positions(w, h) :
              /\ Place(w, a) <= k - 1
              /\ Square(a, n) \subseteq is_base
              /\ \A u \in Positions(w, h) : s.side[u] = p <=> u \in Square(a, n)
    BY <2>1 DEF TextFound
  <2>3. t \notin Square(a, n)
    BY <2>1, <2>2
  <2>4. Place(w, a) <= Place(w, t) /\ Place(w, a) <= k
    BY <1>3, <2>2
  <2>5. Square(a, n) \cap Square(t, n) = {}
    BY <2>2, <2>3, <2>4, NoOverlap
  <2>6. \A u \in Positions(w, h) : s2.side[u] = p <=> u \in Square(a, n)
    BY <2>1, <2>2, <2>5
  <2>7. QED
    BY <2>2, <2>4, <2>6
<1>5. \A u \in Positions(w, h) : s2.side[u] = s.found + 1 <=> u \in Square(t, n)
  <2>1. \A u \in Positions(w, h) : s.side[u] # s.found + 1
    BY <1>1 DEF TextFound
  <2>2. QED
    BY <2>1
<1>6. ASSUME NEW p \in 1 .. s2.found
      PROVE  \E a \in Positions(w, h) :
              /\ Place(w, a) <= k
              /\ Square(a, s2.size) \subseteq is_base
              /\ \A u \in Positions(w, h) : s2.side[u] = p <=> u \in Square(a, s2.size)
  <2>1. CASE p = s.found + 1
    <3>1. t \in Positions(w, h) /\ Place(w, t) <= k
      BY <1>3
    <3>2. QED
      BY <1>5, <2>1, <3>1
  <2>2. CASE p \in 1 .. s.found
    BY <1>4, <2>2
  <2>3. QED
    BY <1>1, <2>1, <2>2
<1>7. \A u \in Positions(w, h) : s2.side[u] \in 0 .. s2.found
  BY <1>1 DEF TextFound
<1>8. ASSUME NEW u \in is_base, Place(w, u) <= k PROVE s2.side[u] # 0
  <2>1. CASE Place(w, u) <= k - 1
    BY <1>1, <2>1 DEF TextFound
  <2>2. CASE Place(w, u) = k
    <3>1. u = t
      <4>1. u \in Positions(w, h) /\ t \in Positions(w, h)
        OBVIOUS
      <4>2. RowMajor(w, h)[Place(w, u)] = u /\ RowMajor(w, h)[Place(w, t)] = t
        BY <4>1, RowMajorIs
      <4>3. QED
        BY <2>2, <4>2
    <3>2. QED
      BY <1>1, <1>2, <3>1
  <2>3. QED
    BY <1>3, <1>8, <2>1, <2>2
<1>9. s2.found = 0 <=> s2.size = 0
  BY <1>1, <1>2
<1>10. s2.found \in 0 .. 2
  BY <1>1
<1>11. QED
  BY <1>6, <1>7, <1>8, <1>9, <1>10 DEF TextFound

(* One tile of the scan keeps the invariant.                                 *)
LEMMA ScanTextStep ==
    ASSUME NEW w, NEW h, Sizes(w, h), NEW is_base \in SUBSET Positions(w, h),
           NEW k \in 1 .. w * h, NEW s \in TextState(w, h),
           TextInv(is_base, w, h, k - 1, s)
    PROVE  TextInv(is_base, w, h, k, ScanText(is_base, w, h, s, RowMajor(w, h)[k]))
<1> DEFINE t == RowMajor(w, h)[k]
           n == RunLength(is_base, w, t)
           s2 == ScanText(is_base, w, h, s, t)
           side2 == [u \in DOMAIN s.side |-> IF u \in Square(t, n) THEN s.found + 1 ELSE s.side[u]]
<1>1. t \in Positions(w, h) /\ Place(w, t) = k
  BY RowMajorIs
<1>2. s2 \in TextState(w, h)
  BY <1>1, ScanTextType, Area
<1> HIDE DEF t
<1>3. SUFFICES ASSUME s2.verdict = "loaded" PROVE TextFound(is_base, w, h, k, s2)
  BY DEF TextInv, t
<1>4. /\ [s EXCEPT !.verdict = "refused"].verdict # "loaded"
      /\ [s EXCEPT !.verdict = "aborted"].verdict # "loaded"
  BY DEF TextState
<1>5. \/ s2 = s /\ (s.verdict # "loaded" \/ t \notin is_base \/ s.side[t] # 0)
      \/ /\ s2 = [s EXCEPT !.found = s.found + 1, !.size = n, !.side = side2]
         /\ s.verdict = "loaded" /\ t \in is_base /\ s.side[t] = 0
         /\ ~TooMany(s.found + 1) /\ (s.size = 0 \/ n = s.size)
         /\ Square(t, n) \subseteq is_base
  BY <1>3, <1>4, Zenon DEF ScanText
<1>6. CASE s2 = s /\ (s.verdict # "loaded" \/ t \notin is_base \/ s.side[t] # 0)
  <2>1. TextFound(is_base, w, h, k - 1, s)
    BY <1>3, <1>6 DEF TextInv
  <2>2. \A u \in Positions(w, h) : Place(w, u) \in Nat /\ (Place(w, u) = k => u = t)
    BY <1>1, RowMajorIs, Area DEF t
  <2>3. k \in Nat
    BY Area
  <2>4. ASSUME NEW u \in is_base, Place(w, u) <= k PROVE s.side[u] # 0
    <3>1. CASE Place(w, u) <= k - 1
      BY <2>1, <3>1 DEF TextFound
    <3>2. CASE Place(w, u) = k
      BY <1>3, <1>6, <2>2, <3>2
    <3>3. QED
      BY <2>2, <2>3, <2>4, <3>1, <3>2
  <2>5. ASSUME NEW p \in 1 .. s.found
        PROVE  \E a \in Positions(w, h) :
              /\ Place(w, a) <= k
              /\ Square(a, s.size) \subseteq is_base
              /\ \A u \in Positions(w, h) : s.side[u] = p <=> u \in Square(a, s.size)
    <3>1. PICK a \in Positions(w, h) :
              /\ Place(w, a) <= k - 1
              /\ Square(a, s.size) \subseteq is_base
              /\ \A u \in Positions(w, h) : s.side[u] = p <=> u \in Square(a, s.size)
      BY <2>1 DEF TextFound
    <3>2. Place(w, a) <= k
      BY <2>2, <2>3, <3>1
    <3>3. QED
      BY <3>1, <3>2
  <2>6. TextFound(is_base, w, h, k, s)
    BY <2>1, <2>4, <2>5 DEF TextFound
  <2>7. QED
    BY <1>6, <2>6
<1>7. CASE /\ s2 = [s EXCEPT !.found = s.found + 1, !.size = n, !.side = side2]
           /\ s.verdict = "loaded" /\ t \in is_base /\ s.side[t] = 0
           /\ ~TooMany(s.found + 1) /\ (s.size = 0 \/ n = s.size)
           /\ Square(t, n) \subseteq is_base
  <2>1. TextFound(is_base, w, h, k - 1, s) /\ s.found < 2
    BY <1>7 DEF TextInv, TooMany, TextState
  <2>2. s2.found = s.found + 1 /\ s2.size = n /\ s2.side = side2
    <3> HIDE DEF n, s2, side2
    <3>1. QED
      BY <1>7 DEF TextState
  <2>3. \A u \in Positions(w, h) :
           s2.side[u] = IF u \in Square(t, n) THEN s.found + 1 ELSE s.side[u]
    BY <2>2 DEF TextState
  <2>4. n = RunLength(is_base, w, t)
    OBVIOUS
  <2> HIDE DEF s2, n, side2
  <2>5. Marks(is_base, w, h, s, t, n, s2)
    BY <1>7, <2>1, <2>2, <2>3, <2>4 DEF Marks
  <2>6. QED
    BY <1>1, <1>2, <1>7, <2>1, <2>5, MarkText
<1>8. QED
  BY <1>5, <1>6, <1>7

(* What the whole scan has found.                                            *)
LEMMA TextScanInv ==
    ASSUME NEW w, NEW h, Sizes(w, h), NEW is_base \in SUBSET Positions(w, h)
    PROVE  LET s == TextScan(is_base, w, h)[w * h] IN
           /\ s \in TextState(w, h)
           /\ s.verdict = "loaded" => TextFound(is_base, w, h, w * h, s)
<1> DEFINE r == TextScan(is_base, w, h)
           T == {k \in 0 .. w * h : TextInv(is_base, w, h, k, r[k])}
<1>1. /\ r[0] = TextStart(w, h)
      /\ \A k \in 1 .. w * h : r[k] = ScanText(is_base, w, h, r[k - 1], RowMajor(w, h)[k])
      /\ \A k \in 0 .. w * h : r[k] \in TextState(w, h)
  BY TextScanIs
<1>2. w * h \in Nat
  BY Area
<1> HIDE DEF r
<1>3. 0 \in T
  <2>1. \A t \in is_base : Place(w, t) \in 1 .. w * h
    BY RowMajorIs
  <2>2. \A t \in is_base : ~(Place(w, t) <= 0)
    BY <1>2, <2>1
  <2>3. TextFound(is_base, w, h, 0, TextStart(w, h))
    BY <2>2 DEF TextFound, TextStart
  <2>4. QED
    BY <1>1, <1>2, <2>3 DEF TextInv
<1>4. ASSUME NEW k \in 1 .. w * h, k - 1 \in T PROVE k \in T
  <2>1. k - 1 \in 0 .. w * h /\ k \in 0 .. w * h
    BY <1>2
  <2>2. TextInv(is_base, w, h, k - 1, r[k - 1])
    BY <1>4
  <2>3. TextInv(is_base, w, h, k, ScanText(is_base, w, h, r[k - 1], RowMajor(w, h)[k]))
    BY <1>1, <2>1, <2>2, ScanTextStep
  <2>4. QED
    BY <1>1, <2>1, <2>3
<1>5. w * h \in T
  <2>1. T \in SUBSET (0 .. w * h)
    OBVIOUS
  <2> HIDE DEF T
  <2>2. T = 0 .. w * h
    BY <1>2, <1>3, <1>4, <2>1, RoundInduction
  <2>3. QED
    BY <1>2, <2>2
<1>6. QED
  BY <1>1, <1>2, <1>5 DEF r, TextInv

(* The corner of a square is its first tile, in both orders.                 *)
LEMMA CornerFirst ==
    ASSUME NEW w, NEW h, Sizes(w, h), NEW c \in Positions(w, h), NEW n \in Int,
           NEW t \in Positions(w, h), t \in Square(c, n)
    PROVE  Place(w, c) <= Place(w, t) /\ ColumnPlace(h, c) <= ColumnPlace(h, t)
<1>1. PICK x \in 0 .. w - 1, y \in 0 .. h - 1 : t = <<x, y>>
  BY DEF Positions
<1>2. PICK p \in 0 .. w - 1, q \in 0 .. h - 1 : c = <<p, q>>
  BY DEF Positions
<1>3. x \in p .. p + n - 1 /\ y \in q .. q + n - 1
  BY <1>1, <1>2, SquareIs
<1>4. p <= x /\ q <= y
  BY <1>3
<1>5. c[1] = p /\ c[2] = q /\ t[1] = x /\ t[2] = y
  BY <1>1, <1>2
<1>6. QED
  BY <1>4, <1>5, RowOrder, ColumnOrder

(* The corner of a square that is not empty is in it.                        *)
LEMMA CornerInSquare ==
    ASSUME NEW w, NEW h, NEW c \in Positions(w, h), NEW n \in Nat, n >= 1
    PROVE  c \in Square(c, n)
<1>1. PICK p \in 0 .. w - 1, q \in 0 .. h - 1 : c = <<p, q>>
  BY DEF Positions
<1>2. p \in Int /\ q \in Int
  OBVIOUS
<1>3. QED
  BY <1>1, <1>2, SquareIs

(* The run at the corner of a square is as long as the square is wide when   *)
(* no base tile follows.                                                     *)
LEMMA RunOfSquare ==
    ASSUME NEW w, NEW h, Sizes(w, h), NEW is_base \in SUBSET Positions(w, h),
           NEW c \in Positions(w, h), NEW n \in Nat, n >= 1,
           Square(c, n) \subseteq is_base, <<c[1] + n, c[2]>> \notin is_base
    PROVE  /\ RunLength(is_base, w, c) = n
           /\ c[2] + n <= h
<1>1. PICK p \in 0 .. w - 1, q \in 0 .. h - 1 : c = <<p, q>>
  BY DEF Positions
<1>2. w \in Int /\ h \in Int /\ p \in Int /\ q \in Int
  BY <1>1 DEF Sizes
<1>3. \A x, y : x \in p .. p + n - 1 /\ y \in q .. q + n - 1 => <<x, y>> \in is_base
  <2>1. \A x, y : x \in p .. p + n - 1 /\ y \in q .. q + n - 1 => <<x, y>> \in Square(<<p, q>>, n)
    BY <1>2 DEF Square
  <2>2. QED
    BY <1>1, <2>1
<1> DEFINE m == RunLength(is_base, w, <<p, q>>)
<1>4. /\ m \in 1 .. w - p
      /\ \A i \in 0 .. m - 1 : <<p + i, q>> \in is_base
      /\ p + m = w \/ <<p + m, q>> \notin is_base
  <2>1. <<p, q>> \in is_base
    BY <1>2, <1>3
  <2>2. QED
    BY <1>2, <2>1, RunLengthIs
<1> HIDE DEF m
<1>5. m \in Nat /\ m >= 1
  BY <1>2, <1>4
<1>6. ~(m < n)
  <2>1. SUFFICES ASSUME m < n PROVE FALSE
    OBVIOUS
  <2>2. p + m \in p .. p + n - 1 /\ q \in q .. q + n - 1
    BY <1>2, <1>5, <2>1
  <2>3. <<p + m, q>> \in is_base
    BY <1>3, <2>2
  <2>4. p + m \in 0 .. w - 1
    BY <2>3 DEF Positions
  <2>5. QED
    BY <1>2, <1>4, <2>3, <2>4
<1>7. ~(n < m)
  <2>1. SUFFICES ASSUME n < m PROVE FALSE
    OBVIOUS
  <2>2. n \in 0 .. m - 1
    BY <1>5, <2>1
  <2>3. <<p + n, q>> \in is_base
    BY <1>4, <2>2
  <2>4. QED
    BY <1>1, <2>3
<1>8. q + n <= h
  <2>1. <<p, q + n - 1>> \in is_base
    BY <1>2, <1>3
  <2>2. q + n - 1 \in 0 .. h - 1
    BY <2>1 DEF Positions
  <2>3. QED
    BY <1>2, <2>2
<1>9. RunLength(is_base, w, c) = m
  BY <1>1 DEF m
<1>10. QED
  BY <1>1, <1>5, <1>6, <1>7, <1>8, <1>9

\* Two squares that a text map can have as its bases, in the order of the scan.
Pair(is_base, w, h, a, b, n) ==
    /\ n \in Nat /\ n >= 1
    /\ is_base = Square(a, n) \cup Square(b, n)
    /\ is_base \subseteq Positions(w, h)
    /\ Square(a, n) \cap Square(b, n) = {}
    /\ <<a[1] + n, a[2]>> \notin is_base /\ <<b[1] + n, b[2]>> \notin is_base
    /\ Place(w, a) < Place(w, b)

\* The scan of two such squares after k tiles.
SideOfPair(w, a, b, n, k, t) ==
    IF t \in Square(a, n) /\ Place(w, a) <= k THEN 1
    ELSE IF t \in Square(b, n) /\ Place(w, b) <= k THEN 2 ELSE 0

PairFound(w, h, a, b, n, k, s) ==
    /\ s.verdict = "loaded"
    /\ s.found = IF Place(w, b) <= k THEN 2 ELSE IF Place(w, a) <= k THEN 1 ELSE 0
    /\ s.size = IF Place(w, a) <= k THEN n ELSE 0
    /\ \A t \in Positions(w, h) : s.side[t] = SideOfPair(w, a, b, n, k, t)

(* One tile of that scan.                                                    *)
LEMMA PairStep ==
    ASSUME NEW w, NEW h, Sizes(w, h), NEW is_base \in SUBSET Positions(w, h),
           NEW a \in Positions(w, h), NEW b \in Positions(w, h), NEW n,
           Pair(is_base, w, h, a, b, n),
           NEW k \in 1 .. w * h, NEW s \in TextState(w, h),
           PairFound(w, h, a, b, n, k - 1, s)
    PROVE  PairFound(w, h, a, b, n, k, ScanText(is_base, w, h, s, RowMajor(w, h)[k]))
<1> DEFINE t == RowMajor(w, h)[k]
           m == RunLength(is_base, w, t)
           s2 == ScanText(is_base, w, h, s, t)
           side2 == [u \in DOMAIN s.side |-> IF u \in Square(t, m) THEN s.found + 1 ELSE s.side[u]]
<1>1. t \in Positions(w, h) /\ Place(w, t) = k
  BY RowMajorIs
<1>2. \A u \in Positions(w, h) : Place(w, u) \in Nat /\ (Place(w, u) = k => u = t)
  BY <1>1, RowMajorIs, Area
<1>3. k \in Nat /\ k >= 1
  BY Area
<1> HIDE DEF t
<1>4. SUFFICES PairFound(w, h, a, b, n, k, s2)
  BY DEF t
<1>5. n \in Nat /\ n >= 1
  BY DEF Pair
<1>6. ASSUME t # a, t # b
      PROVE  PairFound(w, h, a, b, n, k, s)
  <2>1. Place(w, a) <= k <=> Place(w, a) <= k - 1
    BY <1>2, <1>3, <1>6
  <2>2. Place(w, b) <= k <=> Place(w, b) <= k - 1
    BY <1>2, <1>3, <1>6
  <2>3. \A u : SideOfPair(w, a, b, n, k, u) = SideOfPair(w, a, b, n, k - 1, u)
    BY <2>1, <2>2, Zenon DEF SideOfPair
  <2>4. QED
    BY <2>1, <2>2, <2>3 DEF PairFound
<1>7. CASE t \notin is_base
  <2>1. a \in is_base /\ b \in is_base
    BY <1>5, CornerInSquare DEF Pair
  <2>2. s2 = s
    BY <1>7 DEF ScanText
  <2>3. QED
    BY <1>6, <1>7, <2>1, <2>2
<1>8. CASE t \in is_base /\ t # a /\ t # b
  <2>1. s.side[t] # 0
    <3>1. CASE t \in Square(a, n)
      <4>1. Place(w, a) <= Place(w, t)
        BY <1>1, <1>5, <3>1, CornerFirst
      <4>2. Place(w, a) <= k - 1
        BY <1>1, <1>2, <1>3, <1>8, <4>1
      <4>3. QED
        BY <1>1, <3>1, <4>2 DEF PairFound, SideOfPair
    <3>2. CASE t \in Square(b, n)
      <4>1. Place(w, b) <= Place(w, t)
        BY <1>1, <1>5, <3>2, CornerFirst
      <4>2. Place(w, b) <= k - 1
        BY <1>1, <1>2, <1>3, <1>8, <4>1
      <4>3. QED
        BY <1>1, <3>2, <4>2 DEF PairFound, SideOfPair
    <3>3. QED
      BY <1>8, <3>1, <3>2 DEF Pair
  <2>2. s2 = s
    BY <2>1 DEF ScanText
  <2>3. QED
    BY <1>6, <1>8, <2>2
<1>9. ASSUME NEW c \in {a, b}, t = c
      PROVE  /\ m = n /\ s.side[t] = 0 /\ s.found + 1 = IF c = a THEN 1 ELSE 2
             /\ s2 = [s EXCEPT !.found = s.found + 1, !.size = m, !.side = side2]
  <2>1. Square(c, n) \subseteq is_base /\ <<c[1] + n, c[2]>> \notin is_base
    BY DEF Pair
  <2>2. m = n /\ t[2] + n <= h
    BY <1>1, <1>5, <1>9, <2>1, RunOfSquare
  <2>3. c \in Square(c, n)
    BY <1>5, <1>1, <1>9, CornerInSquare
  <2>4. /\ Place(w, a) \in Nat /\ Place(w, b) \in Nat /\ Place(w, a) < Place(w, b)
        /\ Place(w, c) = k
    BY <1>1, <1>2, <1>9 DEF Pair
  <2>5. CASE c = a
    <3>1. ~(Place(w, a) <= k - 1) /\ ~(Place(w, b) <= k - 1)
      BY <1>3, <2>4, <2>5
    <3>2. s.side[t] = 0 /\ s.found = 0 /\ s.size = 0 /\ s.verdict = "loaded"
      BY <1>1, <3>1 DEF PairFound, SideOfPair
    <3>3. /\ ~(t[2] + m > h) /\ ~TooMany(s.found + 1) /\ (s.size = 0 \/ m = s.size)
          /\ t \in is_base /\ Square(t, m) \subseteq is_base
      <4>1. \A x \in Int : x <= h => ~(x > h)
        BY DEF Sizes
      <4>2. t[2] + n \in Int
        BY <1>1, <1>5 DEF Positions
      <4>3. QED
        BY <1>9, <2>1, <2>2, <2>3, <3>2, <4>1, <4>2 DEF TooMany
    <3>4. s2 = [s EXCEPT !.found = s.found + 1, !.size = m, !.side = side2]
      BY <3>2, <3>3, Zenon DEF ScanText
    <3>5. QED
      BY <2>2, <2>5, <3>2, <3>4
  <2>6. CASE c = b /\ c # a
    <3>1. Place(w, a) <= k - 1 /\ ~(Place(w, b) <= k - 1)
      BY <1>3, <2>4, <2>6
    <3>2. s.side[t] = 0 /\ s.found = 1 /\ s.size = n /\ s.verdict = "loaded"
      BY <1>1, <1>9, <2>3, <2>6, <3>1 DEF PairFound, SideOfPair, Pair
    <3>3. /\ ~(t[2] + m > h) /\ ~TooMany(s.found + 1) /\ (s.size = 0 \/ m = s.size)
          /\ t \in is_base /\ Square(t, m) \subseteq is_base
      <4>1. \A x \in Int : x <= h => ~(x > h)
        BY DEF Sizes
      <4>2. t[2] + n \in Int
        BY <1>1, <1>5 DEF Positions
      <4>3. QED
        BY <1>9, <2>1, <2>2, <2>3, <3>2, <4>1, <4>2 DEF TooMany
    <3>4. s2 = [s EXCEPT !.found = s.found + 1, !.size = m, !.side = side2]
      BY <3>2, <3>3, Zenon DEF ScanText
    <3>5. QED
      BY <2>2, <2>6, <3>2, <3>4
  <2>7. QED
    BY <2>5, <2>6
<1>10. ASSUME NEW c \in {a, b}, t = c
       PROVE  PairFound(w, h, a, b, n, k, s2)
  <2>1. s2.verdict = "loaded" /\ s2.found = s.found + 1 /\ s2.size = n /\ s2.side = side2
    <3>1. s2 = [s EXCEPT !.found = s.found + 1, !.size = m, !.side = side2] /\ m = n
      BY <1>9, <1>10
    <3> HIDE DEF m, s2, side2
    <3>2. QED
      BY <3>1 DEF TextState, PairFound
  <2>2. \A u \in Positions(w, h) :
           s2.side[u] = IF u \in Square(c, n) THEN s.found + 1 ELSE SideOfPair(w, a, b, n, k - 1, u)
    <3>1. side2 = [u \in Positions(w, h) |-> IF u \in Square(t, n) THEN s.found + 1 ELSE s.side[u]]
      BY <1>9, <1>10 DEF TextState
    <3>2. QED
      BY <2>1, <1>10, <3>1 DEF PairFound
  <2>3. /\ Place(w, a) \in Nat /\ Place(w, b) \in Nat /\ Place(w, a) < Place(w, b)
        /\ Place(w, c) = k
    BY <1>1, <1>2, <1>10 DEF Pair
  <2>4. s2.found = IF c = a THEN 1 ELSE 2
    BY <1>9, <1>10, <2>1
  <2> HIDE DEF s2
  <2>5. CASE c = a
    <3>1. ~(Place(w, a) <= k - 1) /\ ~(Place(w, b) <= k - 1) /\ Place(w, a) <= k /\ ~(Place(w, b) <= k)
      BY <1>3, <2>3, <2>5
    <3>2. \A u \in Positions(w, h) : s2.side[u] = SideOfPair(w, a, b, n, k, u)
      BY <2>1, <2>2, <2>4, <2>5, <3>1 DEF SideOfPair
    <3>3. QED
      BY <2>1, <2>4, <2>5, <3>1, <3>2 DEF PairFound
  <2>6. CASE c = b /\ c # a
    <3>1. Place(w, a) <= k - 1 /\ ~(Place(w, b) <= k - 1) /\ Place(w, a) <= k /\ Place(w, b) <= k
      BY <1>3, <2>3, <2>6
    <3>2. \A u \in Positions(w, h) : s2.side[u] = SideOfPair(w, a, b, n, k, u)
      BY <2>1, <2>2, <2>4, <2>6, <3>1 DEF SideOfPair, Pair
    <3>3. QED
      BY <2>1, <2>4, <2>6, <3>1, <3>2 DEF PairFound
  <2>7. QED
    BY <2>5, <2>6
<1>11. QED
  BY <1>7, <1>8, <1>10

(* Two squares with no base tile at their right are found as the bases,      *)
(* the one that comes first as that of player 1.                             *)
LEMMA TwoSquares ==
    ASSUME NEW w, NEW h, Sizes(w, h), NEW is_base \in SUBSET Positions(w, h),
           NEW a \in Positions(w, h), NEW b \in Positions(w, h), NEW n,
           Pair(is_base, w, h, a, b, n)
    PROVE  LET s == TextScan(is_base, w, h)[w * h] IN
           /\ s.verdict = "loaded" /\ s.size = n
           /\ \A t \in Positions(w, h) :
                 s.side[t] = IF t \in Square(a, n) THEN 1 ELSE IF t \in Square(b, n) THEN 2 ELSE 0
<1> DEFINE r == TextScan(is_base, w, h)
           T == {k \in 0 .. w * h : PairFound(w, h, a, b, n, k, r[k])}
<1>1. /\ r[0] = TextStart(w, h)
      /\ \A k \in 1 .. w * h : r[k] = ScanText(is_base, w, h, r[k - 1], RowMajor(w, h)[k])
      /\ \A k \in 0 .. w * h : r[k] \in TextState(w, h)
  BY TextScanIs
<1>2. w * h \in Nat
  BY Area
<1>3. Place(w, a) \in 1 .. w * h /\ Place(w, b) \in 1 .. w * h
  BY RowMajorIs
<1> HIDE DEF r
<1>4. 0 \in T
  <2>1. ~(Place(w, a) <= 0) /\ ~(Place(w, b) <= 0)
    BY <1>2, <1>3
  <2>2. PairFound(w, h, a, b, n, 0, TextStart(w, h))
    BY <2>1 DEF PairFound, SideOfPair, TextStart
  <2>3. QED
    BY <1>1, <1>2, <2>2
<1>5. ASSUME NEW k \in 1 .. w * h, k - 1 \in T PROVE k \in T
  <2>1. k - 1 \in 0 .. w * h /\ k \in 0 .. w * h
    BY <1>2
  <2>2. PairFound(w, h, a, b, n, k - 1, r[k - 1])
    BY <1>5
  <2>3. PairFound(w, h, a, b, n, k, ScanText(is_base, w, h, r[k - 1], RowMajor(w, h)[k]))
    BY <1>1, <2>1, <2>2, PairStep
  <2>4. QED
    BY <1>1, <2>1, <2>3
<1>6. w * h \in T
  <2>1. T \in SUBSET (0 .. w * h)
    OBVIOUS
  <2> HIDE DEF T
  <2>2. T = 0 .. w * h
    BY <1>2, <1>4, <1>5, <2>1, RoundInduction
  <2>3. QED
    BY <1>2, <2>2
<1>7. Place(w, a) <= w * h /\ Place(w, b) <= w * h
  BY <1>2, <1>3
<1>8. PairFound(w, h, a, b, n, w * h, r[w * h])
  BY <1>6
<1>9. QED
  BY <1>7, <1>8 DEF r, PairFound, SideOfPair

-----------------------------------------------------------------------------
(* The check of the bases of a binary file.                                  *)

\* The base tiles of a player, and the base at a: the square, or the one tile
\* when the size is 0.
Owned(tiles, p) == {t \in DOMAIN tiles : tiles[t].is_base /\ tiles[t].side = p}
Base(a, n) == Square(a, n) \cup {a}

\* The tiles of a map that has been loaded: a base is a square of size n.
Bases(tiles, n) ==
    /\ \A t \in DOMAIN tiles : tiles[t].is_base <=> tiles[t].side # 0
    /\ \A p \in {1, 2} : \/ Owned(tiles, p) = {}
                         \/ \E a \in DOMAIN tiles : Owned(tiles, p) = Base(a, n)

BinaryState(w, h) == [verdict : {"loaded", "refused", "undefined"},
                      corner : [{1, 2} -> {<<>>} \cup Positions(w, h)]]

BinaryStart == [verdict |-> "loaded", corner |-> <<<<>>, <<>>>>]

(* The updates of the check.                                                 *)
LEMMA CornerUpdate ==
    ASSUME NEW V, NEW C, NEW s \in [verdict : V, corner : [{1, 2} -> C]],
           NEW v \in V, NEW p \in {1, 2}, NEW c \in C
    PROVE  LET r == [s EXCEPT !.corner[p] = c]
               q == [s EXCEPT !.verdict = v]
           IN  /\ r \in [verdict : V, corner : [{1, 2} -> C]]
               /\ q \in [verdict : V, corner : [{1, 2} -> C]]
               /\ r.verdict = s.verdict
               /\ \A i \in {1, 2} : r.corner[i] = IF i = p THEN c ELSE s.corner[i]
               /\ q.verdict = v
  OBVIOUS

(* The check of the bases starts in such a state.                            *)
LEMMA StartType ==
    ASSUME NEW w, NEW h
    PROVE  BinaryStart \in BinaryState(w, h) /\ BinaryStart.verdict = "loaded"
           /\ \A p \in {1, 2} : BinaryStart.corner[p] = <<>>
  BY DEF BinaryStart, BinaryState

(* A position is not the empty tuple.                                        *)
LEMMA NotEmpty ==
    ASSUME NEW w, NEW h, NEW t \in Positions(w, h)
    PROVE  t # <<>>
  BY DEF Positions

(* A tile of the check leads from such a state to such a state.              *)
LEMMA ScanBinaryType ==
    ASSUME NEW w, NEW h, NEW n, NEW tiles \in [Positions(w, h) -> Tile],
           NEW s \in BinaryState(w, h), NEW t \in Positions(w, h)
    PROVE  ScanBinary(tiles, w, h, n, s, t) \in BinaryState(w, h)
<1> DEFINE p == tiles[t].side
<1>1. p \in 0 .. 2
  BY DEF Tile
<1>2. /\ [s EXCEPT !.verdict = "refused"] \in BinaryState(w, h)
      /\ [s EXCEPT !.verdict = "undefined"] \in BinaryState(w, h)
  BY DEF BinaryState
<1>3. ASSUME p # 0 PROVE [s EXCEPT !.corner[p] = t] \in BinaryState(w, h)
  <2>1. p \in {1, 2} /\ t \in {<<>>} \cup Positions(w, h)
    BY <1>1, <1>3
  <2> HIDE DEF p
  <2>2. QED
    BY <2>1, CornerUpdate DEF BinaryState
<1>4. QED
  BY <1>2, <1>3, Zenon DEF ScanBinary

(* The check is the loop that its definition says, tile after tile.          *)
LEMMA BinaryScanIs ==
    ASSUME NEW w, NEW h, Sizes(w, h), NEW m, NEW tiles \in [Positions(w, h) -> Tile]
    PROVE  LET r == BinaryScan(tiles, w, h, m) IN
           /\ r[0] = BinaryStart
           /\ \A k \in 1 .. w * h : r[k] = ScanBinary(tiles, w, h, m, r[k - 1], RowMajor(w, h)[k])
           /\ \A k \in 0 .. w * h : r[k] \in BinaryState(w, h)
<1> DEFINE S == BinaryState(w, h)
           n == w * h
           step(s, k) == ScanBinary(tiles, w, h, m, s, RowMajor(w, h)[k])
           F == [x \in S \X (1 .. n) |-> step(x[1], x[2])]
           Fix(f) == f = [k \in 0 .. n |-> IF k = 0 THEN BinaryStart ELSE step(f[k - 1], k)]
           r == BinaryScan(tiles, w, h, m)
<1>1. n \in Nat /\ w \in Int /\ h \in Int
  BY Area
<1>2. BinaryStart \in S
  BY StartType
<1>3. \A s \in S, k \in 1 .. n : step(s, k) \in S
  <2>1. \A k \in 1 .. n : RowMajor(w, h)[k] \in Positions(w, h)
    BY RowMajorIs
  <2>2. QED
    BY <1>1, <2>1, ScanBinaryType
<1>4. r = CHOOSE f : Fix(f)
  BY DEF BinaryScan, BinaryStart
<1> HIDE DEF S, n, step, r
<1>5. F \in Bodies(S, n)
  BY <1>3 DEF Bodies
<1>6. \A s \in S, k \in 1 .. n : F[<<s, k>>] = step(s, k)
  OBVIOUS
<1> HIDE DEF F
<1>7. PICK e \in [0 .. n -> S] :
         e[0] = BinaryStart /\ \A k \in 1 .. n : e[k] = F[<<e[k - 1], k>>]
  <2>1. Runs(S, n, BinaryStart, F) # {}
    BY <1>1, <1>2, <1>5, LoopRuns
  <2>2. QED
    BY <2>1 DEF Runs
<1>8. ASSUME NEW k \in 0 .. n
      PROVE  e[k] = IF k = 0 THEN BinaryStart ELSE step(e[k - 1], k)
  <2>1. CASE k = 0
    BY <1>7, <2>1
  <2>2. CASE k # 0
    <3>1. k \in 1 .. n /\ k - 1 \in 0 .. n
      BY <1>1, <2>2
    <3>2. QED
      BY <1>6, <1>7, <2>2, <3>1
  <2>3. QED
    BY <2>1, <2>2
<1>9. Fix(e)
  BY <1>8
<1>10. Fix(r)
  <2> HIDE DEF Fix
  <2>1. QED
    BY <1>4, <1>9, Zenon
<1>11. r[0] = BinaryStart /\ \A k \in 1 .. n : r[k] = step(r[k - 1], k)
  <2>1. 0 \in 0 .. n /\ \A k \in 1 .. n : k \in 0 .. n /\ k # 0
    BY <1>1
  <2>2. \A k \in 0 .. n : r[k] = IF k = 0 THEN BinaryStart ELSE step(r[k - 1], k)
    BY <1>10
  <2>3. QED
    BY <2>1, <2>2
<1> DEFINE T == {k \in 0 .. n : r[k] \in S}
<1>12. 0 \in T
  BY <1>1, <1>2, <1>11
<1>13. \A k \in 1 .. n : k - 1 \in T => k \in T
  BY <1>1, <1>3, <1>11
<1>14. T = 0 .. n
  <2> HIDE DEF T
  <2>1. T \in SUBSET (0 .. n)
    BY DEF T
  <2>2. QED
    BY <1>1, <1>12, <1>13, <2>1, RoundInduction
<1>15. QED
  BY <1>11, <1>14 DEF S, n, step, r

(* A square whose far corner is on the map is on the map, and the other way  *)
(* round.                                                                    *)
LEMMA SquareOnMap ==
    ASSUME NEW w \in Int, NEW h \in Int, NEW t \in Positions(w, h), NEW n \in Int
    PROVE  t[1] + n <= w /\ t[2] + n <= h <=> Square(t, n) \subseteq Positions(w, h)
<1>1. PICK x \in 0 .. w - 1, y \in 0 .. h - 1 : t = <<x, y>>
  BY DEF Positions
<1>2. Square(t, n) = (x .. x + n - 1) \X (y .. y + n - 1) /\ t[1] = x /\ t[2] = y
  BY <1>1 DEF Square
<1>3. ASSUME x + n <= w, y + n <= h
      PROVE  Square(t, n) \subseteq Positions(w, h)
  BY <1>2, <1>3 DEF Positions
<1>4. ASSUME Square(t, n) \subseteq Positions(w, h)
      PROVE  x + n <= w /\ y + n <= h
  <2>1. CASE n <= 0
    BY <2>1
  <2>2. CASE n >= 1
    <3>1. <<x + n - 1, y + n - 1>> \in Square(t, n)
      BY <1>2, <2>2
    <3>2. <<x + n - 1, y + n - 1>> \in Positions(w, h)
      BY <1>4, <3>1
    <3>3. x + n - 1 \in 0 .. w - 1 /\ y + n - 1 \in 0 .. h - 1
      BY <3>2 DEF Positions
    <3>4. QED
      BY <3>3
  <2>3. QED
    BY <2>1, <2>2
<1>5. QED
  BY <1>2, <1>3, <1>4

\* What the check has found after k tiles: every base tile so far belongs to the
\* base of its side, and all tiles of a base are base tiles of its side.
BinaryFound(tiles, w, n, k, s) ==
    /\ \A t \in DOMAIN tiles : tiles[t].is_base /\ Place(w, t) <= k =>
          /\ tiles[t].side # 0 /\ s.corner[tiles[t].side] # <<>>
          /\ t \in Base(s.corner[tiles[t].side], n)
    /\ \A p \in {1, 2} : s.corner[p] # <<>> => Base(s.corner[p], n) \subseteq Owned(tiles, p)

BinaryInv(tiles, w, n, k, s) == s.verdict = "loaded" => BinaryFound(tiles, w, n, k, s)

(* One tile of the check keeps the invariant.                                *)
LEMMA ScanBinaryStep ==
    ASSUME NEW w, NEW h, Sizes(w, h), NEW n \in Int, NEW tiles \in [Positions(w, h) -> Tile],
           NEW k \in 1 .. w * h, NEW s \in BinaryState(w, h),
           BinaryInv(tiles, w, n, k - 1, s)
    PROVE  BinaryInv(tiles, w, n, k, ScanBinary(tiles, w, h, n, s, RowMajor(w, h)[k]))
<1> DEFINE t == RowMajor(w, h)[k]
           p == tiles[t].side
           s2 == ScanBinary(tiles, w, h, n, s, t)
<1>1. t \in Positions(w, h) /\ Place(w, t) = k
  BY RowMajorIs
<1>2. k \in Nat /\ \A u \in Positions(w, h) : Place(w, u) \in Nat /\ (Place(w, u) = k => u = t)
  BY <1>1, RowMajorIs, Area
<1> HIDE DEF t
<1>3. SUFFICES ASSUME s2.verdict = "loaded" PROVE BinaryFound(tiles, w, n, k, s2)
  BY DEF BinaryInv, t
<1>4. /\ [s EXCEPT !.verdict = "refused"].verdict # "loaded"
      /\ [s EXCEPT !.verdict = "undefined"].verdict # "loaded"
  BY DEF BinaryState
<1>5. /\ s2 = s => s.verdict = "loaded"
      /\ \/ s2 = s /\ ~tiles[t].is_base
         \/ s2 = s /\ tiles[t].is_base /\ p # 0 /\ s.corner[p] # <<>> /\ t \in Square(s.corner[p], n)
         \/ /\ s2 = [s EXCEPT !.corner[p] = t]
            /\ s.verdict = "loaded" /\ tiles[t].is_base /\ p # 0 /\ s.corner[p] = <<>>
            /\ ~(t[1] + n > w) /\ ~(t[2] + n > h)
            /\ \A u \in Square(t, n) : tiles[u].is_base /\ tiles[u].side = p
  <2>1. s2 = s => s.verdict = "loaded"
    BY <1>3
  <2>2. QED
    BY <1>3, <1>4, <2>1, Zenon DEF ScanBinary
<1>6. DOMAIN tiles = Positions(w, h) /\ p \in 0 .. 2
  BY <1>1 DEF Tile
<1>7. CASE s2 = s
  <2>1. BinaryFound(tiles, w, n, k - 1, s)
    BY <1>5, <1>7 DEF BinaryInv
  <2>2. ~tiles[t].is_base \/ (p # 0 /\ s.corner[p] # <<>> /\ t \in Base(s.corner[p], n))
    <3>1. CASE s2 = [s EXCEPT !.corner[p] = t] /\ p # 0
      <4>1. s2.corner[p] = t
        <5>1. p \in {1, 2} /\ t \in {<<>>} \cup Positions(w, h)
          BY <1>1, <1>6, <3>1
        <5> HIDE DEF s2, p
        <5>2. QED
          BY <3>1, <5>1, CornerUpdate DEF BinaryState
      <4>2. s.corner[p] = t /\ t # <<>>
        BY <1>1, <1>7, <4>1, NotEmpty
      <4>3. QED
        BY <3>1, <4>2 DEF Base
    <3>2. QED
      BY <1>5, <3>1 DEF Base
  <2>3. ASSUME NEW u \in Positions(w, h), tiles[u].is_base, Place(w, u) <= k
        PROVE  tiles[u].side # 0 /\ s.corner[tiles[u].side] # <<>>
               /\ u \in Base(s.corner[tiles[u].side], n)
    <3>1. CASE Place(w, u) <= k - 1
      BY <1>6, <2>1, <2>3, <3>1 DEF BinaryFound
    <3>2. CASE Place(w, u) = k
      BY <1>2, <2>2, <2>3, <3>2
    <3>3. QED
      BY <1>2, <2>3, <3>1, <3>2
  <2>4. QED
    BY <1>6, <1>7, <2>1, <2>3 DEF BinaryFound
<1>8. CASE /\ s2 = [s EXCEPT !.corner[p] = t]
           /\ s.verdict = "loaded" /\ tiles[t].is_base /\ p # 0 /\ s.corner[p] = <<>>
           /\ ~(t[1] + n > w) /\ ~(t[2] + n > h)
           /\ \A u \in Square(t, n) : tiles[u].is_base /\ tiles[u].side = p
  <2>1. BinaryFound(tiles, w, n, k - 1, s)
    BY <1>8 DEF BinaryInv
  <2>2. p \in {1, 2} /\ t \in {<<>>} \cup Positions(w, h)
    BY <1>1, <1>6, <1>8
  <2>3. \A i \in {1, 2} : s2.corner[i] = IF i = p THEN t ELSE s.corner[i]
    <3> HIDE DEF p, s2
    <3>1. QED
      BY <1>8, <2>2, CornerUpdate DEF BinaryState
  <2>4. Square(t, n) \subseteq Positions(w, h)
    <3>1. t[1] + n <= w /\ t[2] + n <= h
      BY <1>1, <1>8 DEF Positions, Sizes
    <3>2. w \in Int /\ h \in Int
      BY DEF Sizes
    <3>3. QED
      BY <1>1, <3>1, <3>2, SquareOnMap
  <2>5. Base(t, n) \subseteq Owned(tiles, p) /\ t # <<>> /\ t \in Base(t, n)
    BY <1>1, <1>6, <1>8, <2>4, NotEmpty DEF Base, Owned
  <2> HIDE DEF s2
  <2>6. ASSUME NEW i \in {1, 2}, s2.corner[i] # <<>>
        PROVE  Base(s2.corner[i], n) \subseteq Owned(tiles, i)
    BY <2>1, <2>3, <2>5, <2>6 DEF BinaryFound
  <2>7. ASSUME NEW u \in Positions(w, h), tiles[u].is_base, Place(w, u) <= k
        PROVE  tiles[u].side # 0 /\ s2.corner[tiles[u].side] # <<>>
               /\ u \in Base(s2.corner[tiles[u].side], n)
    <3>1. CASE Place(w, u) <= k - 1
      <4>1. tiles[u].side # 0 /\ s.corner[tiles[u].side] # <<>>
            /\ u \in Base(s.corner[tiles[u].side], n)
        BY <1>6, <2>1, <2>7, <3>1 DEF BinaryFound
      <4>2. tiles[u].side \in {1, 2}
        BY <4>1 DEF Tile
      <4>3. s2.corner[tiles[u].side] = s.corner[tiles[u].side]
        BY <1>8, <2>3, <4>1, <4>2
      <4>4. QED
        BY <4>1, <4>3
    <3>2. CASE Place(w, u) = k
      <4>1. u = t
        BY <1>2, <3>2
      <4>2. QED
        BY <2>2, <2>3, <2>5, <4>1, <1>8
    <3>3. QED
      BY <1>2, <2>7, <3>1, <3>2
  <2>8. QED
    BY <1>6, <2>6, <2>7 DEF BinaryFound
<1>9. QED
  BY <1>5, <1>7, <1>8

(* A binary file that passes the check has squares of its base size as bases. *)
LEMMA BinaryScanInv ==
    ASSUME NEW w, NEW h, Sizes(w, h), NEW n \in Int, NEW tiles \in [Positions(w, h) -> Tile],
           \A t \in Positions(w, h) : ~tiles[t].is_base => tiles[t].side = 0
    PROVE  LET s == BinaryScan(tiles, w, h, n)[w * h] IN
           /\ s \in BinaryState(w, h)
           /\ s.verdict = "loaded" => Bases(tiles, n)
<1> DEFINE r == BinaryScan(tiles, w, h, n)
           T == {k \in 0 .. w * h : BinaryInv(tiles, w, n, k, r[k])}
<1>1. /\ r[0] = BinaryStart
      /\ \A k \in 1 .. w * h : r[k] = ScanBinary(tiles, w, h, n, r[k - 1], RowMajor(w, h)[k])
      /\ \A k \in 0 .. w * h : r[k] \in BinaryState(w, h)
  BY BinaryScanIs
<1>2. w * h \in Nat
  BY Area
<1>3. \A t \in Positions(w, h) : Place(w, t) \in 1 .. w * h
  BY RowMajorIs
<1> HIDE DEF r
<1>4. 0 \in T
  <2>1. \A t \in Positions(w, h) : ~(Place(w, t) <= 0)
    BY <1>2, <1>3
  <2>2. BinaryFound(tiles, w, n, 0, BinaryStart)
    BY <2>1, StartType DEF BinaryFound
  <2>3. QED
    BY <1>1, <1>2, <2>2 DEF BinaryInv
<1>5. ASSUME NEW k \in 1 .. w * h, k - 1 \in T PROVE k \in T
  <2>1. k - 1 \in 0 .. w * h /\ k \in 0 .. w * h
    BY <1>2
  <2>2. BinaryInv(tiles, w, n, k - 1, r[k - 1])
    BY <1>5
  <2>3. BinaryInv(tiles, w, n, k, ScanBinary(tiles, w, h, n, r[k - 1], RowMajor(w, h)[k]))
    BY <1>1, <2>1, <2>2, ScanBinaryStep
  <2>4. QED
    BY <1>1, <2>1, <2>3
<1>6. w * h \in T
  <2>1. T \in SUBSET (0 .. w * h)
    OBVIOUS
  <2> HIDE DEF T
  <2>2. T = 0 .. w * h
    BY <1>2, <1>4, <1>5, <2>1, RoundInduction
  <2>3. QED
    BY <1>2, <2>2
<1>7. ASSUME r[w * h].verdict = "loaded" PROVE Bases(tiles, n)
  <2>1. BinaryFound(tiles, w, n, w * h, r[w * h])
    BY <1>6, <1>7 DEF BinaryInv
  <2>2. \A t \in Positions(w, h) : Place(w, t) <= w * h
    BY <1>2, <1>3
  <2>3. DOMAIN tiles = Positions(w, h)
    OBVIOUS
  <2>4. ASSUME NEW t \in Positions(w, h)
        PROVE  tiles[t].is_base <=> tiles[t].side # 0
    BY <2>1, <2>2, <2>3 DEF BinaryFound
  <2>5. ASSUME NEW p \in {1, 2}
        PROVE  \/ Owned(tiles, p) = {}
               \/ \E a \in DOMAIN tiles : Owned(tiles, p) = Base(a, n)
    <3>1. CASE r[w * h].corner[p] = <<>>
      BY <2>1, <2>2, <2>3, <3>1 DEF BinaryFound, Owned
    <3>2. CASE r[w * h].corner[p] # <<>>
      <4> DEFINE a == r[w * h].corner[p]
      <4>1. Base(a, n) \subseteq Owned(tiles, p)
        BY <2>1, <3>2 DEF BinaryFound
      <4>2. Owned(tiles, p) \subseteq Base(a, n)
        BY <2>1, <2>2, <2>3 DEF BinaryFound, Owned
      <4>3. a \in DOMAIN tiles
        BY <4>1 DEF Base, Owned
      <4>4. Owned(tiles, p) = Base(a, n)
        BY <4>1, <4>2
      <4> HIDE DEF a
      <4>5. QED
        BY <4>3, <4>4
    <3>3. QED
      BY <3>1, <3>2
  <2>6. QED
    BY <2>3, <2>4, <2>5 DEF Bases
<1>8. QED
  BY <1>1, <1>2, <1>7 DEF r

\* The check of a map with proper bases after k tiles.
BasesFound(tiles, w, n, k, s) ==
    /\ s.verdict = "loaded"
    /\ \A p \in {1, 2} :
          IF s.corner[p] = <<>>
          THEN \A t \in Owned(tiles, p) : ~(Place(w, t) <= k)
          ELSE /\ s.corner[p] \in Owned(tiles, p) /\ Place(w, s.corner[p]) <= k
               /\ Owned(tiles, p) = Base(s.corner[p], n)

(* One tile of that check.                                                   *)
LEMMA BasesStep ==
    ASSUME NEW w, NEW h, Sizes(w, h), NEW n \in Int, NEW tiles \in [Positions(w, h) -> Tile],
           Bases(tiles, n),
           NEW k \in 1 .. w * h, NEW s \in BinaryState(w, h),
           BasesFound(tiles, w, n, k - 1, s)
    PROVE  BasesFound(tiles, w, n, k, ScanBinary(tiles, w, h, n, s, RowMajor(w, h)[k]))
<1> DEFINE t == RowMajor(w, h)[k]
           p == tiles[t].side
           s2 == ScanBinary(tiles, w, h, n, s, t)
<1>1. t \in Positions(w, h) /\ Place(w, t) = k
  BY RowMajorIs
<1>2. k \in Nat /\ \A u \in Positions(w, h) : Place(w, u) \in Nat /\ (Place(w, u) = k => u = t)
  BY <1>1, RowMajorIs, Area
<1> HIDE DEF t
<1>3. SUFFICES BasesFound(tiles, w, n, k, s2)
  BY DEF t
<1>4. DOMAIN tiles = Positions(w, h) /\ p \in 0 .. 2 /\ (tiles[t].is_base <=> p # 0)
  BY <1>1 DEF Tile, Bases
<1>5. \A q : Owned(tiles, q) \subseteq Positions(w, h)
  BY DEF Owned
<1>6. ASSUME NEW q \in {1, 2}, t \notin Owned(tiles, q) \/ s.corner[q] # <<>>
      PROVE  IF s.corner[q] = <<>>
             THEN \A u \in Owned(tiles, q) : ~(Place(w, u) <= k)
             ELSE /\ s.corner[q] \in Owned(tiles, q) /\ Place(w, s.corner[q]) <= k
                  /\ Owned(tiles, q) = Base(s.corner[q], n)
  <2>1. CASE s.corner[q] = <<>>
    <3>1. ASSUME NEW u \in Owned(tiles, q), Place(w, u) <= k PROVE FALSE
      <4>1. ~(Place(w, u) <= k - 1) /\ u # t /\ u \in Positions(w, h)
        BY <1>5, <1>6, <2>1, <3>1 DEF BasesFound
      <4>2. QED
        BY <1>2, <3>1, <4>1
    <3>2. QED
      BY <2>1, <3>1
  <2>2. CASE s.corner[q] # <<>>
    <3>1. /\ s.corner[q] \in Owned(tiles, q) /\ Place(w, s.corner[q]) <= k - 1
          /\ Owned(tiles, q) = Base(s.corner[q], n)
      BY <2>2 DEF BasesFound
    <3>2. Place(w, s.corner[q]) <= k
      BY <1>2, <1>5, <3>1
    <3>3. QED
      BY <2>2, <3>1, <3>2
  <2>3. QED
    BY <2>1, <2>2
<1>7. CASE ~tiles[t].is_base
  <2>1. s2 = s
    BY <1>7 DEF ScanBinary
  <2>2. \A q \in {1, 2} : t \notin Owned(tiles, q)
    BY <1>7 DEF Owned
  <2>3. QED
    BY <1>6, <2>1, <2>2 DEF BasesFound
<1>8. CASE tiles[t].is_base /\ s.corner[p] # <<>>
  <2>1. p \in {1, 2} /\ t \in Owned(tiles, p) /\ \A q \in {1, 2} : q # p => t \notin Owned(tiles, q)
    BY <1>1, <1>4, <1>8 DEF Owned
  <2>2. /\ s.corner[p] \in Positions(w, h) /\ Place(w, s.corner[p]) <= k - 1
        /\ Owned(tiles, p) = Base(s.corner[p], n)
    BY <1>5, <1>8, <2>1 DEF BasesFound
  <2>3. t # s.corner[p]
    BY <1>1, <1>2, <2>2
  <2>4. t \in Square(s.corner[p], n)
    BY <2>1, <2>2, <2>3 DEF Base
  <2>5. s2 = s
    BY <1>4, <1>8, <2>4 DEF ScanBinary
  <2>6. QED
    BY <1>6, <1>8, <2>1, <2>5 DEF BasesFound
<1>9. CASE tiles[t].is_base /\ s.corner[p] = <<>>
  <2>1. p \in {1, 2} /\ t \in Owned(tiles, p) /\ \A q \in {1, 2} : q # p => t \notin Owned(tiles, q)
    BY <1>1, <1>4, <1>9 DEF Owned
  <2>2. \A u \in Owned(tiles, p) : ~(Place(w, u) <= k - 1)
    BY <1>9, <2>1 DEF BasesFound
  <2>3. PICK a \in Positions(w, h) : Owned(tiles, p) = Base(a, n)
    BY <1>4, <2>1 DEF Bases
  <2>4. Place(w, a) <= Place(w, t)
    <3>1. t = a \/ t \in Square(a, n)
      BY <2>1, <2>3 DEF Base
    <3>2. CASE t = a
      BY <1>1, <1>2, <3>2
    <3>3. CASE t \in Square(a, n)
      BY <1>1, <3>3, CornerFirst
    <3>4. QED
      BY <3>1, <3>2, <3>3
  <2>5. a = t
    <3>1. ~(Place(w, a) <= k - 1)
      BY <2>2, <2>3 DEF Base
    <3>2. QED
      BY <1>1, <1>2, <2>4, <3>1
  <2>6. Square(t, n) \subseteq Owned(tiles, p)
    BY <2>3, <2>5 DEF Base
  <2>7. t[1] + n <= w /\ t[2] + n <= h
    <3>1. w \in Int /\ h \in Int
      BY DEF Sizes
    <3>2. QED
      BY <1>1, <1>5, <2>6, <3>1, SquareOnMap
  <2>8. ~(t[1] + n > w) /\ ~(t[2] + n > h)
    <3>1. t[1] + n \in Int /\ t[2] + n \in Int /\ w \in Int /\ h \in Int
      BY <1>1 DEF Positions, Sizes
    <3>2. QED
      BY <2>7, <3>1
  <2>9. \A u \in Square(t, n) : tiles[u].is_base /\ tiles[u].side = p
    BY <2>6 DEF Owned
  <2>10. s2 = [s EXCEPT !.corner[p] = t]
    <3>1. s.verdict = "loaded"
      BY DEF BasesFound
    <3>2. QED
      BY <1>4, <1>9, <2>8, <2>9, <3>1, Zenon DEF ScanBinary
  <2>11. s2.verdict = "loaded" /\ \A i \in {1, 2} : s2.corner[i] = IF i = p THEN t ELSE s.corner[i]
    <3>1. t \in {<<>>} \cup Positions(w, h) /\ s.verdict = "loaded"
      BY <1>1 DEF BasesFound
    <3> HIDE DEF p, s2
    <3>2. QED
      BY <2>1, <2>10, <3>1, CornerUpdate DEF BinaryState
  <2>12. t # <<>> /\ Place(w, t) <= k /\ Owned(tiles, p) = Base(t, n)
    BY <1>1, <1>2, <2>3, <2>5, NotEmpty
  <2> HIDE DEF s2, p
  <2>13. ASSUME NEW q \in {1, 2}
         PROVE  IF s2.corner[q] = <<>>
                THEN \A u \in Owned(tiles, q) : ~(Place(w, u) <= k)
                ELSE /\ s2.corner[q] \in Owned(tiles, q) /\ Place(w, s2.corner[q]) <= k
                     /\ Owned(tiles, q) = Base(s2.corner[q], n)
    <3>1. CASE q = p
      BY <2>1, <2>11, <2>12, <3>1
    <3>2. CASE q # p
      BY <1>6, <2>1, <2>11, <3>2
    <3>3. QED
      BY <3>1, <3>2
  <2>14. QED
    BY <2>11, <2>13 DEF BasesFound
<1>10. QED
  BY <1>7, <1>8, <1>9

(* A map with proper bases passes the check.                                 *)
LEMMA BasesPass ==
    ASSUME NEW w, NEW h, Sizes(w, h), NEW n \in Int, NEW tiles \in [Positions(w, h) -> Tile],
           Bases(tiles, n)
    PROVE  BinaryScan(tiles, w, h, n)[w * h].verdict = "loaded"
<1> DEFINE r == BinaryScan(tiles, w, h, n)
           T == {k \in 0 .. w * h : BasesFound(tiles, w, n, k, r[k])}
<1>1. /\ r[0] = BinaryStart
      /\ \A k \in 1 .. w * h : r[k] = ScanBinary(tiles, w, h, n, r[k - 1], RowMajor(w, h)[k])
      /\ \A k \in 0 .. w * h : r[k] \in BinaryState(w, h)
  BY BinaryScanIs
<1>2. w * h \in Nat
  BY Area
<1> HIDE DEF r
<1>3. 0 \in T
  <2>1. \A t \in Positions(w, h) : Place(w, t) \in 1 .. w * h
    BY RowMajorIs
  <2>2. \A t \in Positions(w, h) : ~(Place(w, t) <= 0)
    BY <1>2, <2>1
  <2>3. \A p : Owned(tiles, p) \subseteq Positions(w, h)
    BY DEF Owned
  <2>4. BasesFound(tiles, w, n, 0, BinaryStart)
    BY <2>2, <2>3, StartType DEF BasesFound
  <2>5. QED
    BY <1>1, <1>2, <2>4
<1>4. ASSUME NEW k \in 1 .. w * h, k - 1 \in T PROVE k \in T
  <2>1. k - 1 \in 0 .. w * h /\ k \in 0 .. w * h
    BY <1>2
  <2>2. BasesFound(tiles, w, n, k - 1, r[k - 1])
    BY <1>4
  <2>3. BasesFound(tiles, w, n, k, ScanBinary(tiles, w, h, n, r[k - 1], RowMajor(w, h)[k]))
    BY <1>1, <2>1, <2>2, BasesStep
  <2>4. QED
    BY <1>1, <2>1, <2>3
<1>5. w * h \in T
  <2>1. T \in SUBSET (0 .. w * h)
    OBVIOUS
  <2> HIDE DEF T
  <2>2. T = 0 .. w * h
    BY <1>2, <1>3, <1>4, <2>1, RoundInduction
  <2>3. QED
    BY <1>2, <2>2
<1>6. QED
  BY <1>5 DEF r, BasesFound

-----------------------------------------------------------------------------
(* Loading.                                                                  *)

\* A tilemap as load and generate return it.
Map(m) ==
    /\ m = [width |-> m.width, height |-> m.height, base_size |-> m.base_size, tiles |-> m.tiles]
    /\ Sizes(m.width, m.height) /\ m.base_size \in pos_t
    /\ m.tiles \in [Positions(m.width, m.height) -> Tile]
    /\ Bases(m.tiles, m.base_size)

\* A tile that has a letter of its own, but for the side.
Lettered(tile) == (tile.is_base => ~tile.is_resource) /\
                  (tile.is_base \/ tile.is_resource => tile.terrain = EMPTY)

\* A tilemap whose bases the scan of a text file finds as they are.
TextMap(m) ==
    LET s == TextScan({t \in Positions(m.width, m.height) : m.tiles[t].is_base},
                      m.width, m.height)[m.width * m.height]
    IN  /\ s.verdict = "loaded" /\ s.size = m.base_size
        /\ \A t \in Positions(m.width, m.height) :
              m.tiles[t].side = s.side[t] /\ Lettered(m.tiles[t])

(* A line is a sequence of characters.                                       *)
LEMMA LineIs ==
    ASSUME NEW f \in TextFiles, NEW y \in Nat
    PROVE  Line(f, y) \in Seq(STRING)
<1>1. f.rows \in Seq(Seq(STRING)) /\ <<>> \in Seq(STRING)
  BY DEF TextFiles
<1>2. f.rows # <<>> => Last(f.rows) \in Seq(STRING)
  BY <1>1 DEF Last
<1>3. y < Len(f.rows) => f.rows[y + 1] \in Seq(STRING)
  <2>1. Len(f.rows) \in Nat /\ (y < Len(f.rows) => y + 1 \in 1 .. Len(f.rows))
    BY <1>1
  <2>2. QED
    BY <1>1, <2>1
<1>4. QED
  BY <1>1, <1>2, <1>3 DEF Line

(* Rows that are not bad have a letter for every tile.                       *)
LEMMA GoodRows ==
    ASSUME NEW f \in TextFiles, NEW h \in Int, f.width = 0 \/ h \in Nat, ~BadRows(f, h)
    PROVE  /\ Sizes(f.width, h)
           /\ \A t \in Positions(f.width, h) : Line(f, t[2])[t[1] + 1] \in DOMAIN TextTile
<1>1. \A y \in 0 .. h - 1 : /\ Line(f, y) \in Seq(STRING) /\ Len(Line(f, y)) = f.width
                            /\ Range(Line(f, y)) \subseteq DOMAIN TextTile
  <2>1. \A y \in 0 .. h - 1 : y \in Nat
    OBVIOUS
  <2>2. QED
    BY <2>1, LineIs DEF BadRows
<1>2. Sizes(f.width, h)
  BY DEF TextFiles, Sizes
<1>3. ASSUME NEW t \in Positions(f.width, h)
      PROVE  Line(f, t[2])[t[1] + 1] \in DOMAIN TextTile
  <2>1. PICK x \in 0 .. f.width - 1, y \in 0 .. h - 1 : t = <<x, y>>
    BY DEF Positions
  <2>2. f.width \in Int
    BY DEF TextFiles
  <2>3. x + 1 \in 1 .. f.width
    BY <2>1, <2>2
  <2>4. x + 1 \in DOMAIN Line(f, y)
    BY <1>1, <2>1, <2>3
  <2>5. Line(f, y)[x + 1] \in Range(Line(f, y))
    BY <2>4 DEF Range
  <2>6. QED
    BY <1>1, <2>1, <2>5
<1>4. QED
  BY <1>2, <1>3

(* The tile of a letter.                                                     *)
Sided(tile, side) == [tile EXCEPT !.side = side]

(* The tiles that the letters of a text file stand for.                      *)
LEMMA TextTileIs ==
    ASSUME NEW c \in DOMAIN TextTile, NEW side \in 0 .. 2
    PROVE  LET tile == Sided(TextTile[c], side) IN
           /\ tile \in Tile /\ tile.side = side /\ (tile.is_base <=> c = "B") /\ Lettered(tile)
  BY DEF TextTile, Tile, Lettered, EMPTY, WATER, OBSTACLE, Sided

(* A text file that is loaded is a proper map.                               *)
LEMMA TextLoads ==
    ASSUME NEW f \in TextFiles, NEW h \in Int, loadText(f, h).verdict = "loaded"
    PROVE  LET m == loadText(f, h).map
               s == TextScan(BaseTiles(f, h), f.width, h)[f.width * h]
           IN
           /\ Map(m) /\ TextMap(m) /\ m.width = f.width /\ m.height = h /\ m.base_size = s.size
           /\ \A t \in Positions(f.width, h) :
                 m.tiles[t].side = s.side[t] /\ (m.tiles[t].is_base <=> t \in BaseTiles(f, h))
<1> DEFINE w == f.width
           is_base == BaseTiles(f, h)
           s == TextScan(is_base, w, h)[w * h]
           c(t) == Line(f, t[2])[t[1] + 1]
           tiles == [t \in Positions(w, h) |-> [TextTile[c(t)] EXCEPT !.side = s.side[t]]]
           m == loadText(f, h).map
<1>1. /\ w = 0 \/ h \in Nat
      /\ ~BadRows(f, h) /\ s.verdict = "loaded" /\ loadText(f, h) = Loaded(w, h, s.size, tiles)
  <2>1. Refused.verdict # "loaded"
    BY DEF Refused
  <2>2. [verdict |-> s.verdict].verdict = s.verdict
    OBVIOUS
  <2>3. /\ ~(w > 0 /\ h < 0) /\ ~BadRows(f, h) /\ s.verdict = "loaded"
        /\ loadText(f, h) = Loaded(w, h, s.size, tiles)
    BY <2>1, <2>2, Zenon DEF loadText
  <2>4. w \in Nat
    BY DEF TextFiles
  <2> HIDE DEF w, s, tiles
  <2>5. QED
    BY <2>3, <2>4
<1> HIDE DEF c
<1>2. Sizes(w, h) /\ \A t \in Positions(w, h) : c(t) \in DOMAIN TextTile
  BY <1>1, GoodRows DEF c
<1>3. is_base \in SUBSET Positions(w, h) /\ \A t \in Positions(w, h) : t \in is_base <=> c(t) = "B"
  BY DEF BaseTiles, c
<1> HIDE DEF is_base
<1>4. s \in TextState(w, h) /\ TextFound(is_base, w, h, w * h, s)
  BY <1>1, <1>2, <1>3, TextScanInv
<1> HIDE DEF s
<1>5. /\ s.found \in 0 .. 2 /\ s.size \in Nat
      /\ \A t \in Positions(w, h) : s.side[t] \in 0 .. s.found /\ s.side[t] \in 0 .. 2
  BY <1>4 DEF TextFound, TextState
<1>6. \A t \in Positions(w, h) :
         /\ tiles[t] \in Tile /\ tiles[t].side = s.side[t]
         /\ tiles[t].is_base <=> t \in is_base
         /\ Lettered(tiles[t])
  <2> SUFFICES ASSUME NEW t \in Positions(w, h)
               PROVE  /\ tiles[t] \in Tile /\ tiles[t].side = s.side[t]
                      /\ tiles[t].is_base <=> t \in is_base
                      /\ Lettered(tiles[t])
    OBVIOUS
  <2>1. tiles[t] = Sided(TextTile[c(t)], s.side[t])
    BY DEF Sided
  <2>2. c(t) \in DOMAIN TextTile /\ s.side[t] \in 0 .. 2 /\ (t \in is_base <=> c(t) = "B")
    BY <1>2, <1>3, <1>5
  <2> HIDE DEF tiles
  <2>3. QED
    BY <2>1, <2>2, TextTileIs
<1>7. m = [width |-> w, height |-> h, base_size |-> s.size, tiles |-> tiles]
  BY <1>1 DEF Loaded
<1>8. tiles \in [Positions(w, h) -> Tile] /\ DOMAIN tiles = Positions(w, h)
  BY <1>6
<1> HIDE DEF tiles, m, w
<1>9. \A t \in Positions(w, h) : t \in is_base <=> s.side[t] # 0
  <2>1. ASSUME NEW t \in is_base PROVE s.side[t] # 0
    <3>1. Place(w, t) \in 1 .. w * h
      BY <1>2, <1>3, RowMajorIs
    <3>2. Place(w, t) <= w * h
      BY <1>2, <3>1, Area
    <3>3. QED
      BY <1>4, <3>2 DEF TextFound
  <2>2. ASSUME NEW t \in Positions(w, h), s.side[t] # 0 PROVE t \in is_base
    <3>1. s.side[t] \in 1 .. s.found
      BY <1>5, <2>2
    <3>2. PICK a \in Positions(w, h) :
              /\ Square(a, s.size) \subseteq is_base
              /\ \A u \in Positions(w, h) : s.side[u] = s.side[t] <=> u \in Square(a, s.size)
      BY <1>4, <3>1 DEF TextFound
    <3>3. QED
      BY <3>2
  <2>3. QED
    BY <2>1, <2>2
<1>10. Bases(tiles, s.size)
  <2>1. \A t \in DOMAIN tiles : tiles[t].is_base <=> tiles[t].side # 0
    BY <1>6, <1>8, <1>9
  <2>2. \A p \in {1, 2} : Owned(tiles, p) = {t \in Positions(w, h) : s.side[t] = p}
    BY <1>6, <1>8, <1>9 DEF Owned
  <2>3. ASSUME NEW p \in {1, 2}
        PROVE  \/ Owned(tiles, p) = {}
               \/ \E a \in DOMAIN tiles : Owned(tiles, p) = Base(a, s.size)
    <3>1. CASE p > s.found
      <4>1. \A t \in Positions(w, h) : s.side[t] # p
        BY <1>5, <3>1
      <4>2. QED
        BY <2>2, <4>1
    <3>2. CASE p <= s.found
      <4>1. p \in 1 .. s.found /\ s.size >= 1
        BY <1>4, <1>5, <3>2 DEF TextFound
      <4>2. PICK a \in Positions(w, h) :
                /\ Square(a, s.size) \subseteq is_base
                /\ \A u \in Positions(w, h) : s.side[u] = p <=> u \in Square(a, s.size)
        BY <1>4, <4>1 DEF TextFound
      <4>3. a \in Square(a, s.size)
        BY <1>5, <4>1, CornerInSquare
      <4>4. Owned(tiles, p) = Square(a, s.size) /\ Base(a, s.size) = Square(a, s.size)
        BY <1>3, <2>2, <4>2, <4>3 DEF Base
      <4>5. QED
        BY <1>8, <4>4
    <3>3. QED
      BY <1>5, <3>1, <3>2
  <2>4. QED
    BY <2>1, <2>3 DEF Bases
<1>11. m.width = w /\ m.height = h /\ m.base_size = s.size /\ m.tiles = tiles
  BY <1>7
<1>15. s.size \in pos_t
  <2>1. w \in Nat /\ w \in pos_t /\ h \in Int
    BY DEF w, TextFiles
  <2>2. CASE s.found = 0
    <3>1. s.size = 0
      BY <1>4, <2>2 DEF TextFound
    <3>2. QED
      BY <2>1, <3>1, LimitAssumption DEF pos_t
  <2>3. CASE s.found # 0
    <3>1. 1 \in 1 .. s.found
      BY <1>5, <2>3
    <3>2. PICK a \in Positions(w, h) : Square(a, s.size) \subseteq is_base
      BY <1>4, <3>1 DEF TextFound
    <3>3. a[1] + s.size <= w
      BY <1>3, <1>5, <2>1, <3>2, SquareOnMap
    <3>4. s.size <= w
      BY <1>5, <2>1, <3>3 DEF Positions
    <3>5. QED
      BY <1>5, <2>1, <3>4, LimitAssumption DEF pos_t
  <2>4. QED
    BY <2>2, <2>3
<1>12. Map(m)
  BY <1>2, <1>7, <1>8, <1>10, <1>11, <1>15 DEF Map
<1>13. TextMap(m)
  <2>1. {t \in Positions(w, h) : tiles[t].is_base} = is_base
    BY <1>3, <1>6
  <2>2. TextScan({t \in Positions(m.width, m.height) : m.tiles[t].is_base},
                 m.width, m.height)[m.width * m.height] = s
    BY <1>11, <2>1 DEF s
  <2>3. QED
    BY <1>1, <1>6, <1>11, <2>2 DEF TextMap
<1>14. QED
  BY <1>6, <1>11, <1>12, <1>13 DEF m, w, s, is_base

(* An element of a sequence.                                                 *)
LEMMA ElementOf ==
    ASSUME NEW S, NEW b \in Seq(S), NEW i \in 1 .. Len(b)
    PROVE  b[i] \in S
  OBVIOUS

(* The fields of a byte.                                                     *)
LEMMA UnpackIs ==
    ASSUME NEW byte \in 0 .. 255, ValidTile(unpack(byte))
    PROVE  unpack(byte) \in Tile
<1>1. byte % 4 \in 0 .. 3 /\ (byte \div 4) % 4 \in 0 .. 3
  OBVIOUS
<1>2. /\ unpack(byte).terrain \in {EMPTY, WATER, OBSTACLE} /\ unpack(byte).side <= 2
      /\ unpack(byte).terrain = byte % 4 /\ unpack(byte).side = (byte \div 4) % 4
  BY DEF ValidTile, unpack
<1>3. (byte \div 4) % 4 \in 0 .. 2
  BY <1>1, <1>2
<1>4. QED
  BY <1>2, <1>3 DEF unpack, Tile

(* The tiles of a binary file of the length that its size asks for.          *)
LEMMA UnpackedIs ==
    ASSUME NEW f \in BinaryFiles, Len(f.bytes) >= f.width * f.height
    PROVE  /\ Sizes(f.width, f.height)
           /\ DOMAIN UnpackedTiles(f) = Positions(f.width, f.height)
           /\ \A t \in Positions(f.width, f.height) :
                 /\ f.bytes[Place(f.width, t)] \in 0 .. 255
                 /\ UnpackedTiles(f)[t] = unpack(f.bytes[Place(f.width, t)])
<1>1. f.width \in Nat /\ f.height \in Nat /\ f.bytes \in Seq(0 .. 255)
  BY DEF BinaryFiles
<1>2. Sizes(f.width, f.height)
  BY <1>1 DEF Sizes
<1>3. ASSUME NEW t \in Positions(f.width, f.height)
      PROVE  /\ f.bytes[Place(f.width, t)] \in 0 .. 255
             /\ UnpackedTiles(f)[t] = unpack(f.bytes[Place(f.width, t)])
  <2>1. Place(f.width, t) \in 1 .. f.width * f.height
    BY <1>2, RowMajorIs
  <2>2. f.width * f.height \in Nat /\ Len(f.bytes) \in Nat
    BY <1>1, <1>2, Area
  <2>3. Place(f.width, t) \in 1 .. Len(f.bytes)
    BY <2>1, <2>2
  <2>4. f.bytes[Place(f.width, t)] \in 0 .. 255
    BY <1>1, <2>3, ElementOf, Zenon
  <2>5. UnpackedTiles(f)[t] = unpack(f.bytes[Place(f.width, t)])
    <3>1. UnpackedTiles(f)[t] = unpack(f.bytes[t[2] * f.width + t[1] + 1])
      BY Zenon DEF UnpackedTiles
    <3>2. QED
      BY <3>1, Zenon DEF Place
  <2>6. QED
    BY <2>4, <2>5
<1>4. QED
  BY <1>2, <1>3 DEF UnpackedTiles

(* A number that is stored in a pos_t, and one that is read back.            *)
LEMMA SignedIs ==
    /\ \A n \in 0 .. WordSize - 1 : Signed(n) \in pos_t
    /\ \A n \in Nat : 2 * n < WordSize => Signed(n) = n
    /\ \A n \in pos_t : n % WordSize \in 0 .. WordSize - 1 /\ Signed(n % WordSize) = n
<1>1. WordSize \in Nat \ {0}
  BY LimitAssumption
<1>2. ASSUME NEW n \in 0 .. WordSize - 1 PROVE Signed(n) \in pos_t
  BY <1>1 DEF Signed, pos_t
<1>3. ASSUME NEW n \in Nat, 2 * n < WordSize PROVE Signed(n) = n
  BY <1>3 DEF Signed
<1>4. ASSUME NEW n \in pos_t
      PROVE  n % WordSize \in 0 .. WordSize - 1 /\ Signed(n % WordSize) = n
  <2>1. n \in Int /\ -WordSize <= 2 * n /\ 2 * n < WordSize
    BY DEF pos_t
  <2>2. CASE n >= 0
    <3>1. n \in 0 .. WordSize - 1 /\ n = 0 * WordSize + n
      BY <1>1, <2>1, <2>2
    <3>2. (0 * WordSize + n) % WordSize = n
      BY <1>1, <3>1
    <3>3. QED
      BY <1>1, <2>1, <3>1, <3>2 DEF Signed
  <2>3. CASE n < 0
    <3>1. n + WordSize \in 0 .. WordSize - 1 /\ 2 * (n + WordSize) >= WordSize
      BY <1>1, <2>1, <2>3
    <3>2. PICK k \in 0 .. WordSize - 1 : k = n + WordSize
      BY <3>1
    <3>3. n = (-1) * WordSize + k
      BY <1>1, <2>1, <3>2
    <3>4. ((-1) * WordSize + k) % WordSize = k
      BY <1>1
    <3>5. n % WordSize = k
      BY <3>3, <3>4
    <3>6. QED
      BY <1>1, <2>1, <3>1, <3>2, <3>5 DEF Signed
  <2>4. QED
    BY <2>1, <2>2, <2>3
<1>5. QED
  BY <1>2, <1>3, <1>4

(* A binary file that is loaded is a proper map.                             *)
LEMMA BinaryLoads ==
    ASSUME NEW f \in BinaryFiles, loadBinary(f).verdict = "loaded"
    PROVE  LET m == loadBinary(f).map IN
           /\ Map(m) /\ m.width = f.width /\ m.height = f.height
           /\ m.base_size = Signed(f.base_size)
           /\ m.tiles = UnpackedTiles(f)
<1> DEFINE w == f.width
           h == f.height
           n == Signed(f.base_size)
           tiles == UnpackedTiles(f)
           s == BinaryScan(tiles, w, h, n)[w * h]
           m == loadBinary(f).map
<1>1. /\ ~(Len(f.bytes) < w * h)
      /\ \A t \in Positions(w, h) : ValidTile(tiles[t])
      /\ s.verdict = "loaded" /\ loadBinary(f) = Loaded(w, h, n, tiles)
  <2>1. Refused.verdict # "loaded"
    BY DEF Refused
  <2>2. [verdict |-> s.verdict].verdict = s.verdict
    OBVIOUS
  <2>3. QED
    BY <2>1, <2>2, Zenon DEF loadBinary
<1>2. w \in Nat /\ h \in Nat /\ n \in pos_t /\ n \in Int /\ f.bytes \in Seq(0 .. 255)
  BY SignedIs DEF BinaryFiles, pos_t
<1>3. Len(f.bytes) >= w * h
  <2>1. w * h \in Nat /\ Len(f.bytes) \in Nat
    BY <1>2
  <2>2. QED
    BY <1>1, <2>1
<1>4. /\ Sizes(w, h) /\ DOMAIN tiles = Positions(w, h)
      /\ \A t \in Positions(w, h) : \E byte \in 0 .. 255 : tiles[t] = unpack(byte)
  BY <1>3, UnpackedIs
<1>5. tiles \in [Positions(w, h) -> Tile]
  <2>1. \A t \in Positions(w, h) : tiles[t] \in Tile
    BY <1>1, <1>4, UnpackIs
  <2>2. tiles = [t \in Positions(w, h) |-> tiles[t]]
    BY DEF UnpackedTiles
  <2> HIDE DEF tiles
  <2>3. QED
    BY <2>1, <2>2
<1>6. \A t \in Positions(w, h) : ~tiles[t].is_base => tiles[t].side = 0
  BY <1>1 DEF ValidTile
<1> HIDE DEF tiles
<1>7. Bases(tiles, n)
  BY <1>1, <1>2, <1>4, <1>5, <1>6, BinaryScanInv
<1>8. m = [width |-> w, height |-> h, base_size |-> n, tiles |-> tiles]
  BY <1>1 DEF Loaded
<1> HIDE DEF m, w, h, n
<1>9. m.width = w /\ m.height = h /\ m.base_size = n /\ m.tiles = tiles
  BY <1>8
<1>10. Map(m)
  BY <1>2, <1>4, <1>5, <1>7, <1>8, <1>9 DEF Map
<1>11. QED
  BY <1>9, <1>10 DEF m, w, h, n, tiles

-----------------------------------------------------------------------------
(* Generation.                                                               *)

ClusterState == [placed : Nat, tiles : SUBSET (Int \X Int)]

ClusterStep(ground, limit, spots, s, k) ==
    IF s.placed < limit /\ Fits(ground, spots[k])
    THEN [placed |-> s.placed + 1, tiles |-> s.tiles \cup Square(spots[k], ClusterSize)]
    ELSE s

(* Resources are put on plain ground only.                                   *)
LEMMA ClustersFit ==
    ASSUME NEW ground, NEW limit \in Int, NEW spots \in Seq(Int \X Int)
    PROVE  \A u \in Clusters(ground, limit, spots)[Len(spots)].tiles :
              u \in DOMAIN ground /\ ground[u].terrain = EMPTY /\ ~ground[u].is_base
<1> DEFINE S == ClusterState
           n == Len(spots)
           start == [placed |-> 0, tiles |-> {}]
           step(s, k) == ClusterStep(ground, limit, spots, s, k)
           F == [x \in S \X (1 .. n) |-> step(x[1], x[2])]
           Fix(f) == f = [k \in 0 .. n |-> IF k = 0 THEN start ELSE step(f[k - 1], k)]
           r == Clusters(ground, limit, spots)
<1>1. n \in Nat /\ \A k \in 1 .. n : spots[k] \in Int \X Int
  <2>1. \A k \in 1 .. n : spots[k] \in Int \X Int
    BY ElementOf, Zenon
  <2>2. QED
    BY <2>1
<1>2. start \in S
  BY DEF ClusterState
<1>3. ASSUME NEW s \in S, NEW k \in 1 .. n PROVE step(s, k) \in S
  <2>1. PICK x \in Int, y \in Int : spots[k] = <<x, y>>
    <3>1. spots[k] \in Int \X Int
      BY <1>1, Zenon
    <3> DEFINE c == spots[k]
    <3> HIDE DEF c
    <3>2. \E x \in Int, y \in Int : c = <<x, y>>
      BY <3>1 DEF c
    <3>3. QED
      BY <3>2 DEF c
  <2>2. ClusterSize \in Int
    BY LimitAssumption
  <2>3. Square(spots[k], ClusterSize) \subseteq Int \X Int
    BY <2>1, <2>2 DEF Square
  <2>4. s.placed + 1 \in Nat /\ s.tiles \cup Square(spots[k], ClusterSize) \in SUBSET (Int \X Int)
    BY <2>3 DEF ClusterState
  <2>5. [placed |-> s.placed + 1, tiles |-> s.tiles \cup Square(spots[k], ClusterSize)] \in S
    <3> DEFINE a == s.placed + 1
               b == s.tiles \cup Square(spots[k], ClusterSize)
               B == SUBSET (Int \X Int)
    <3>1. a \in Nat /\ b \in B
      BY <2>4
    <3> HIDE DEF a, b, B
    <3>2. [placed |-> a, tiles |-> b] \in [placed : Nat, tiles : B]
      BY <3>1
    <3>3. QED
      BY <3>2 DEF a, b, B, ClusterState
  <2>6. QED
    BY <2>5, Zenon DEF ClusterStep
<1>4. r = CHOOSE f : Fix(f)
  BY DEF Clusters, ClusterStep
<1> HIDE DEF S, n, step, r, start
<1>5. F \in Bodies(S, n)
  BY <1>3 DEF Bodies
<1>6. \A s \in S, k \in 1 .. n : F[<<s, k>>] = step(s, k)
  OBVIOUS
<1> HIDE DEF F
<1>7. PICK e \in [0 .. n -> S] :
         e[0] = start /\ \A k \in 1 .. n : e[k] = F[<<e[k - 1], k>>]
  <2>1. Runs(S, n, start, F) # {}
    BY <1>1, <1>2, <1>5, LoopRuns
  <2>2. QED
    BY <2>1 DEF Runs
<1>8. ASSUME NEW k \in 0 .. n
      PROVE  e[k] = IF k = 0 THEN start ELSE step(e[k - 1], k)
  <2>1. CASE k = 0
    BY <1>7, <2>1
  <2>2. CASE k # 0
    <3>1. k \in 1 .. n /\ k - 1 \in 0 .. n
      BY <1>1, <2>2
    <3>2. QED
      BY <1>6, <1>7, <2>2, <3>1
  <2>3. QED
    BY <2>1, <2>2
<1>9. Fix(e)
  BY <1>8
<1>10. Fix(r)
  <2> HIDE DEF Fix
  <2>1. QED
    BY <1>4, <1>9, Zenon
<1>11. r[0] = start /\ \A k \in 1 .. n : r[k] = step(r[k - 1], k)
  <2>1. 0 \in 0 .. n /\ \A k \in 1 .. n : k \in 0 .. n /\ k # 0
    BY <1>1
  <2>2. \A k \in 0 .. n : r[k] = IF k = 0 THEN start ELSE step(r[k - 1], k)
    BY <1>10
  <2>3. QED
    BY <2>1, <2>2
<1> DEFINE Plains == {u \in DOMAIN ground : ground[u].terrain = EMPTY /\ ~ground[u].is_base}
           T == {k \in 0 .. n : r[k].tiles \subseteq Plains}
<1>12. 0 \in T
  BY <1>1, <1>11 DEF start
<1>13. ASSUME NEW k \in 1 .. n, k - 1 \in T PROVE k \in T
  <2>1. k \in 0 .. n /\ r[k - 1].tiles \subseteq Plains /\ r[k] = step(r[k - 1], k)
    BY <1>1, <1>11, <1>13
  <2>2. Fits(ground, spots[k]) => Square(spots[k], ClusterSize) \subseteq Plains
    BY DEF Fits
  <2> HIDE DEF Plains
  <2>3. r[k].tiles \subseteq Plains
    <3>1. CASE r[k] = r[k - 1]
      BY <2>1, <3>1
    <3>2. CASE /\ Fits(ground, spots[k])
               /\ r[k] = [placed |-> r[k - 1].placed + 1,
                          tiles |-> r[k - 1].tiles \cup Square(spots[k], ClusterSize)]
      <4>1. r[k].tiles = r[k - 1].tiles \cup Square(spots[k], ClusterSize)
        BY <3>2
      <4>2. QED
        BY <2>1, <2>2, <3>2, <4>1
    <3>3. QED
      BY <2>1, <3>1, <3>2 DEF step, ClusterStep
  <2>4. QED
    BY <2>1, <2>3
<1>14. n \in T
  <2>1. T \in SUBSET (0 .. n)
    OBVIOUS
  <2> HIDE DEF T
  <2>2. T = 0 .. n
    BY <1>1, <1>12, <1>13, <2>1, RoundInduction
  <2>3. QED
    BY <1>1, <2>2
<1>15. r[n].tiles \subseteq Plains
  BY <1>14
<1>16. QED
  BY <1>15 DEF r, n

\* A map with two squares as its bases.
GoodMap(m) ==
    /\ m.base_size \in Nat /\ m.base_size >= 1
    /\ \A p \in {1, 2} : Owned(m.tiles, p) # {}

\* A map of the sizes that World accepts.
ByteMap(m) ==
    /\ {m.width, m.height} \subseteq MinSize .. ByteSize - 1
    /\ m.base_size \in MinBase .. MaxBase

(* The updates of a tile.                                                    *)
Based(tile, p) == [tile EXCEPT !.is_base = TRUE, !.side = p]
Rough(tile, x) == [tile EXCEPT !.terrain = x]
Rich(tile, r) == [tile EXCEPT !.is_resource = r]

(* A tile that is made part of a base.                                       *)
LEMMA BasedIs ==
    ASSUME NEW tile \in Tile, NEW p \in 0 .. 2
    PROVE  /\ Based(tile, p) \in Tile /\ Based(tile, p).is_resource = tile.is_resource
           /\ Based(tile, p).is_base /\ Based(tile, p).side = p
           /\ Based(tile, p).terrain = tile.terrain
  BY DEF Tile, Based

(* A tile that is given its terrain.                                         *)
LEMMA RoughIs ==
    ASSUME NEW tile \in Tile, NEW x \in {EMPTY, WATER, OBSTACLE}
    PROVE  /\ Rough(tile, x) \in Tile /\ Rough(tile, x).is_resource = tile.is_resource
           /\ Rough(tile, x).is_base = tile.is_base /\ Rough(tile, x).side = tile.side
  BY DEF Tile, Rough

(* A tile that is given its resources.                                       *)
LEMMA RichIs ==
    ASSUME NEW tile \in Tile, NEW r \in BOOLEAN
    PROVE  /\ Rich(tile, r) \in Tile /\ Rich(tile, r).is_resource = r
           /\ Rich(tile, r).is_base = tile.is_base /\ Rich(tile, r).side = tile.side
           /\ Rich(tile, r).terrain = tile.terrain
  BY DEF Tile, Rich

(* The tile that the generator starts from.                                  *)
LEMMA PlainIs ==
    /\ Plain \in Tile /\ ~Plain.is_resource /\ ~Plain.is_base /\ Plain.side = 0
    /\ Plain.terrain = EMPTY
  BY DEF Plain, Tile, EMPTY, WATER, OBSTACLE

(* The tiles of the ground.                                                  *)
LEMMA GroundIs ==
    ASSUME NEW c,
           NEW terrain \in [Positions(c.width, c.height) -> {EMPTY, WATER, OBSTACLE}],
           Square(<<0, 0>>, c.base_size)
              \cap Square(<<c.width - c.base_size, c.height - c.base_size>>, c.base_size) = {}
    PROVE  LET w == c.width
               h == c.height
               n == c.base_size
               a == <<0, 0>>
               b == <<w - n, h - n>>
               ground == Ground(c, terrain)
           IN
           /\ DOMAIN ground = Positions(w, h)
           /\ \A t \in Positions(w, h) :
                /\ ground[t] \in Tile /\ ~ground[t].is_resource
                /\ ground[t].is_base <=> t \in Square(a, n) \cup Square(b, n)
                /\ ground[t].side = IF t \in Square(a, n) THEN 1 ELSE IF t \in Square(b, n) THEN 2 ELSE 0
                /\ ground[t].is_base => ground[t].terrain = EMPTY
<1> DEFINE w == c.width
           h == c.height
           n == c.base_size
           a == <<0, 0>>
           b == <<w - n, h - n>>
           ground == Ground(c, terrain)
           First == Based(Plain, 1)
           Second == Based(Plain, 2)
           Other(t) == Rough(Plain, terrain[t])
<1>1. ground = [t \in Positions(w, h) |->
                   IF t \in Square(b, n) THEN Second ELSE IF t \in Square(a, n) THEN First ELSE Other(t)]
  BY Zenon DEF Ground, Based, Rough
<1>2. /\ First \in Tile /\ ~First.is_resource /\ First.is_base /\ First.side = 1 /\ First.terrain = EMPTY
      /\ Second \in Tile /\ ~Second.is_resource /\ Second.is_base /\ Second.side = 2 /\ Second.terrain = EMPTY
  <2>1. 1 \in 0 .. 2 /\ 2 \in 0 .. 2
    OBVIOUS
  <2>2. QED
    BY <2>1, PlainIs, BasedIs
<1>3. \A t \in Positions(w, h) :
         Other(t) \in Tile /\ ~Other(t).is_resource /\ ~Other(t).is_base /\ Other(t).side = 0
  <2>1. \A t \in Positions(w, h) : terrain[t] \in {EMPTY, WATER, OBSTACLE}
    OBVIOUS
  <2>2. QED
    BY <2>1, PlainIs, RoughIs
<1> HIDE DEF First, Second, Other, ground
<1>4. ASSUME NEW t \in Positions(w, h)
      PROVE  /\ ground[t] \in Tile /\ ~ground[t].is_resource
             /\ ground[t].is_base <=> t \in Square(a, n) \cup Square(b, n)
             /\ ground[t].side = IF t \in Square(a, n) THEN 1 ELSE IF t \in Square(b, n) THEN 2 ELSE 0
             /\ ground[t].is_base => ground[t].terrain = EMPTY
  <2>1. CASE t \in Square(b, n)
    <3>1. ground[t] = Second /\ t \notin Square(a, n)
      BY <1>1, <2>1
    <3>2. QED
      BY <1>2, <2>1, <3>1
  <2>2. CASE t \in Square(a, n)
    <3>1. ground[t] = First /\ t \notin Square(b, n)
      BY <1>1, <2>2
    <3>2. QED
      BY <1>2, <2>2, <3>1
  <2>3. CASE t \notin Square(a, n) /\ t \notin Square(b, n)
    <3>1. ground[t] = Other(t)
      BY <1>1, <2>3
    <3>2. QED
      BY <1>3, <2>3, <3>1
  <2>4. QED
    BY <2>1, <2>2, <2>3
<1>5. DOMAIN ground = Positions(w, h)
  BY <1>1
<1>6. QED
  BY <1>4, <1>5 DEF ground

(* The two corners of a generated map are bases that a text file may have.   *)
LEMMA CornerPair ==
    ASSUME NEW w \in Nat, NEW h \in Nat, NEW n \in Nat, n >= 1, w >= 2 * n, h >= 2 * n,
           NEW a, NEW b, a = <<0, 0>>, b = <<w - n, h - n>>
    PROVE  /\ Sizes(w, h) /\ a \in Positions(w, h) /\ b \in Positions(w, h)
           /\ Pair(Square(a, n) \cup Square(b, n), w, h, a, b, n)
<1>1. Sizes(w, h) /\ a \in Positions(w, h) /\ b \in Positions(w, h)
  BY DEF Sizes, Positions
<1>2. /\ Square(a, n) = (0 .. 0 + n - 1) \X (0 .. 0 + n - 1)
      /\ Square(b, n) = (w - n .. w - n + n - 1) \X (h - n .. h - n + n - 1)
  BY DEF Square
<1>3. Square(a, n) \cup Square(b, n) \subseteq Positions(w, h)
  BY <1>2 DEF Positions
<1>4. Square(a, n) \cap Square(b, n) = {}
  BY <1>2
<1>5. <<a[1] + n, a[2]>> \notin Square(a, n) \cup Square(b, n)
  BY <1>2
<1>6. <<b[1] + n, b[2]>> \notin Square(a, n) \cup Square(b, n)
  BY <1>2
<1>7. Place(w, a) < Place(w, b)
  <2>1. ~(Place(w, b) <= Place(w, a))
    BY <1>1, RowOrder
  <2>2. Place(w, a) \in 1 .. w * h /\ Place(w, b) \in 1 .. w * h /\ w * h \in Nat
    BY <1>1, RowMajorIs, Area
  <2>3. QED
    BY <2>1, <2>2
<1>8. QED
  BY <1>1, <1>3, <1>4, <1>5, <1>6, <1>7 DEF Pair

SizeInput == [width : Int, height : Int, base_size : Int, num_resources : Int]

(* A generated map is a proper one that World accepts, and that a text file  *)
(* can hold.                                                                 *)
LEMMA Generates ==
    ASSUME NEW c \in SizeInput,
           NEW terrain \in [Positions(c.width, c.height) -> {EMPTY, WATER, OBSTACLE}],
           NEW spots \in Seq(Int \X Int)
    PROVE  LET r == generate(c, terrain, spots) IN
           \/ r = Refused
           \/ /\ r.verdict = "loaded" /\ Map(r.map) /\ TextMap(r.map) /\ GoodMap(r.map) /\ ByteMap(r.map)
              /\ r.map.width = c.width /\ r.map.height = c.height /\ r.map.base_size = c.base_size
<1> DEFINE w == c.width
           h == c.height
           n == c.base_size
           ground == Ground(c, terrain)
           resources == Clusters(ground, c.num_resources, spots)[Len(spots)].tiles
           tiles == [t \in DOMAIN ground |-> [ground[t] EXCEPT !.is_resource = t \in resources]]
           r == generate(c, terrain, spots)
           a == <<0, 0>>
           b == <<w - n, h - n>>
           is_base == Square(a, n) \cup Square(b, n)
<1>1. SUFFICES ASSUME r # Refused
               PROVE  /\ r.verdict = "loaded" /\ Map(r.map) /\ TextMap(r.map) /\ GoodMap(r.map) /\ ByteMap(r.map)
                      /\ r.map.width = c.width /\ r.map.height = c.height
                      /\ r.map.base_size = c.base_size
  OBVIOUS
<1>2. /\ {w, h} \subseteq MinRandom .. MaxRandom /\ n \in MinBase .. MaxBase
      /\ r = Loaded(w, h, n, tiles)
  BY <1>1, Zenon DEF generate
<1>3. /\ w \in Nat /\ h \in Nat /\ n \in Nat /\ n >= 1 /\ w >= 2 * n /\ h >= 2 * n
      /\ {w, h} \subseteq MinSize .. ByteSize - 1 /\ n \in pos_t
  <2>1. /\ MinRandom \in Nat /\ MaxRandom \in Nat /\ MinBase \in Nat /\ MinBase >= 1 /\ MaxBase \in Nat
        /\ MinRandom >= 2 * MaxBase
    BY LimitAssumption
  <2>2. ByteSize \in Nat /\ MinSize \in Nat /\ MinSize <= MinRandom /\ MaxRandom = ByteSize - 1
    BY WidthAssumption
  <2>3. w \in MinRandom .. MaxRandom /\ h \in MinRandom .. MaxRandom
    BY <1>2
  <2> HIDE DEF w, h, n
  <2>4. w \in Nat /\ h \in Nat /\ n \in Nat /\ n >= 1 /\ n <= MaxBase /\ w >= MinRandom /\ h >= MinRandom
    BY <1>2, <2>1, <2>3
  <2>5. w >= 2 * n /\ h >= 2 * n
    BY <2>1, <2>4
  <2>6. w \in MinSize .. ByteSize - 1 /\ h \in MinSize .. ByteSize - 1
    BY <2>1, <2>2, <2>3
  <2>7. n \in pos_t
    <3>1. /\ MaxBase < ByteSize /\ ByteSize <= MaxDimension /\ MaxDimension \in Nat
          /\ WordSize \in Nat /\ 2 * MaxDimension < WordSize
      BY LimitAssumption, WidthAssumption
    <3>2. QED
      BY <2>1, <2>2, <2>4, <3>1 DEF pos_t
  <2>8. QED
    BY <2>4, <2>5, <2>6, <2>7
<1> HIDE DEF w, h, n
<1>4. /\ Sizes(w, h) /\ a \in Positions(w, h) /\ b \in Positions(w, h)
      /\ Pair(is_base, w, h, a, b, n)
  BY <1>3, CornerPair
<1>5. /\ is_base \subseteq Positions(w, h)
      /\ Square(a, n) \cap Square(b, n) = {}
      /\ a \in Square(a, n) /\ b \in Square(b, n)
  BY <1>3, <1>4, CornerInSquare DEF Pair
<1> HIDE DEF a, b
<1>6. /\ DOMAIN ground = Positions(w, h)
      /\ \A t \in Positions(w, h) :
            /\ ground[t] \in Tile /\ ~ground[t].is_resource
            /\ ground[t].is_base <=> t \in is_base
            /\ ground[t].side = IF t \in Square(a, n) THEN 1 ELSE IF t \in Square(b, n) THEN 2 ELSE 0
            /\ ground[t].is_base => ground[t].terrain = EMPTY
  BY <1>3, <1>5, GroundIs DEF w, h, n, a, b, is_base
<1>7. \A u \in resources : ground[u].terrain = EMPTY /\ ~ground[u].is_base
  <2>1. c.num_resources \in Int
    BY DEF SizeInput
  <2> HIDE DEF ground
  <2>2. QED
    BY <2>1, ClustersFit
<1> HIDE DEF ground, resources, is_base
<1>8. \A t \in Positions(w, h) :
         /\ tiles[t] \in Tile
         /\ tiles[t].is_base <=> t \in is_base
         /\ tiles[t].side = IF t \in Square(a, n) THEN 1 ELSE IF t \in Square(b, n) THEN 2 ELSE 0
         /\ Lettered(tiles[t])
  <2> SUFFICES ASSUME NEW t \in Positions(w, h)
               PROVE  /\ tiles[t] \in Tile
                      /\ tiles[t].is_base <=> t \in is_base
                      /\ tiles[t].side = IF t \in Square(a, n) THEN 1
                                         ELSE IF t \in Square(b, n) THEN 2 ELSE 0
                      /\ Lettered(tiles[t])
    OBVIOUS
  <2> DEFINE rich == t \in resources
  <2>1. tiles[t] = Rich(ground[t], rich) /\ rich \in BOOLEAN
    BY <1>6 DEF Rich
  <2> HIDE DEF rich
  <2>2. /\ tiles[t] \in Tile /\ tiles[t].is_resource = rich
        /\ tiles[t].is_base = ground[t].is_base /\ tiles[t].side = ground[t].side
        /\ tiles[t].terrain = ground[t].terrain
    <3> HIDE DEF tiles
    <3>1. ground[t] \in Tile
      BY <1>6
    <3>2. QED
      BY <2>1, <3>1, RichIs
  <2> HIDE DEF tiles
  <2>3. tiles[t].is_base <=> t \in is_base
    BY <1>6, <2>2
  <2>4. Lettered(tiles[t])
    BY <1>6, <1>7, <2>2 DEF Lettered, rich
  <2>5. QED
    BY <1>6, <2>2, <2>3, <2>4
<1>9. tiles \in [Positions(w, h) -> Tile] /\ DOMAIN tiles = Positions(w, h)
  BY <1>6, <1>8
<1> HIDE DEF tiles
<1>10. Owned(tiles, 1) = Square(a, n) /\ Owned(tiles, 2) = Square(b, n)
  <2>1. Square(a, n) \subseteq is_base /\ Square(b, n) \subseteq is_base
    BY DEF is_base
  <2>2. QED
    BY <1>5, <1>8, <1>9, <2>1 DEF Owned
<1>11. Bases(tiles, n)
  <2>1. \A t \in DOMAIN tiles : tiles[t].is_base <=> tiles[t].side # 0
    BY <1>8, <1>9 DEF is_base
  <2>2. Owned(tiles, 1) = Base(a, n) /\ Owned(tiles, 2) = Base(b, n)
    BY <1>5, <1>10 DEF Base
  <2>3. QED
    BY <1>4, <1>9, <2>1, <2>2 DEF Bases
<1> DEFINE m == r.map
<1>12. r.verdict = "loaded" /\ m = [width |-> w, height |-> h, base_size |-> n, tiles |-> tiles]
  BY <1>2 DEF Loaded
<1> HIDE DEF m, r
<1>13. m.width = w /\ m.height = h /\ m.base_size = n /\ m.tiles = tiles
  BY <1>12
<1>14. Map(m)
  BY <1>3, <1>4, <1>9, <1>11, <1>12, <1>13 DEF Map
<1>15. GoodMap(m) /\ ByteMap(m)
  BY <1>2, <1>3, <1>5, <1>10, <1>13 DEF GoodMap, ByteMap
<1>16. TextMap(m)
  <2>1. {t \in Positions(w, h) : tiles[t].is_base} = is_base
    BY <1>5, <1>8
  <2>2. is_base \in SUBSET Positions(w, h)
    BY <1>5
  <2> DEFINE s == TextScan(is_base, w, h)[w * h]
  <2>3. /\ s.verdict = "loaded" /\ s.size = n
        /\ \A t \in Positions(w, h) :
              s.side[t] = IF t \in Square(a, n) THEN 1 ELSE IF t \in Square(b, n) THEN 2 ELSE 0
    BY <1>4, <2>2, TwoSquares
  <2>4. TextScan({t \in Positions(m.width, m.height) : m.tiles[t].is_base},
                 m.width, m.height)[m.width * m.height] = s
    BY <1>13, <2>1
  <2> HIDE DEF s
  <2>5. QED
    BY <1>8, <1>13, <2>3, <2>4 DEF TextMap
<1>17. QED
  BY <1>12, <1>13, <1>14, <1>15, <1>16 DEF m, r, w, h, n

-----------------------------------------------------------------------------
(* Files as the format asks for them.                                        *)

(* Squares apart from each other are bases that a text file may have.        *)
LEMMA ApartPair ==
    ASSUME NEW w, NEW h, Sizes(w, h), NEW a \in Positions(w, h), NEW b \in Positions(w, h),
           NEW n \in Nat, n >= 1, Apart(a, b, n) \/ Apart(b, a, n),
           Square(a, n) \cup Square(b, n) \subseteq Positions(w, h), Place(w, a) < Place(w, b)
    PROVE  Pair(Square(a, n) \cup Square(b, n), w, h, a, b, n)
<1>1. PICK x \in 0 .. w - 1, y \in 0 .. h - 1 : a = <<x, y>>
  BY DEF Positions
<1>2. PICK p \in 0 .. w - 1, q \in 0 .. h - 1 : b = <<p, q>>
  BY DEF Positions
<1>3. /\ Square(a, n) = (x .. x + n - 1) \X (y .. y + n - 1)
      /\ Square(b, n) = (p .. p + n - 1) \X (q .. q + n - 1)
  BY <1>1, <1>2 DEF Square
<1>4. ASSUME NEW i \in x .. x + n - 1, NEW j \in y .. y + n - 1,
             NEW k \in p .. p + n - 1, NEW l \in q .. q + n - 1
      PROVE  (i # k \/ j - l \notin -1 .. 1) /\ (j # l \/ i - k \notin -1 .. 1)
  <2>1. <<i, j>> \in Square(a, n) /\ <<k, l>> \in Square(b, n)
    BY <1>3
  <2>2. CASE Apart(a, b, n)
    BY <2>1, <2>2 DEF Apart
  <2>3. CASE Apart(b, a, n)
    <3>1. (k # i \/ l - j \notin -1 .. 1) /\ (l # j \/ k - i \notin -1 .. 1)
      BY <2>1, <2>3 DEF Apart
    <3>2. QED
      BY <3>1
  <2>4. QED
    BY <2>2, <2>3
<1>5. Square(a, n) \cap Square(b, n) = {}
  <2>1. SUFFICES ASSUME NEW i \in x .. x + n - 1, NEW j \in y .. y + n - 1,
                        i \in p .. p + n - 1, j \in q .. q + n - 1
                 PROVE  FALSE
    BY <1>3
  <2>2. i # i \/ j - j \notin -1 .. 1
    BY <1>4, <2>1
  <2>3. QED
    BY <2>2
<1>6. <<x + n, y>> \notin Square(a, n) \cup Square(b, n)
  <2>1. x + n \notin x .. x + n - 1
    OBVIOUS
  <2>2. ASSUME x + n \in p .. p + n - 1, y \in q .. q + n - 1 PROVE FALSE
    <3>1. x + n - 1 \in x .. x + n - 1 /\ y \in y .. y + n - 1
      OBVIOUS
    <3>2. y # y \/ (x + n - 1) - (x + n) \notin -1 .. 1
      BY <1>4, <2>2, <3>1
    <3>3. QED
      BY <3>2
  <2>3. QED
    BY <1>3, <2>1, <2>2
<1>7. <<p + n, q>> \notin Square(a, n) \cup Square(b, n)
  <2>1. p + n \notin p .. p + n - 1
    OBVIOUS
  <2>2. ASSUME p + n \in x .. x + n - 1, q \in y .. y + n - 1 PROVE FALSE
    <3>1. p + n - 1 \in p .. p + n - 1 /\ q \in q .. q + n - 1
      OBVIOUS
    <3>2. q # q \/ (p + n) - (p + n - 1) \notin -1 .. 1
      BY <1>4, <2>2, <3>1
    <3>3. QED
      BY <3>2
  <2>3. QED
    BY <1>3, <2>1, <2>2
<1>8. QED
  BY <1>1, <1>2, <1>5, <1>6, <1>7 DEF Pair

(* A good text file has good rows, and its base tiles are where its rows     *)
(* have the letter.                                                          *)
LEMMA GoodTextRows ==
    ASSUME NEW f \in TextFiles, GoodFile(f), f.format = "text"
    PROVE  /\ f.width \in Nat /\ f.height \in Nat /\ ~BadRows(f, f.height)
           /\ BaseTiles(f, f.height)
                 = {t \in Positions(f.width, f.height) : f.rows[t[2] + 1][t[1] + 1] = "B"}
<1>1. f.width \in Nat /\ f.height \in Nat
  <2>1. Len(f.rows) = f.height /\ f.rows \in Seq(Seq(STRING)) /\ f.width \in Nat
    BY DEF GoodFile, TextFiles
  <2>2. Len(f.rows) \in Nat
    BY <2>1
  <2>3. QED
    BY <2>1, <2>2
<1>2. \A y \in 0 .. f.height - 1 : Line(f, y) = f.rows[y + 1]
  BY <1>1 DEF GoodFile, Line
<1>3. ASSUME NEW y \in 0 .. f.height - 1
      PROVE  /\ Len(Line(f, y)) = f.width
             /\ Range(Line(f, y)) \subseteq DOMAIN TextTile
  <2>1. y \in Nat /\ y + 1 \in 1 .. f.height
    BY <1>1
  <2>2. Line(f, y) \in Seq(STRING)
    BY <2>1, LineIs
  <2>3. Line(f, y) \in [1 .. f.width -> DOMAIN TextTile]
    BY <1>2, <2>1 DEF GoodFile
  <2> DEFINE l == Line(f, y)
  <2> HIDE DEF l
  <2>4. Len(l) = f.width
    BY <1>1, <2>2, <2>3 DEF l
  <2>5. QED
    BY <2>3, <2>4 DEF l, Range
<1>4. ~BadRows(f, f.height)
  BY <1>3 DEF BadRows
<1>5. ASSUME NEW t \in Positions(f.width, f.height)
      PROVE  Line(f, t[2])[t[1] + 1] = f.rows[t[2] + 1][t[1] + 1]
  <2>1. t[2] \in 0 .. f.height - 1
    BY DEF Positions
  <2>2. QED
    BY <1>2, <2>1
<1>6. QED
  BY <1>1, <1>4, <1>5 DEF BaseTiles

(* A good text file is loaded, as a map with two bases.                      *)
LEMMA GoodTextLoads ==
    ASSUME NEW f \in TextFiles, GoodFile(f), f.format = "text"
    PROVE  loadText(f, f.height).verdict = "loaded" /\ GoodMap(loadText(f, f.height).map)
<1> DEFINE w == f.width
           h == f.height
           is_base == BaseTiles(f, h)
           s == TextScan(is_base, w, h)[w * h]
           m == loadText(f, h).map
<1>1. /\ w \in Nat /\ h \in Nat /\ ~BadRows(f, h) /\ Sizes(w, h)
      /\ is_base = {t \in Positions(w, h) : f.rows[t[2] + 1][t[1] + 1] = "B"}
  BY GoodTextRows DEF Sizes
<1>2. PICK n \in 1 .. w, a \in Positions(w, h), b \in Positions(w, h) :
         Apart(a, b, n) /\ is_base = Square(a, n) \cup Square(b, n)
  BY <1>1 DEF GoodFile
<1>3. n \in Nat /\ n >= 1
  BY <1>1
<1>4. is_base \subseteq Positions(w, h)
  BY <1>1
<1> HIDE DEF is_base
<1>5. Place(w, a) < Place(w, b) \/ Place(w, b) < Place(w, a)
  <2>1. a # b
    <3>1. a \in Square(a, n) /\ b \in Square(b, n)
      BY <1>3, CornerInSquare
    <3>2. a[1] # b[1] \/ a[2] - b[2] \notin -1 .. 1
      BY <1>2, <3>1 DEF Apart
    <3>3. a[1] \in Int /\ a[2] \in Int
      BY DEF Positions
    <3>4. QED
      BY <3>2, <3>3
  <2>2. Place(w, a) # Place(w, b)
    BY <1>1, <2>1, RowMajorIs
  <2>3. Place(w, a) \in 1 .. w * h /\ Place(w, b) \in 1 .. w * h /\ w * h \in Nat
    BY <1>1, RowMajorIs, Area
  <2>4. QED
    BY <2>2, <2>3
<1>6. PICK c \in Positions(w, h), d \in Positions(w, h) : Pair(is_base, w, h, c, d, n)
  <2>1. CASE Place(w, a) < Place(w, b)
    BY <1>1, <1>2, <1>3, <1>4, <2>1, ApartPair
  <2>2. CASE Place(w, b) < Place(w, a)
    <3>1. is_base = Square(b, n) \cup Square(a, n)
      BY <1>2
    <3>2. Pair(Square(b, n) \cup Square(a, n), w, h, b, a, n)
      BY <1>1, <1>2, <1>3, <1>4, <2>2, <3>1, ApartPair
    <3>3. QED
      BY <3>1, <3>2
  <2>3. QED
    BY <1>5, <2>1, <2>2
<1>7. /\ s.verdict = "loaded" /\ s.size = n
      /\ \A t \in Positions(w, h) :
            s.side[t] = IF t \in Square(c, n) THEN 1 ELSE IF t \in Square(d, n) THEN 2 ELSE 0
  <2>1. is_base \in SUBSET Positions(w, h)
    BY <1>4
  <2>2. Sizes(w, h)
    BY <1>1
  <2> HIDE DEF w, h
  <2>3. QED
    BY <1>6, <2>1, <2>2, TwoSquares
<1>8. c \in Square(c, n) /\ d \in Square(d, n) /\ d \notin Square(c, n) /\ c \in is_base /\ d \in is_base
  BY <1>3, <1>6, CornerInSquare DEF Pair
<1>9. loadText(f, h).verdict = "loaded"
  <2>1. ~(w > 0 /\ h < 0) /\ \A u, v : Loaded(w, h, u, v).verdict = "loaded"
    BY <1>1 DEF Loaded
  <2>2. QED
    BY <1>1, <1>7, <2>1, Zenon DEF loadText, is_base
<1>10. /\ Map(m) /\ m.width = w /\ m.height = h /\ m.base_size = s.size
       /\ \A t \in Positions(w, h) :
             m.tiles[t].side = s.side[t] /\ (m.tiles[t].is_base <=> t \in is_base)
  <2>1. h \in Int
    BY <1>1
  <2>2. QED
    BY <1>9, <2>1, TextLoads DEF is_base
<1> HIDE DEF m, s
<1>11. c \in Owned(m.tiles, 1) /\ d \in Owned(m.tiles, 2)
  <2>1. DOMAIN m.tiles = Positions(w, h)
    BY <1>10 DEF Map
  <2>2. QED
    BY <1>7, <1>8, <1>10, <2>1 DEF Owned
<1>13. GoodMap(m)
  <2>1. m.base_size = n
    BY <1>7, <1>10
  <2>2. QED
    BY <1>3, <1>11, <2>1 DEF GoodMap
<1>14. QED
  BY <1>9, <1>13 DEF m

(* A good binary file is loaded, as a map with two bases.                    *)
LEMMA GoodBinaryLoads ==
    ASSUME NEW f \in BinaryFiles, GoodFile(f), f.format = "binary"
    PROVE  loadBinary(f).verdict = "loaded" /\ GoodMap(loadBinary(f).map)
<1> DEFINE w == f.width
           h == f.height
           n == f.base_size
           tiles == UnpackedTiles(f)
           m == loadBinary(f).map
<1>1. /\ w \in Nat /\ h \in Nat /\ n \in Nat /\ f.bytes \in Seq(0 .. 255)
      /\ {w, h} \subseteq 1 .. MaxDimension
      /\ f.prefix = "good" /\ Len(f.bytes) = w * h
      /\ \A i \in DOMAIN f.bytes : ValidTile(unpack(f.bytes[i]))
  BY DEF GoodFile, BinaryFiles
<1>3. /\ Sizes(w, h) /\ DOMAIN tiles = Positions(w, h)
      /\ \A t \in Positions(w, h) : /\ f.bytes[Place(w, t)] \in 0 .. 255
                                    /\ tiles[t] = unpack(f.bytes[Place(w, t)])
  <2>1. Len(f.bytes) >= w * h
    BY <1>1
  <2>2. QED
    BY <2>1, UnpackedIs
<1>4. \A t \in Positions(w, h) : ValidTile(tiles[t])
  <2>1. \A t \in Positions(w, h) : Place(w, t) \in DOMAIN f.bytes
    BY <1>1, <1>3, RowMajorIs
  <2> HIDE DEF tiles
  <2>2. QED
    BY <1>1, <1>3, <2>1
<1>5. tiles \in [Positions(w, h) -> Tile]
  <2>1. \A t \in Positions(w, h) : tiles[t] \in Tile
    BY <1>3, <1>4, UnpackIs
  <2>2. tiles = [t \in Positions(w, h) |-> tiles[t]]
    BY DEF UnpackedTiles
  <2> HIDE DEF tiles
  <2>3. QED
    BY <2>1, <2>2
<1>6. /\ Owned(tiles, 0) = {}
      /\ \A p \in {1, 2} : \E a \in Owned(tiles, p) : Owned(tiles, p) = Square(a, n)
  <2> DEFINE own(p) == {t \in Positions(w, h) :
                          LET tile == unpack(f.bytes[t[2] * w + t[1] + 1])
                          IN  tile.is_base /\ tile.side = p}
  <2>1. \A p : Owned(tiles, p) = own(p)
    <3>1. \A t \in Positions(w, h) : tiles[t] = unpack(f.bytes[t[2] * w + t[1] + 1])
      BY Zenon DEF UnpackedTiles
    <3> HIDE DEF tiles
    <3>2. QED
      BY <1>3, <3>1, Zenon DEF Owned
  <2>2. \A p \in 0 .. 2 : IF p = 0 THEN own(p) = {} ELSE \E a \in own(p) : own(p) = Square(a, n)
    BY Zenon DEF GoodFile
  <2> HIDE DEF tiles, own
  <2>3. QED
    BY <2>1, <2>2
<1> HIDE DEF tiles
<1>2. n >= 1 /\ Signed(n) = n
  <2>1. PICK a \in Owned(tiles, 1) : Owned(tiles, 1) = Square(a, n)
    BY <1>6
  <2>2. a \in Positions(w, h) /\ Square(a, n) \subseteq Positions(w, h) /\ a \in Square(a, n)
    BY <1>3, <2>1 DEF Owned
  <2>3. PICK x \in 0 .. w - 1, y \in 0 .. h - 1 : a = <<x, y>>
    BY <2>2 DEF Positions
  <2>4. x \in x .. x + n - 1
    BY <1>1, <2>2, <2>3, SquareIs
  <2>5. a[1] + n <= w
    BY <1>1, <2>2, SquareOnMap
  <2>6. n >= 1 /\ n <= w
    BY <1>1, <2>3, <2>4, <2>5
  <2>7. w <= MaxDimension /\ 2 * MaxDimension < WordSize /\ MaxDimension \in Nat /\ WordSize \in Nat
    BY <1>1, LimitAssumption
  <2> HIDE DEF w, h, n
  <2>8. 2 * n < WordSize
    BY <1>1, <2>6, <2>7
  <2>9. QED
    BY <1>1, <2>6, <2>8, SignedIs
<1>7. Bases(tiles, n)
  <2>1. \A t \in Positions(w, h) : tiles[t].is_base <=> tiles[t].side # 0
    BY <1>3, <1>4, <1>6 DEF Owned, ValidTile
  <2>2. ASSUME NEW p \in {1, 2}
        PROVE  \E a \in DOMAIN tiles : Owned(tiles, p) = Base(a, n)
    <3>1. PICK a \in Owned(tiles, p) : Owned(tiles, p) = Square(a, n)
      BY <1>6
    <3>2. a \in DOMAIN tiles /\ Owned(tiles, p) = Base(a, n)
      BY <3>1 DEF Owned, Base
    <3>3. QED
      BY <3>2
  <2>3. QED
    BY <1>3, <2>1, <2>2 DEF Bases
<1>8. BinaryScan(tiles, w, h, n)[w * h].verdict = "loaded"
  BY <1>1, <1>3, <1>5, <1>7, BasesPass
<1>9. loadBinary(f).verdict = "loaded"
  <2>1. ~(Len(f.bytes) < w * h) /\ ~(Len(f.bytes) > w * h)
    <3>1. w * h \in Nat
      BY <1>1
    <3>2. QED
      BY <1>1, <3>1
  <2>2. Loaded(w, h, n, tiles).verdict = "loaded"
    BY DEF Loaded
  <2>3. QED
    BY <1>1, <1>2, <1>4, <1>8, <2>1, <2>2, Zenon DEF loadBinary, tiles
<1>10. m.width = w /\ m.height = h /\ m.base_size = n /\ m.tiles = tiles
  BY <1>2, <1>9, BinaryLoads DEF tiles
<1> HIDE DEF m
<1>11. GoodMap(m)
  BY <1>1, <1>2, <1>6, <1>10 DEF GoodMap
<1>12. QED
  BY <1>9, <1>11 DEF m

-----------------------------------------------------------------------------
(* Saving and loading again.                                                 *)

(* A tile is its fields.                                                     *)
LEMMA SameTile ==
    ASSUME NEW u \in Tile, NEW v \in Tile, u.terrain = v.terrain, u.side = v.side,
           u.is_resource = v.is_resource, u.is_base = v.is_base
    PROVE  u = v
  BY DEF Tile

(* A letter stands for the tile it was made from, up to the side.            *)
LEMMA LetterIs ==
    ASSUME NEW tile \in Tile, Lettered(tile)
    PROVE  /\ TextChar(tile) \in DOMAIN TextTile
           /\ TextChar(tile) = "B" <=> tile.is_base
           /\ Sided(TextTile[TextChar(tile)], tile.side) = tile
<1> DEFINE c == TextChar(tile)
<1>1. /\ tile.terrain \in {0, 1, 3} /\ tile.is_resource \in BOOLEAN /\ tile.is_base \in BOOLEAN
      /\ tile.side \in 0 .. 2
  BY DEF Tile, EMPTY, WATER, OBSTACLE
<1>2. /\ tile.is_base => c = "B" /\ tile.terrain = 0 /\ ~tile.is_resource
      /\ ~tile.is_base /\ tile.is_resource => c = "$" /\ tile.terrain = 0
      /\ ~tile.is_base /\ ~tile.is_resource /\ tile.terrain = 0 => c = "."
      /\ ~tile.is_base /\ ~tile.is_resource /\ tile.terrain = 1 => c = "~"
      /\ ~tile.is_base /\ ~tile.is_resource /\ tile.terrain = 3 => c = "#"
  BY <1>1 DEF TextChar, Lettered, EMPTY, WATER, OBSTACLE
<1> HIDE DEF c
<1>3. c \in {"#", ".", "~", "$", "B"} /\ (c = "B" <=> tile.is_base)
  BY <1>1, <1>2
<1>4. /\ TextTile[c].terrain = tile.terrain
      /\ TextTile[c].is_resource = tile.is_resource
      /\ TextTile[c].is_base = tile.is_base
  <2>1. CASE tile.is_base
    BY <1>1, <1>2, <2>1 DEF TextTile, EMPTY, WATER, OBSTACLE
  <2>2. CASE ~tile.is_base /\ tile.is_resource
    BY <1>1, <1>2, <2>2 DEF TextTile, EMPTY, WATER, OBSTACLE
  <2>3. CASE ~tile.is_base /\ ~tile.is_resource
    BY <1>1, <1>2, <2>3 DEF TextTile, EMPTY, WATER, OBSTACLE
  <2>4. QED
    BY <2>1, <2>2, <2>3
<1>5. DOMAIN TextTile = {"#", ".", "~", "$", "B"}
  BY DEF TextTile
<1>6. Sided(TextTile[c], tile.side) \in Tile /\ Sided(TextTile[c], tile.side).side = tile.side
  BY <1>1, <1>3, <1>5, TextTileIs
<1>7. /\ Sided(TextTile[c], tile.side).terrain = TextTile[c].terrain
      /\ Sided(TextTile[c], tile.side).is_resource = TextTile[c].is_resource
      /\ Sided(TextTile[c], tile.side).is_base = TextTile[c].is_base
  BY <1>3 DEF Sided, TextTile
<1>8. Sided(TextTile[c], tile.side) = tile
  BY <1>4, <1>6, <1>7, SameTile
<1>9. c \in DOMAIN TextTile
  BY <1>3, <1>5
<1>10. QED
  BY <1>3, <1>8, <1>9, Zenon DEF c

(* A tile is the same after it has been packed into a byte.                  *)
LEMMA PackIs ==
    ASSUME NEW tile \in Tile
    PROVE  unpack(pack(tile)) = tile /\ pack(tile) \in 0 .. 255
<1>1. /\ tile.terrain \in {0, 1, 3} /\ tile.is_resource \in BOOLEAN /\ tile.is_base \in BOOLEAN
      /\ tile.side \in 0 .. 2
  BY DEF Tile, EMPTY, WATER, OBSTACLE
<1> DEFINE x == tile.terrain
           y == tile.side
           r == IF tile.is_resource THEN 1 ELSE 0
           b == IF tile.is_base THEN 1 ELSE 0
           byte == x + 4 * y + 16 * r + 32 * b
<1>2. x \in {0, 1, 3} /\ y \in {0, 1, 2} /\ r \in {0, 1} /\ b \in {0, 1}
  BY <1>1
<1>3. (tile.is_resource <=> r = 1) /\ (tile.is_base <=> b = 1)
  BY <1>1
<1>4. pack(tile) = byte
  BY <1>1 DEF pack
<1> HIDE DEF x, y, r, b
<1>5. /\ byte \in 0 .. 255 /\ byte % 4 = x /\ (byte \div 4) % 4 = y
      /\ (byte \div 16) % 2 = r /\ (byte \div 32) % 2 = b
  BY <1>2
<1> HIDE DEF byte
<1>6. /\ unpack(byte).terrain = x /\ unpack(byte).side = y
      /\ unpack(byte).is_resource = (r = 1) /\ unpack(byte).is_base = (b = 1)
      /\ unpack(byte) \in Tile
  <2>1. unpack(byte) = [terrain |-> x, side |-> y, is_resource |-> r = 1, is_base |-> b = 1]
    BY <1>5 DEF unpack
  <2> DEFINE p == (r = 1)
             q == (b = 1)
  <2>2. p \in BOOLEAN /\ q \in BOOLEAN
    OBVIOUS
  <2>3. unpack(byte) = [terrain |-> x, side |-> y, is_resource |-> p, is_base |-> q]
    BY <2>1
  <2>4. x \in {EMPTY, WATER, OBSTACLE} /\ y \in 0 .. 2
    BY <1>2 DEF EMPTY, WATER, OBSTACLE
  <2> HIDE DEF p, q
  <2>5. [terrain |-> x, side |-> y, is_resource |-> p, is_base |-> q] \in Tile
    BY <2>2, <2>4 DEF Tile
  <2>6. QED
    BY <2>3, <2>5 DEF p, q
<1>7. unpack(byte).is_resource = tile.is_resource /\ unpack(byte).is_base = tile.is_base
  BY <1>1, <1>3, <1>6
<1>8. unpack(byte) = tile
  BY <1>6, <1>7, SameTile DEF x, y
<1>9. QED
  BY <1>4, <1>5, <1>8

(* A map that a text file can hold is the same after it has been saved as    *)
(* text and loaded again.                                                    *)
LEMMA TextReload ==
    ASSUME NEW m, Map(m), TextMap(m)
    PROVE  load(saveAsText(m), m.height) = [verdict |-> "loaded", map |-> m]
<1> DEFINE w == m.width
           h == m.height
           f == saveAsText(m)
           letter(t) == TextChar(m.tiles[t])
           rows == [y \in 1 .. h |-> [x \in 1 .. w |-> letter(<<x - 1, y - 1>>)]]
           is_base == {t \in Positions(w, h) : m.tiles[t].is_base}
           s == TextScan(is_base, w, h)[w * h]
<1>1. /\ Sizes(w, h) /\ w \in Nat /\ h \in Int /\ m.tiles \in [Positions(w, h) -> Tile]
      /\ m = [width |-> w, height |-> h, base_size |-> m.base_size, tiles |-> m.tiles]
  BY DEF Map, Sizes
<1>2. /\ s.verdict = "loaded" /\ s.size = m.base_size
      /\ \A t \in Positions(w, h) : m.tiles[t].side = s.side[t] /\ Lettered(m.tiles[t])
  BY DEF TextMap
<1> HIDE DEF s
<1>3. \A t \in Positions(w, h) :
         /\ m.tiles[t] \in Tile
         /\ letter(t) \in DOMAIN TextTile
         /\ letter(t) = "B" <=> t \in is_base
         /\ Sided(TextTile[letter(t)], s.side[t]) = m.tiles[t]
  BY <1>1, <1>2, LetterIs
<1> HIDE DEF letter, is_base
<1>4. /\ f.format = "text" /\ f.first = "good" /\ f.width = w /\ f.height = h /\ f.newline
      /\ f.rows = rows
  BY DEF saveAsText, letter
<1>5. \A x \in 1 .. w, y \in 1 .. h : <<x - 1, y - 1>> \in Positions(w, h)
  BY <1>1 DEF Positions
<1>6. h \in Nat => Len(rows) = h
  OBVIOUS
<1>7. ASSUME NEW y \in 0 .. h - 1 PROVE Line(f, y) = rows[y + 1]
  <2>1. y < Len(f.rows)
    <3>1. h \in Nat
      BY <1>1
    <3>2. QED
      BY <1>4, <1>6, <3>1
  <2> HIDE DEF f, rows
  <2>2. QED
    BY <1>4, <2>1 DEF Line
<1>8. ASSUME NEW t \in Positions(w, h) PROVE Line(f, t[2])[t[1] + 1] = letter(t)
  <2>1. PICK x \in 0 .. w - 1, y \in 0 .. h - 1 : t = <<x, y>>
    BY DEF Positions
  <2>2. x + 1 \in 1 .. w /\ y + 1 \in 1 .. h /\ (x + 1) - 1 = x /\ (y + 1) - 1 = y
    BY <1>1, <2>1
  <2>3. rows[y + 1][x + 1] = letter(<<x, y>>)
    BY <2>2
  <2>4. QED
    BY <1>7, <2>1, <2>3
<1>9. ~BadRows(f, h)
  <2>1. SUFFICES ASSUME NEW y \in 0 .. h - 1
                 PROVE  Len(Line(f, y)) = w /\ Range(Line(f, y)) \subseteq DOMAIN TextTile
    BY <1>4 DEF BadRows
  <2>2. w \in Nat /\ y + 1 \in 1 .. h
    BY <1>1 DEF Sizes
  <2> DEFINE row == [x \in 1 .. w |-> letter(<<x - 1, (y + 1) - 1>>)]
  <2>3. Line(f, y) = row
    BY <1>7, <2>2
  <2>4. \A x \in 1 .. w : letter(<<x - 1, (y + 1) - 1>>) \in DOMAIN TextTile
    BY <1>3, <1>5, <2>2
  <2>5. row \in [1 .. w -> DOMAIN TextTile]
    BY <2>2, <2>4
  <2>6. Len(row) = w
    BY <2>2
  <2> HIDE DEF row
  <2>7. Range(row) \subseteq DOMAIN TextTile
    BY <2>5 DEF Range
  <2>8. QED
    BY <2>3, <2>6, <2>7
<1>10. BaseTiles(f, h) = is_base
  <2>1. BaseTiles(f, h) = {t \in Positions(w, h) : Line(f, t[2])[t[1] + 1] = "B"}
    BY <1>4 DEF BaseTiles
  <2>2. is_base \subseteq Positions(w, h)
    BY DEF is_base
  <2> HIDE DEF f
  <2>3. QED
    BY <1>3, <1>8, <2>1, <2>2
<1> DEFINE tiles == [t \in Positions(w, h) |-> [TextTile[Line(f, t[2])[t[1] + 1]] EXCEPT !.side = s.side[t]]]
<1> HIDE DEF f
<1>11. loadText(f, h) = Loaded(w, h, s.size, tiles)
  <2>1. ~(w > 0 /\ h < 0)
    BY <1>1 DEF Sizes
  <2>2. QED
    BY <1>2, <1>4, <1>9, <1>10, <2>1, Zenon DEF loadText, s
<1>12. tiles = m.tiles
  <2>1. \A t \in Positions(w, h) : tiles[t] = Sided(TextTile[letter(t)], s.side[t])
    BY <1>8, Zenon DEF Sided
  <2>2. \A t \in Positions(w, h) : tiles[t] = m.tiles[t]
    BY <1>3, <2>1
  <2>3. DOMAIN tiles = Positions(w, h) /\ DOMAIN m.tiles = Positions(w, h)
    BY <1>1
  <2>4. tiles = [t \in Positions(w, h) |-> tiles[t]]
    OBVIOUS
  <2> HIDE DEF tiles
  <2>5. QED
    BY <1>1, <2>2, <2>3, <2>4
<1> HIDE DEF tiles
<1>13. load(f, h) = loadText(f, h)
  BY <1>4 DEF load
<1>14. Loaded(w, h, s.size, tiles) = [verdict |-> "loaded", map |-> m]
  BY <1>1, <1>2, <1>12, Zenon DEF Loaded
<1>15. QED
  BY <1>11, <1>13, <1>14 DEF f

(* Every map is the same after it has been saved as binary and loaded again, *)
(* if the sizes are those that the format allows.                            *)
LEMMA BinaryReload ==
    ASSUME NEW m, Map(m), {m.width, m.height} \subseteq 1 .. MaxDimension
    PROVE  load(saveAsBinary(m), 0) = [verdict |-> "loaded", map |-> m]
<1> DEFINE w == m.width
           h == m.height
           n == m.base_size
           f == saveAsBinary(m)
           bytes == [i \in 1 .. w * h |-> pack(m.tiles[RowMajor(w, h)[i]])]
<1>1. /\ Sizes(w, h) /\ n \in pos_t /\ n \in Int /\ m.tiles \in [Positions(w, h) -> Tile]
      /\ Bases(m.tiles, n)
      /\ m = [width |-> w, height |-> h, base_size |-> n, tiles |-> m.tiles]
  BY DEF Map, pos_t
<1>2. w * h \in Nat
  BY <1>1, Area
<1>3. /\ f.format = "binary" /\ f.prefix = "good" /\ f.width = w /\ f.height = h
      /\ f.base_size = n % WordSize /\ f.bytes = bytes
  BY DEF saveAsBinary
<1>4. Len(f.bytes) = w * h
  <2>1. Len(bytes) = w * h
    BY <1>2
  <2>2. QED
    BY <1>3, <2>1, Zenon
<1> HIDE DEF f
<1>5. ASSUME NEW t \in Positions(w, h)
      PROVE  unpack(f.bytes[t[2] * w + t[1] + 1]) = m.tiles[t]
  <2>1. Place(w, t) \in 1 .. w * h /\ RowMajor(w, h)[Place(w, t)] = t
    BY <1>1, RowMajorIs
  <2>2. f.bytes[Place(w, t)] = pack(m.tiles[t])
    BY <1>3, <2>1, Zenon
  <2>3. m.tiles[t] \in Tile
    BY <1>1
  <2>4. unpack(f.bytes[Place(w, t)]) = m.tiles[t]
    BY <2>2, <2>3, PackIs
  <2>5. QED
    BY <2>4, Zenon DEF Place
<1>6. UnpackedTiles(f) = m.tiles
  <2>1. UnpackedTiles(f) = [t \in Positions(w, h) |-> unpack(f.bytes[t[2] * w + t[1] + 1])]
    BY <1>3, Zenon DEF UnpackedTiles
  <2>2. UnpackedTiles(f) = [t \in Positions(w, h) |-> m.tiles[t]]
    BY <1>5, <2>1, Zenon
  <2>3. m.tiles = [t \in Positions(w, h) |-> m.tiles[t]]
    BY <1>1
  <2>4. QED
    BY <2>2, <2>3, Zenon
<1>7. \A t \in Positions(w, h) : ValidTile(m.tiles[t])
  BY <1>1 DEF Bases, ValidTile, Tile
<1>8. BinaryScan(m.tiles, w, h, n)[w * h].verdict = "loaded"
  BY <1>1, BasesPass
<1>9. ~(Len(f.bytes) < w * h) /\ ~(Len(f.bytes) > w * h)
  BY <1>2, <1>4
<1>10. loadBinary(f) = Loaded(w, h, n, m.tiles)
  <2>1. Signed(f.base_size) = n
    BY <1>1, <1>3, SignedIs
  <2>2. QED
    BY <1>3, <1>6, <1>7, <1>8, <1>9, <2>1, Zenon DEF loadBinary
<1>11. load(f, 0) = loadBinary(f)
  BY <1>3 DEF load
<1>12. QED
  BY <1>1, <1>10, <1>11, Zenon DEF Loaded, f

-----------------------------------------------------------------------------
(* The world.                                                                *)

(* A tilemap is not the empty tuple.                                         *)
LEMMA MapNotEmpty ==
    ASSUME NEW m, Map(m)
    PROVE  m # <<>>
<1>1. "tiles" \in DOMAIN m
  BY DEF Map
<1>2. QED
  BY <1>1

(* The constructor finds the corner of a base.                               *)
LEMMA FirstBaseTileIs ==
    ASSUME NEW m, Map(m), NEW p \in {1, 2}, Owned(m.tiles, p) # {}
    PROVE  /\ FirstBaseTile(m, p) \in DOMAIN m.tiles
           /\ Owned(m.tiles, p) = Base(FirstBaseTile(m, p), m.base_size)
<1> DEFINE w == m.width
           h == m.height
           n == m.base_size
           order == ColumnMajor(w, h)
           IsBase(t) == m.tiles[t].is_base /\ m.tiles[t].side = p
           First(i) == IsBase(order[i]) /\ \A j \in 1 .. i - 1 : ~IsBase(order[j])
           i == CHOOSE k \in DOMAIN order : First(k)
<1>1. /\ Sizes(w, h) /\ n \in Int /\ DOMAIN m.tiles = Positions(w, h)
      /\ Bases(m.tiles, n)
  BY DEF Map, pos_t
<1>2. PICK a \in Positions(w, h) : Owned(m.tiles, p) = Base(a, n)
  BY <1>1 DEF Bases
<1>3. \A t \in Positions(w, h) : IsBase(t) <=> t \in Base(a, n)
  BY <1>1, <1>2 DEF Owned
<1>4. Base(a, n) \subseteq Positions(w, h) /\ a \in Base(a, n)
  BY <1>1, <1>2 DEF Owned, Base
<1>5. \A t \in Base(a, n) : ColumnPlace(h, a) <= ColumnPlace(h, t)
  <2>1. ASSUME NEW t \in Base(a, n) PROVE ColumnPlace(h, a) <= ColumnPlace(h, t)
    <3>1. t \in Positions(w, h)
      BY <1>4
    <3>2. CASE t = a
      <4>1. ColumnPlace(h, a) \in 1 .. w * h /\ w * h \in Nat
        BY <1>1, ColumnMajorIs, Area
      <4>2. QED
        BY <3>2, <4>1
    <3>3. CASE t \in Square(a, n)
      <4>1. n \in Int
        BY <1>1
      <4>2. QED
        BY <1>1, <3>1, <3>3, <4>1, CornerFirst
    <3>4. QED
      BY <3>2, <3>3 DEF Base
  <2>2. QED
    BY <2>1
<1>6. /\ DOMAIN order = 1 .. w * h /\ w * h \in Nat
      /\ \A k \in 1 .. w * h : order[k] \in Positions(w, h) /\ ColumnPlace(h, order[k]) = k
      /\ ColumnPlace(h, a) \in 1 .. w * h /\ order[ColumnPlace(h, a)] = a
  BY <1>1, ColumnMajorIs, Area
<1> HIDE DEF order, IsBase
<1>7. First(ColumnPlace(h, a))
  <2>1. IsBase(order[ColumnPlace(h, a)])
    BY <1>3, <1>4, <1>6
  <2>2. ASSUME NEW j \in 1 .. ColumnPlace(h, a) - 1, IsBase(order[j]) PROVE FALSE
    <3>1. j \in 1 .. w * h
      BY <1>6
    <3>2. order[j] \in Base(a, n) /\ ColumnPlace(h, order[j]) = j
      BY <1>3, <1>6, <2>2, <3>1
    <3>3. ColumnPlace(h, a) <= j
      BY <1>5, <3>2
    <3>4. QED
      BY <1>6, <3>1, <3>3
  <2>3. QED
    BY <2>1, <2>2
<1>8. i \in 1 .. w * h /\ First(i)
  <2> HIDE DEF First
  <2>1. QED
    BY <1>6, <1>7
<1> HIDE DEF i
<1>9. order[i] = a
  <2>1. order[i] \in Base(a, n) /\ ColumnPlace(h, order[i]) = i
    BY <1>3, <1>6, <1>8
  <2>2. ColumnPlace(h, a) <= i
    BY <1>5, <2>1
  <2>3. ~(ColumnPlace(h, a) < i)
    <3>1. SUFFICES ASSUME ColumnPlace(h, a) < i PROVE FALSE
      OBVIOUS
    <3>2. ColumnPlace(h, a) \in 1 .. i - 1
      BY <1>6, <1>8, <3>1
    <3>3. ~IsBase(order[ColumnPlace(h, a)])
      BY <1>8, <3>2
    <3>4. QED
      BY <1>3, <1>4, <1>6, <3>3
  <2>4. ColumnPlace(h, a) = i
    BY <1>6, <1>8, <2>2, <2>3
  <2>5. QED
    BY <1>6, <2>4
<1>10. FirstBaseTile(m, p) = order[i]
  BY Zenon DEF FirstBaseTile, order, i, IsBase
<1>11. QED
  BY <1>1, <1>2, <1>9, <1>10

(* The number of tiles of a square.                                          *)
LEMMA SquareSize ==
    ASSUME NEW x \in Int, NEW y \in Int, NEW n \in Nat
    PROVE  IsFiniteSet(Square(<<x, y>>, n)) /\ Cardinality(Square(<<x, y>>, n)) = n * n
<1>1. /\ IsFiniteSet(x .. x + n - 1) /\ Cardinality(x .. x + n - 1) = n
      /\ IsFiniteSet(y .. y + n - 1) /\ Cardinality(y .. y + n - 1) = n
  <2>1. /\ x + n - 1 \in Int /\ y + n - 1 \in Int
        /\ (x + n - 1) - x + 1 = n /\ (y + n - 1) - y + 1 = n
        /\ (x > x + n - 1 <=> n = 0) /\ (y > y + n - 1 <=> n = 0)
    OBVIOUS
  <2>2. /\ IsFiniteSet(x .. x + n - 1)
        /\ Cardinality(x .. x + n - 1) = IF x > x + n - 1 THEN 0 ELSE (x + n - 1) - x + 1
    BY <2>1, FS_Interval
  <2>3. /\ IsFiniteSet(y .. y + n - 1)
        /\ Cardinality(y .. y + n - 1) = IF y > y + n - 1 THEN 0 ELSE (y + n - 1) - y + 1
    BY <2>1, FS_Interval
  <2>4. QED
    BY <2>1, <2>2, <2>3
<1>2. Square(<<x, y>>, n) = (x .. x + n - 1) \X (y .. y + n - 1)
  BY DEF Square
<1>3. QED
  BY <1>1, <1>2, FS_Product

(* A base has room for one more unit as long as not all have been spawned.   *)
LEMMA Room ==
    ASSUME NEW w, NEW h, NEW a \in Positions(w, h), NEW n \in Nat, n >= MinBase,
           NEW U, IsFiniteSet(U), Cardinality(U) < UnitsAtStart
    PROVE  Square(a, n) \ U # {}
<1>1. PICK x \in Int, y \in Int : a = <<x, y>>
  BY DEF Positions
<1>2. IsFiniteSet(Square(a, n)) /\ Cardinality(Square(a, n)) = n * n
  BY <1>1, SquareSize
<1>3. MinBase \in Nat /\ UnitsAtStart \in Nat /\ UnitsAtStart <= MinBase * MinBase
  BY LimitAssumption, WidthAssumption
<1>4. MinBase * MinBase <= n * n
  <2>1. (n - MinBase) \in Nat /\ (n - MinBase) * (n + MinBase) \in Nat
    BY <1>3
  <2>2. (n - MinBase) * (n + MinBase) = n * n - MinBase * MinBase
    BY <1>3
  <2>3. n * n \in Nat /\ MinBase * MinBase \in Nat
    BY <1>3
  <2>4. QED
    BY <2>1, <2>2, <2>3
<1>5. SUFFICES ASSUME Square(a, n) \subseteq U PROVE FALSE
  OBVIOUS
<1>6. Cardinality(Square(a, n)) <= Cardinality(U)
  BY <1>5, FS_Subset
<1>7. Cardinality(U) \in Nat /\ n * n \in Nat /\ MinBase * MinBase \in Nat
  BY <1>3, FS_CardinalityType
<1>8. QED
  BY <1>2, <1>3, <1>4, <1>6, <1>7

(* The fields of GameRules.                                                  *)
LEMMA StoredIs ==
    ASSUME NEW r, NEW m
    PROVE  /\ \A rule \in Rules : Stored(r, m)[rule] = r[rule] % (Limit(rule) + 1)
           /\ Stored(r, m)["width"] = m.width % ByteSize
           /\ Stored(r, m)["height"] = m.height % ByteSize
           /\ Stored(r, m)["base_size"] = m.base_size % ByteSize
<1> DEFINE sizes == [width |-> m.width, height |-> m.height, base_size |-> m.base_size]
<1>1. Stored(r, m) = [rule \in Rules \cup DOMAIN sizes |->
                        IF rule \in Rules THEN r[rule] % (Limit(rule) + 1)
                        ELSE sizes[rule] % ByteSize]
  BY Zenon DEF Stored
<1>2. DOMAIN sizes = {"width", "height", "base_size"}
  OBVIOUS
<1>3. sizes["width"] = m.width /\ sizes["height"] = m.height /\ sizes["base_size"] = m.base_size
  OBVIOUS
<1>4. "width" \notin Rules /\ "height" \notin Rules /\ "base_size" \notin Rules
  BY DEF Rules, ByteRules, WordRules
<1> HIDE DEF sizes
<1>5. QED
  BY <1>1, <1>2, <1>3, <1>4

(* Everything that a file can do to load.                                    *)
LEMMA LoadIs ==
    ASSUME NEW f \in TextFiles \cup BinaryFiles, NEW h \in Int,
           f.format = "text" => h \in Heights(f)
    PROVE  LET r == load(f, h) IN
           \/ r.verdict \in {"refused", "aborted", "undefined"} /\ ~GoodFile(f)
           \/ /\ r.verdict = "loaded" /\ Map(r.map)
              /\ f.format = "text" => TextMap(r.map)
              /\ GoodFile(f) => GoodMap(r.map)
<1>1. CASE f \in TextFiles
  <2> DEFINE w == f.width
             s == TextScan(BaseTiles(f, h), w, h)[w * h]
             r == loadText(f, h)
  <2>1. f.format = "text" /\ load(f, h) = r
    BY <1>1 DEF TextFiles, load
  <2>2. r.verdict \in {"refused", "aborted", "undefined", "loaded"}
    <3>1. CASE (w > 0 /\ h < 0) \/ BadRows(f, h)
      BY <3>1 DEF loadText, Refused
    <3>2. CASE ~(w > 0 /\ h < 0) /\ ~BadRows(f, h)
      <4>1. f.width = 0 \/ h \in Nat
        BY <1>1, <3>2 DEF TextFiles
      <4>2. Sizes(w, h) /\ BaseTiles(f, h) \in SUBSET Positions(w, h)
        BY <1>1, <3>2, <4>1, GoodRows DEF BaseTiles
      <4>3. s \in TextState(w, h)
        BY <4>2, TextScanInv
      <4>4. s.verdict \in {"loaded", "refused", "aborted"}
        BY <4>3 DEF TextState
      <4>5. CASE s.verdict = "loaded"
        <5>1. \A u, v : Loaded(w, h, u, v).verdict = "loaded"
          BY DEF Loaded
        <5>2. r.verdict = "loaded"
          BY <3>2, <4>5, <5>1, Zenon DEF loadText
        <5>3. QED
          BY <5>2
      <4>6. CASE s.verdict # "loaded"
        <5>1. r = [verdict |-> s.verdict]
          BY <3>2, <4>6, Zenon DEF loadText
        <5> HIDE DEF s, r
        <5>2. r.verdict = s.verdict
          BY <5>1
        <5>3. QED
          BY <4>4, <5>2
      <4>7. QED
        BY <4>5, <4>6
    <3>3. QED
      BY <3>1, <3>2
  <2>3. GoodFile(f) => r.verdict = "loaded" /\ GoodMap(r.map)
    <3>1. GoodFile(f) => h = f.height
      BY <2>1 DEF GoodFile, Heights
    <3>2. QED
      BY <1>1, <2>1, <3>1, GoodTextLoads
  <2>4. r.verdict = "loaded" => Map(r.map) /\ TextMap(r.map)
    BY <1>1, TextLoads
  <2> HIDE DEF r
  <2>5. QED
    BY <2>1, <2>2, <2>3, <2>4
<1>2. CASE f \in BinaryFiles
  <2> DEFINE w == f.width
             g == f.height
             n == Signed(f.base_size)
             tiles == UnpackedTiles(f)
             s == BinaryScan(tiles, w, g, n)[w * g]
             r == loadBinary(f)
  <2>1. f.format = "binary" /\ load(f, h) = r
    BY <1>2 DEF BinaryFiles, load
  <2>2. r.verdict \in {"refused", "aborted", "undefined", "loaded"}
    <3>1. CASE \/ f.prefix # "good" \/ ~({w, g} \subseteq 1 .. MaxDimension)
               \/ Len(f.bytes) < w * g \/ \E t \in Positions(w, g) : ~ValidTile(tiles[t])
      <4>1. r = Refused
        BY <3>1, Zenon DEF loadBinary
      <4>2. QED
        BY <4>1 DEF Refused
    <3>2. CASE ~(\/ f.prefix # "good" \/ ~({w, g} \subseteq 1 .. MaxDimension)
                 \/ Len(f.bytes) < w * g \/ \E t \in Positions(w, g) : ~ValidTile(tiles[t]))
      <4>1. w \in Nat /\ g \in Nat /\ n \in Int /\ w * g \in Nat /\ Len(f.bytes) \in Nat
        <5>1. w \in Nat /\ g \in Nat /\ f.base_size \in 0 .. WordSize - 1 /\ f.bytes \in Seq(0 .. 255)
          BY <1>2 DEF BinaryFiles
        <5>2. n \in pos_t
          BY <5>1, SignedIs
        <5> HIDE DEF n, w, g
        <5>3. QED
          BY <5>1, <5>2 DEF pos_t
      <4>2. Len(f.bytes) >= w * g
        BY <3>2, <4>1
      <4>3. /\ Sizes(w, g) /\ DOMAIN tiles = Positions(w, g)
            /\ \A t \in Positions(w, g) : \E byte \in 0 .. 255 : tiles[t] = unpack(byte)
        BY <1>2, <4>2, UnpackedIs
      <4>4. tiles \in [Positions(w, g) -> Tile]
        <5>1. \A t \in Positions(w, g) : tiles[t] \in Tile
          BY <3>2, <4>3, UnpackIs
        <5>2. tiles = [t \in Positions(w, g) |-> tiles[t]]
          BY DEF UnpackedTiles
        <5> HIDE DEF tiles
        <5>3. QED
          BY <5>1, <5>2
      <4>5. s.verdict \in {"loaded", "refused", "undefined"}
        <5>1. \A t \in Positions(w, g) : ~tiles[t].is_base => tiles[t].side = 0
          BY <3>2 DEF ValidTile
        <5> HIDE DEF tiles
        <5>2. s \in BinaryState(w, g)
          BY <4>1, <4>3, <4>4, <5>1, BinaryScanInv
        <5>3. QED
          BY <5>2 DEF BinaryState
      <4>6. r = [verdict |-> s.verdict] \/ r = Refused \/ r = Loaded(w, g, n, tiles)
        BY <3>2, Zenon DEF loadBinary
      <4> HIDE DEF s, r
      <4>7. QED
        BY <4>5, <4>6 DEF Refused, Loaded
    <3>3. QED
      BY <3>1, <3>2
  <2>3. GoodFile(f) => r.verdict = "loaded" /\ GoodMap(r.map)
    BY <1>2, <2>1, GoodBinaryLoads
  <2>4. r.verdict = "loaded" => Map(r.map)
    BY <1>2, BinaryLoads
  <2> HIDE DEF r
  <2>5. QED
    BY <2>1, <2>2, <2>3, <2>4
<1>3. QED
  BY <1>1, <1>2

-----------------------------------------------------------------------------
(* The invariant of the set-up.                                              *)

\* A map that can come from the options.
MapFor(m) ==
    /\ Map(m)
    /\ ~has("map") => /\ TextMap(m) /\ GoodMap(m) /\ ByteMap(m)
                      /\ m.width = options.size.width /\ m.height = options.size.height
                      /\ m.base_size = options.size.base_size
    /\ has("map") => /\ options.file.format = "text" => TextMap(m)
                     /\ GoodFile(options.file) => GoodMap(m)

MapInv == MapFor(map)

\* The corners that the constructor has found.  A base size that passes its check
\* may be negative, of bases of one tile; then no unit can be spawned.
Seated ==
    /\ base \in [Players -> DOMAIN map.tiles]
    /\ \A p \in Players : Owned(map.tiles, p) = Base(base[p], map.base_size)
    /\ map.base_size < 0 \/ map.base_size >= MinBase
    /\ rules = Stored(options.rules, map)

UnitInv ==
    /\ units \in [Players -> SUBSET DOMAIN map.tiles]
    /\ \A p \in Players : /\ units[p] \subseteq Square(base[p], map.base_size)
                          /\ IsFiniteSet(units[p]) /\ Cardinality(units[p]) <= UnitsAtStart

\* The judge that the command line asks for.
AskedJudge == IF has("dynamic_draw") THEN "dynamic"
              ELSE IF has("max_ticks") THEN "max_ticks" ELSE "noop"

SetupInv ==
    /\ options \in Inputs
    /\ pc \in {"parse", "map", "world", "spawn", "programs"} \cup Ends
    /\ judge \in {"none", "dynamic", "max_ticks", "noop"}
    /\ pc \notin {"parse", "refused"} => ~Rejected
    /\ map = <<>> \/ MapInv
    /\ base = <<>> \/ (MapInv /\ Seated)
    /\ pc \in {"parse", "map"} => map = <<>>
    /\ pc \in {"parse", "map", "world"} => base = <<>> /\ units = [p \in Players |-> {}]
    /\ pc \in {"world", "spawn", "programs", "running"} => MapInv
    /\ pc \in {"spawn", "programs", "running"} => Seated /\ UnitInv
    /\ pc \in {"programs", "running"} =>
          /\ map.base_size >= MinBase
          /\ \A p \in Players : Cardinality(units[p]) = UnitsAtStart
    /\ pc = "running" => judge = AskedJudge
    /\ LegalMapsLoad

(* The remainder of a number.                                                *)
LEMMA RemainderIs ==
    ASSUME NEW x \in Int, NEW d \in Nat \ {0}
    PROVE  /\ x \in 0 .. d - 1 => x % d = x
           /\ x \in Nat => x % d <= x /\ x % d \in 0 .. d - 1
<1>1. ASSUME x \in 0 .. d - 1 PROVE x % d = x
  <2>1. x = 0 * d + x
    BY <1>1
  <2>2. (0 * d + x) % d = x
    BY <1>1
  <2>3. QED
    BY <2>1, <2>2
<1>2. ASSUME x \in Nat PROVE x % d <= x /\ x % d \in 0 .. d - 1
  <2>1. PICK q \in Nat, r \in 0 .. d - 1 : q = x \div d /\ r = x % d /\ x = q * d + r
    BY <1>2, DivisionIs
  <2>2. q * d \in Nat
    OBVIOUS
  <2>3. QED
    BY <2>1, <2>2
<1>3. QED
  BY <1>1, <1>2

(* The rules of a command line that has been accepted are stored as they are. *)
LEMMA RulesKept ==
    ASSUME options \in Inputs, ~Rejected, NEW m
    PROVE  /\ \A rule \in Rules : /\ Stored(options.rules, m)[rule] = options.rules[rule]
                                  /\ options.rules[rule] \in 1 .. Limit(rule)
           /\ Ordered(options.rules) /\ Ordered(Stored(options.rules, m))
<1>1. RulesInRange
  BY DEF Rejected
<1>2. ASSUME NEW rule \in Rules
      PROVE  /\ Stored(options.rules, m)[rule] = options.rules[rule]
             /\ options.rules[rule] \in 1 .. Limit(rule)
  <2>1. options.rules[rule] \in 1 .. Limit(rule)
    BY <1>1 DEF RulesInRange
  <2>2. Limit(rule) + 1 \in Nat \ {0} /\ Limit(rule) \in Int
    BY WidthAssumption, LimitAssumption DEF Limit
  <2>3. options.rules[rule] \in Int /\ options.rules[rule] \in 0 .. (Limit(rule) + 1) - 1
    BY <2>1, <2>2
  <2>4. options.rules[rule] % (Limit(rule) + 1) = options.rules[rule]
    BY <2>2, <2>3, RemainderIs
  <2>5. QED
    BY <2>1, <2>4, StoredIs
<1>3. Ordered(options.rules)
  BY <1>1 DEF RulesInRange
<1>4. Ordered(Stored(options.rules, m))
  BY <1>2, <1>3 DEF Ordered, Rules, ByteRules, WordRules
<1>5. QED
  BY <1>2, <1>3, <1>4

(* The sizes of a map are those of its GameRules when they fit a byte.       *)
LEMMA ByteMapFits ==
    ASSUME NEW m, ByteMap(m)
    PROVE  SizesFit(m)
<1>1. /\ m.width \in MinSize .. ByteSize - 1 /\ m.height \in MinSize .. ByteSize - 1
      /\ m.base_size \in MinBase .. MaxBase
  BY DEF ByteMap
<1>2. /\ ByteSize \in Nat \ {0} /\ MinSize \in Nat /\ MinBase \in Nat /\ MaxBase \in Nat /\ MaxBase < ByteSize
  BY WidthAssumption, LimitAssumption
<1>3. /\ m.width \in 0 .. ByteSize - 1 /\ m.height \in 0 .. ByteSize - 1
      /\ m.base_size \in 0 .. ByteSize - 1
      /\ m.width \in Int /\ m.height \in Int /\ m.base_size \in Int
  BY <1>1, <1>2
<1>4. /\ m.width % ByteSize = m.width /\ m.height % ByteSize = m.height
      /\ m.base_size % ByteSize = m.base_size
  BY <1>2, <1>3, RemainderIs
<1>5. QED
  BY <1>1, <1>4 DEF SizesFit

(* World accepts a map with two bases whose sizes pass its check.            *)
LEMMA GoodMapValid ==
    ASSUME options \in Inputs, ~Rejected, NEW m, GoodMap(m), SizesFit(m)
    PROVE  validate(Stored(options.rules, m)) /\ \A p \in Players : HasBase(m, p)
<1> DEFINE r == Stored(options.rules, m)
<1>1. /\ r["width"] = m.width % ByteSize /\ r["height"] = m.height % ByteSize
      /\ r["base_size"] = m.base_size % ByteSize
  BY StoredIs
<1>5. /\ \A rule \in Rules : r[rule] \in 1 .. Limit(rule)
      /\ Ordered(r)
  BY RulesKept
<1> HIDE DEF r
<1>6. validate(r)
  BY <1>1, <1>5 DEF validate, SizesFit
<1>7. \A p \in Players : HasBase(m, p)
  BY DEF GoodMap, HasBase, Owned, Players
<1>8. QED
  BY <1>6, <1>7 DEF r

(* The invariant holds at the start.                                         *)
LEMMA SetupInit == Init => SetupInv
<1> SUFFICES ASSUME Init PROVE SetupInv
  OBVIOUS
<1> USE DEF Init
<1>1. LegalMapsLoad
  BY DEF LegalMapsLoad
<1>2. QED
  BY <1>1 DEF SetupInv, Ends

(* The options never change, nor what is read from them.                     *)
LEMMA SameOptions ==
    ASSUME options' = options
    PROVE  /\ (\A flag : has(flag)' = has(flag)) /\ (Rejected' = Rejected)
           /\ (AskedJudge' = AskedJudge)
  BY DEF has, Rejected, Conflict, RulesInRange, SizeInRange, AskedJudge

(* One lemma per action: it preserves the invariant.                         *)

(* parseOptions changes no map: it only ends the program or goes on.         *)
LEMMA ParseStep == SetupInv /\ parseOptions => SetupInv'
<1> SUFFICES ASSUME SetupInv, parseOptions PROVE SetupInv'
  OBVIOUS
<1>1. /\ options \in Inputs /\ pc = "parse" /\ map = <<>> /\ base = <<>>
      /\ units = [p \in Players |-> {}] /\ judge \in {"none", "dynamic", "max_ticks", "noop"}
  BY DEF parseOptions, SetupInv
<1>2. /\ pc' = IF Rejected THEN "refused" ELSE IF has("play_replay") THEN "playback" ELSE "map"
      /\ options' = options /\ map' = map /\ base' = base /\ units' = units /\ judge' = judge
  BY DEF parseOptions
<1>3. (\A flag : has(flag)' = has(flag)) /\ (Rejected' = Rejected)
  BY <1>2, SameOptions
<1>4. pc' \in {"refused", "playback", "map"} /\ (pc' # "refused" => ~Rejected) /\ (pc' = "refused" => Rejected)
  BY <1>2
<1>5. LegalMapsLoad'
  BY <1>3, <1>4 DEF LegalMapsLoad
<1>6. QED
  BY <1>1, <1>2, <1>3, <1>4, <1>5 DEF SetupInv, Ends

(* The map is taken over, or the program ends.                               *)
LEMMA AcceptStep ==
    ASSUME SetupInv, pc = "map", NEW r, Accept(r), UNCHANGED <<options, rules, base, units, judge>>,
           \/ r.verdict \in {"refused", "aborted", "undefined"} /\ has("map") /\ ~GoodFile(options.file)
           \/ r.verdict = "refused" /\ ~has("map")
           \/ r.verdict = "loaded" /\ MapFor(r.map)
    PROVE  SetupInv'
<1>1. /\ options \in Inputs /\ map = <<>> /\ base = <<>> /\ ~Rejected
      /\ units = [p \in Players |-> {}] /\ judge \in {"none", "dynamic", "max_ticks", "noop"}
  BY DEF SetupInv
<1>2. (\A flag : has(flag)' = has(flag)) /\ (Rejected' = Rejected)
  BY SameOptions
<1>3. CASE r.verdict = "loaded"
  <2>1. map' = r.map /\ pc' = "world"
    BY <1>3 DEF Accept
  <2>2. MapFor(r.map)
    BY <1>3
  <2>3. MapInv'
    BY <1>2, <2>1, <2>2 DEF MapInv, MapFor
  <2>4. LegalMapsLoad'
    BY <2>1 DEF LegalMapsLoad
  <2>5. QED
    BY <1>1, <1>2, <2>1, <2>3, <2>4 DEF SetupInv
<1>4. CASE r.verdict # "loaded"
  <2>1. map' = <<>> /\ pc' = r.verdict
    BY <1>1, <1>4 DEF Accept
  <2>2. LegalMapsLoad'
    BY <1>2, <1>4, <2>1 DEF LegalMapsLoad
  <2>3. pc' \in {"refused", "aborted", "undefined"}
    BY <1>4, <2>1
  <2>4. QED
    BY <1>1, <1>2, <2>1, <2>2, <2>3 DEF SetupInv, Ends
<1>5. QED
  BY <1>3, <1>4

(* loadTilemap gives the world a proper map, or the file was not a good one. *)
LEMMA LoadStep == SetupInv /\ loadTilemap => SetupInv'
<1> SUFFICES ASSUME SetupInv, loadTilemap PROVE SetupInv'
  OBVIOUS
<1> DEFINE f == options.file
<1>1. /\ pc = "map" /\ has("map") /\ UNCHANGED <<options, rules, base, units, judge>>
      /\ options \in Inputs
  BY DEF loadTilemap, SetupInv
<1>2. options \in Input
  BY <1>1, InputAssumption
<1>3. f \in [format : {"unreadable", "empty"}] \cup TextFiles \cup BinaryFiles
  BY <1>2 DEF Input
<1>4. PICK r : /\ Accept(r)
               /\ \/ r = Refused /\ f.format = "unreadable"
                  \/ r = load(f, 0) /\ f.format \notin {"unreadable", "text"}
                  \/ f.format = "text" /\ \E h \in Heights(f) : r = load(f, h)
  BY Zenon DEF loadTilemap
<1>5. CASE f.format \in {"unreadable", "empty"}
  <2>1. r = Refused
    BY <1>4, <1>5 DEF load
  <2>2. r.verdict = "refused" /\ ~GoodFile(f)
    BY <1>5, <2>1 DEF Refused, GoodFile
  <2> HIDE DEF f
  <2>3. QED
    BY <1>1, <1>4, <2>2, AcceptStep DEF f
<1>6. CASE f.format \notin {"unreadable", "empty"}
  <2>1. f \in TextFiles \cup BinaryFiles
    BY <1>3, <1>6
  <2>2. PICK h \in Int : r = load(f, h) /\ (f.format = "text" => h \in Heights(f))
    <3>1. CASE f.format = "text"
      <4>1. PICK h \in Heights(f) : r = load(f, h)
        BY <1>4, <3>1
      <4>2. f \in TextFiles
        BY <2>1, <3>1 DEF BinaryFiles
      <4>3. h \in Int
        BY <4>1, <4>2 DEF TextFiles, Heights, pos_t
      <4>4. QED
        BY <4>1, <4>3
    <3>2. CASE f.format # "text"
      BY <1>4, <1>6, <3>2
    <3>3. QED
      BY <3>1, <3>2
  <2>3. \/ r.verdict \in {"refused", "aborted", "undefined"} /\ ~GoodFile(f)
        \/ /\ r.verdict = "loaded" /\ Map(r.map)
           /\ f.format = "text" => TextMap(r.map)
           /\ GoodFile(f) => GoodMap(r.map)
    <3> HIDE DEF f
    <3>1. QED
      BY <2>1, <2>2, LoadIs
  <2>4. CASE r.verdict = "loaded"
    <3>1. MapFor(r.map)
      BY <1>1, <2>3, <2>4 DEF MapFor
    <3>2. QED
      BY <1>1, <1>4, <2>4, <3>1, AcceptStep
  <2>5. CASE r.verdict # "loaded"
    <3>1. r.verdict \in {"refused", "aborted", "undefined"} /\ ~GoodFile(options.file)
      BY <2>3, <2>5
    <3>2. QED
      BY <1>1, <1>4, <3>1, AcceptStep
  <2>6. QED
    BY <2>4, <2>5
<1>7. QED
  BY <1>5, <1>6

(* generateTilemap gives the world a map of the size asked for.              *)
LEMMA GenerateStep == SetupInv /\ generateTilemap => SetupInv'
<1> SUFFICES ASSUME SetupInv, generateTilemap PROVE SetupInv'
  OBVIOUS
<1> DEFINE c == options.size
           attempts == c.num_resources * AttemptsPerCluster
<1>1. /\ pc = "map" /\ ~has("map") /\ UNCHANGED <<options, rules, base, units, judge>>
      /\ options \in Inputs
  BY DEF generateTilemap, SetupInv
<1>2. options \in Input
  BY <1>1, InputAssumption
<1>3. c \in SizeInput
  BY <1>2 DEF Input, SizeInput
<1>4. /\ Terrains(c.width, c.height)
            \subseteq [Positions(c.width, c.height) -> {EMPTY, WATER, OBSTACLE}]
      /\ Spots(c.width, c.height, attempts) \subseteq Seq(Int \X Int)
  BY <1>1, NoiseAssumption
<1>5. PICK terrain \in Terrains(c.width, c.height), spots \in Spots(c.width, c.height, attempts) :
         Accept(generate(c, terrain, spots))
  BY Zenon DEF generateTilemap
<1>6. /\ terrain \in [Positions(c.width, c.height) -> {EMPTY, WATER, OBSTACLE}]
      /\ spots \in Seq(Int \X Int)
  BY <1>4, <1>5
<1> DEFINE r == generate(c, terrain, spots)
<1> HIDE DEF c
<1>7. \/ r = Refused
      \/ /\ r.verdict = "loaded" /\ Map(r.map) /\ TextMap(r.map) /\ GoodMap(r.map) /\ ByteMap(r.map)
         /\ r.map.width = c.width /\ r.map.height = c.height /\ r.map.base_size = c.base_size
  BY <1>3, <1>6, Generates
<1> HIDE DEF r
<1>8. CASE r = Refused
  <2>1. r.verdict = "refused"
    BY <1>8 DEF Refused
  <2>2. QED
    BY <1>1, <1>5, <2>1, AcceptStep DEF r
<1>9. CASE r # Refused
  <2>1. r.verdict = "loaded" /\ MapFor(r.map)
    BY <1>1, <1>7, <1>9 DEF MapFor, c
  <2>2. QED
    BY <1>1, <1>5, <2>1, AcceptStep DEF r
<1>10. QED
  BY <1>8, <1>9

(* The corners that the constructor finds.                                   *)
LEMMA CornersFound ==
    ASSUME NEW m, Map(m), NEW r, validate(Stored(r, m)), \A p \in Players : HasBase(m, p)
    PROVE  /\ [p \in Players |-> FirstBaseTile(m, p)] \in [Players -> DOMAIN m.tiles]
           /\ \A p \in Players : Owned(m.tiles, p) = Base(FirstBaseTile(m, p), m.base_size)
           /\ m.base_size < 0 \/ m.base_size >= MinBase
<1>1. m.base_size \in Int /\ ByteSize \in Nat \ {0} /\ MinBase \in Nat /\ MaxBase \in Nat
  BY WidthAssumption, LimitAssumption DEF Map, pos_t
<1>2. ASSUME m.base_size >= 0 PROVE m.base_size >= MinBase
  <2>1. m.base_size % ByteSize \in MinBase .. MaxBase
    BY StoredIs DEF validate
  <2>2. m.base_size \in Nat
    BY <1>1, <1>2
  <2>3. m.base_size % ByteSize <= m.base_size
    BY <1>1, <2>2, RemainderIs
  <2>4. QED
    BY <1>1, <2>1, <2>3
<1>3. ASSUME NEW p \in Players
      PROVE  /\ FirstBaseTile(m, p) \in DOMAIN m.tiles
             /\ Owned(m.tiles, p) = Base(FirstBaseTile(m, p), m.base_size)
  <2>1. p \in {1, 2} /\ Owned(m.tiles, p) # {}
    BY DEF Players, HasBase, Owned
  <2>2. QED
    BY <2>1, FirstBaseTileIs
<1>4. m.base_size < 0 \/ m.base_size >= 0
  BY <1>1
<1>5. QED
  BY <1>2, <1>3, <1>4

(* A base of a size that is not negative is the square at its corner.        *)
LEMMA BaseIsSquare ==
    ASSUME Map(map), Seated, map.base_size >= MinBase, NEW p \in Players
    PROVE  /\ map.base_size \in Nat /\ map.base_size >= 1
           /\ base[p] \in Positions(map.width, map.height)
           /\ Square(base[p], map.base_size) = Owned(map.tiles, p)
           /\ Square(base[p], map.base_size) \subseteq DOMAIN map.tiles
<1>1. map.base_size \in Nat /\ map.base_size >= 1
  BY LimitAssumption DEF Map, pos_t
<1>2. base[p] \in Positions(map.width, map.height)
  BY DEF Map, Seated
<1>3. base[p] \in Square(base[p], map.base_size)
  BY <1>1, <1>2, CornerInSquare
<1>4. Square(base[p], map.base_size) = Owned(map.tiles, p)
  BY <1>3 DEF Seated, Base
<1>5. QED
  BY <1>1, <1>2, <1>4 DEF Owned

(* The constructor finds the corners of the two bases.                       *)
LEMMA BuildStep == SetupInv /\ BuildWorld => SetupInv'
<1> SUFFICES ASSUME SetupInv, BuildWorld PROVE SetupInv'
  OBVIOUS
<1> DEFINE bad == ~validate(Stored(options.rules, map)) \/ \E p \in Players : ~HasBase(map, p)
<1>1. /\ options \in Inputs /\ pc = "world" /\ ~Rejected /\ MapInv /\ base = <<>>
      /\ units = [p \in Players |-> {}] /\ judge \in {"none", "dynamic", "max_ticks", "noop"}
  BY DEF BuildWorld, SetupInv
<1>2. /\ rules' = Stored(options.rules, map)
      /\ options' = options /\ map' = map /\ units' = units /\ judge' = judge
      /\ bad => pc' = "aborted" /\ base' = base
      /\ ~bad => pc' = "spawn" /\ base' = [p \in Players |-> FirstBaseTile(map, p)]
  BY DEF BuildWorld
<1>3. (\A flag : has(flag)' = has(flag)) /\ (Rejected' = Rejected) /\ (MapInv' = MapInv)
  BY <1>2, SameOptions DEF MapInv, MapFor
<1>4. Map(map)
  BY <1>1 DEF MapInv, MapFor
<1>5. CASE bad
  <2>1. ~(GoodMap(map) /\ SizesFit(map))
    BY <1>1, <1>5, GoodMapValid
  <2>2. has("map") /\ (GoodFile(options.file) => ~SizesFit(map))
    BY <1>1, <2>1, ByteMapFits DEF MapInv, MapFor
  <2>3. pc' = "aborted" /\ base' = <<>> /\ map # <<>>
    BY <1>1, <1>2, <1>4, <1>5, MapNotEmpty
  <2>4. LegalMapsLoad'
    BY <1>2, <1>3, <2>2, <2>3 DEF LegalMapsLoad, SizesFit
  <2>5. QED
    BY <1>1, <1>2, <1>3, <2>3, <2>4 DEF SetupInv, Ends
<1>6. CASE ~bad
  <2>1. pc' = "spawn" /\ base' = [p \in Players |-> FirstBaseTile(map, p)]
    BY <1>2, <1>6
  <2>2. validate(Stored(options.rules, map)) /\ \A p \in Players : HasBase(map, p)
    BY <1>6
  <2>3. /\ base' \in [Players -> DOMAIN map.tiles]
        /\ \A p \in Players : Owned(map.tiles, p) = Base(FirstBaseTile(map, p), map.base_size)
        /\ map.base_size < 0 \/ map.base_size >= MinBase
    BY <1>4, <2>1, <2>2, CornersFound
  <2>4. Seated'
    <3>1. \A p \in Players : Owned(map'.tiles, p) = Base(base'[p], map'.base_size)
      BY <1>2, <2>1, <2>3
    <3>2. QED
      BY <1>2, <2>3, <3>1 DEF Seated
  <2>5. UnitInv'
    <3>1. IsFiniteSet({}) /\ Cardinality({}) = 0 /\ 0 <= UnitsAtStart
      BY FS_EmptySet, WidthAssumption
    <3>2. QED
      BY <1>1, <1>2, <3>1 DEF UnitInv
  <2>6. LegalMapsLoad'
    BY <2>1 DEF LegalMapsLoad
  <2>7. QED
    BY <1>1, <1>2, <1>3, <2>1, <2>4, <2>5, <2>6 DEF SetupInv
<1>7. QED
  BY <1>5, <1>6

(* There is always a free tile of the base to spawn a unit at.               *)
LEMMA SpawnRoom ==
    ASSUME Map(map), Seated, UnitInv, map.base_size >= MinBase,
           NEW p \in Players, Cardinality(units[p]) < UnitsAtStart
    PROVE  /\ Square(base[p], map.base_size) \subseteq DOMAIN map.tiles
           /\ Square(base[p], map.base_size) \ UNION {units[q] : q \in Players} # {}
<1> DEFINE square == Square(base[p], map.base_size)
<1>1. square = Owned(map.tiles, p) /\ square \subseteq DOMAIN map.tiles
  BY BaseIsSquare
<1>2. base[p] \in Positions(map.width, map.height) /\ map.base_size \in Nat
  BY BaseIsSquare
<1>3. IsFiniteSet(units[p])
  BY DEF UnitInv
<1>4. PICK t \in square : t \notin units[p]
  BY <1>2, <1>3, Room
<1>5. ASSUME NEW q \in Players, t \in units[q] PROVE FALSE
  <2>1. q # p
    BY <1>4, <1>5
  <2>2. t \in Owned(map.tiles, q)
    BY <1>5, BaseIsSquare DEF UnitInv
  <2>3. t \in Owned(map.tiles, p)
    BY <1>1, <1>4
  <2>4. QED
    BY <2>1, <2>2, <2>3 DEF Owned
<1>6. QED
  BY <1>1, <1>4, <1>5

(* A unit is spawned on a free tile of its own base.                         *)
LEMMA SpawnOnFreeTile ==
    ASSUME SetupInv, NEW p \in Players, SpawnUnit(p), map.base_size >= MinBase
    PROVE  SetupInv'
<1> DEFINE square == Square(base[p], map.base_size)
           free == square \ UNION {units[q] : q \in Players}
<1>1. /\ options \in Inputs /\ pc = "spawn" /\ ~Rejected /\ MapInv /\ Seated /\ UnitInv
      /\ judge \in {"none", "dynamic", "max_ticks", "noop"}
      /\ Cardinality(units[p]) < UnitsAtStart /\ (p = 2 => Cardinality(units[1]) = UnitsAtStart)
      /\ options' = options /\ map' = map /\ rules' = rules /\ base' = base /\ judge' = judge
  BY DEF SpawnUnit, SetupInv
<1>2. /\ (\A flag : has(flag)' = has(flag)) /\ (Rejected' = Rejected) /\ (MapInv' = MapInv)
      /\ (Seated' = Seated)
  BY <1>1, SameOptions DEF MapInv, MapFor, Seated
<1>3. Map(map)
  BY <1>1 DEF MapInv, MapFor
<1>4. square \subseteq DOMAIN map.tiles /\ free # {}
  BY <1>1, <1>3, SpawnRoom
<1>5. /\ \E t \in free : units' = [units EXCEPT ![p] = @ \cup {t}]
      /\ pc' = IF p = 2 /\ Cardinality(units'[2]) = UnitsAtStart THEN "programs" ELSE "spawn"
  BY <1>4, Zenon DEF SpawnUnit
<1>6. PICK t \in free : units' = [units EXCEPT ![p] = @ \cup {t}]
  BY <1>5
<1>7. /\ IsFiniteSet(units[p]) /\ t \notin units[p] /\ units[p] \subseteq square
      /\ units \in [Players -> SUBSET DOMAIN map.tiles]
  BY <1>1, <1>6 DEF UnitInv
<1>8. /\ IsFiniteSet(units[p] \cup {t}) /\ Cardinality(units[p] \cup {t}) = Cardinality(units[p]) + 1
      /\ Cardinality(units[p]) \in Nat /\ UnitsAtStart \in Nat
  BY <1>7, FS_AddElement, FS_CardinalityType, WidthAssumption
<1>9. /\ units' \in [Players -> SUBSET DOMAIN map.tiles]
      /\ units'[p] = units[p] \cup {t} /\ \A q \in Players : q # p => units'[q] = units[q]
  <2>1. t \in DOMAIN map.tiles /\ t \in square
    BY <1>4, <1>6
  <2>2. QED
    BY <1>6, <1>7, <2>1
<1>10. UnitInv'
  <2>1. ASSUME NEW q \in Players
        PROVE  /\ units'[q] \subseteq Square(base[q], map.base_size)
               /\ IsFiniteSet(units'[q]) /\ Cardinality(units'[q]) <= UnitsAtStart
    <3>1. CASE q = p
      <4>1. /\ units'[p] \subseteq square /\ IsFiniteSet(units'[p])
            /\ Cardinality(units'[p]) <= UnitsAtStart
        BY <1>1, <1>6, <1>7, <1>8, <1>9
      <4>2. QED
        BY <3>1, <4>1
    <3>2. CASE q # p
      BY <1>1, <1>9, <3>2 DEF UnitInv
    <3>3. QED
      BY <3>1, <3>2
  <2>2. QED
    BY <1>1, <1>9, <2>1 DEF UnitInv
<1>11. pc' = "programs" => \A q \in Players : Cardinality(units'[q]) = UnitsAtStart
  <2>1. SUFFICES ASSUME pc' = "programs" PROVE \A q \in Players : Cardinality(units'[q]) = UnitsAtStart
    OBVIOUS
  <2>2. p = 2 /\ Cardinality(units'[2]) = UnitsAtStart
    BY <1>5, <2>1
  <2>3. units'[1] = units[1] /\ Cardinality(units[1]) = UnitsAtStart
    BY <1>1, <1>9, <2>2 DEF Players
  <2>4. QED
    BY <2>2, <2>3 DEF Players
<1>12. pc' \in {"spawn", "programs"}
  BY <1>5
<1>13. LegalMapsLoad'
  BY <1>12 DEF LegalMapsLoad
<1>14. map'.base_size >= MinBase
  BY <1>1
<1>15. QED
  BY <1>1, <1>2, <1>10, <1>11, <1>12, <1>13, <1>14 DEF SetupInv, Ends

(* A base of negative size has no tile that isInBase finds: the check of     *)
(* _spawnUnitAtBase fires.                                                   *)
LEMMA NoSpawn ==
    ASSUME SetupInv, NEW p \in Players, SpawnUnit(p), map.base_size < 0
    PROVE  SetupInv'
<1> DEFINE square == Square(base[p], map.base_size)
<1>1. /\ options \in Inputs /\ pc = "spawn" /\ ~Rejected /\ MapInv /\ Seated
      /\ judge \in {"none", "dynamic", "max_ticks", "noop"}
      /\ options' = options /\ map' = map /\ rules' = rules /\ base' = base /\ judge' = judge
  BY DEF SpawnUnit, SetupInv
<1>2. /\ (\A flag : has(flag)' = has(flag)) /\ (Rejected' = Rejected) /\ (MapInv' = MapInv)
      /\ (Seated' = Seated)
  BY <1>1, SameOptions DEF MapInv, MapFor, Seated
<1>3. Map(map) /\ map.base_size \in Int
  BY <1>1 DEF MapInv, MapFor, Map, pos_t
<1>4. square = {}
  <2>1. base[p] \in Positions(map.width, map.height)
    BY <1>1, <1>3 DEF Seated, Map
  <2>2. PICK x \in Int, y \in Int : base[p] = <<x, y>>
    BY <2>1 DEF Positions
  <2>3. square = (x .. x + map.base_size - 1) \X (y .. y + map.base_size - 1)
    BY <2>2 DEF Square
  <2>4. x .. x + map.base_size - 1 = {}
    BY <1>3
  <2> HIDE DEF square
  <2>5. QED
    BY <2>3, <2>4
<1>5. pc' = "aborted"
  <2>1. square \ UNION {units[q] : q \in Players} = {}
    BY <1>4
  <2>2. QED
    BY <2>1, Zenon DEF SpawnUnit
<1>6. has("map") /\ ~GoodFile(options.file)
  <2>1. ~(map.base_size >= MinBase) /\ ~(map.base_size >= 1)
    BY <1>3, LimitAssumption
  <2>2. ~GoodMap(map)
    BY <2>1 DEF GoodMap
  <2>3. QED
    BY <1>1, <2>2 DEF MapInv, MapFor
<1>7. LegalMapsLoad'
  BY <1>1, <1>2, <1>5, <1>6 DEF LegalMapsLoad
<1>8. QED
  BY <1>1, <1>2, <1>5, <1>7 DEF SetupInv, Ends

LEMMA SpawnStep == ASSUME NEW p \in Players PROVE SetupInv /\ SpawnUnit(p) => SetupInv'
<1> SUFFICES ASSUME SetupInv, SpawnUnit(p) PROVE SetupInv'
  OBVIOUS
<1>1. map.base_size < 0 \/ map.base_size >= MinBase
  BY DEF SpawnUnit, SetupInv, Seated
<1>2. QED
  BY <1>1, NoSpawn, SpawnOnFreeTile

(* The programs and the judge leave the world as it is.                      *)
LEMMA ProgramsStep == SetupInv /\ LoadPrograms => SetupInv'
<1> SUFFICES ASSUME SetupInv, LoadPrograms PROVE SetupInv'
  OBVIOUS
<1>1. /\ options \in Inputs /\ pc = "programs" /\ ~Rejected /\ MapInv /\ Seated /\ UnitInv
      /\ judge \in {"none", "dynamic", "max_ticks", "noop"}
      /\ map.base_size >= MinBase /\ \A p \in Players : Cardinality(units[p]) = UnitsAtStart
      /\ options' = options /\ map' = map /\ rules' = rules /\ base' = base /\ units' = units
  BY DEF LoadPrograms, SetupInv
<1>2. /\ (\A flag : has(flag)' = has(flag)) /\ (Rejected' = Rejected) /\ (MapInv' = MapInv)
      /\ (AskedJudge' = AskedJudge) /\ (Seated' = Seated) /\ (UnitInv' = UnitInv)
  BY <1>1, SameOptions DEF MapInv, MapFor, Seated, UnitInv
<1>3. \/ pc' = "running" /\ judge' = AskedJudge
      \/ pc' = "refused" /\ judge' = judge
  BY DEF LoadPrograms, AskedJudge
<1>4. AskedJudge \in {"none", "dynamic", "max_ticks", "noop"}
  BY DEF AskedJudge
<1>5. map # <<>>
  BY <1>1, MapNotEmpty DEF MapInv, MapFor
<1>6. LegalMapsLoad'
  BY <1>1, <1>3, <1>5 DEF LegalMapsLoad
<1>7. QED
  BY <1>1, <1>2, <1>3, <1>4, <1>6 DEF SetupInv, Ends

(* So does a step that changes nothing.                                      *)
LEMMA SetupStutter == SetupInv /\ UNCHANGED vars => SetupInv'
<1> SUFFICES ASSUME SetupInv, UNCHANGED vars PROVE SetupInv'
  OBVIOUS
<1>1. /\ options' = options /\ pc' = pc /\ map' = map /\ rules' = rules /\ base' = base
      /\ units' = units /\ judge' = judge
  BY DEF vars
<1>2. /\ (\A flag : has(flag)' = has(flag)) /\ (Rejected' = Rejected) /\ (MapInv' = MapInv)
      /\ (AskedJudge' = AskedJudge) /\ (Seated' = Seated) /\ (UnitInv' = UnitInv)
  BY <1>1, SameOptions DEF MapInv, MapFor, Seated, UnitInv
<1>3. LegalMapsLoad' = LegalMapsLoad
  BY <1>1, <1>2 DEF LegalMapsLoad
<1>4. QED
  BY <1>1, <1>2, <1>3 DEF SetupInv

(* What follows from the invariant.                                          *)

(* The types.                                                                *)
LEMMA SetupTypes == SetupInv => TypeOK
<1> SUFFICES ASSUME SetupInv PROVE TypeOK
  OBVIOUS
<1>1. map # <<>> => map.tiles \in [Positions(map.width, map.height) -> Tile] /\ map.base_size \in pos_t
  BY DEF SetupInv, MapInv, MapFor, Map
<1>2. base # <<>> => base \in [Players -> DOMAIN map.tiles]
  BY DEF SetupInv, Seated
<1>3. QED
  BY <1>1, <1>2 DEF SetupInv, TypeOK

(* The two ways of finding a base agree.                                     *)
LEMMA SetupBases == SetupInv => BasesAgree
<1> SUFFICES ASSUME SetupInv, pc = "running" PROVE BasesAgree
  BY DEF BasesAgree
<1>1. /\ Seated /\ UnitInv /\ \A p \in Players : Cardinality(units[p]) = UnitsAtStart
      /\ Map(map) /\ map.base_size >= MinBase
  BY DEF SetupInv, MapInv, MapFor
<1>2. ASSUME NEW p \in Players, NEW t \in DOMAIN map.tiles
      PROVE  isInBase(t, p) <=> map.tiles[t].is_base /\ map.tiles[t].side = p
  BY <1>1, BaseIsSquare DEF Owned, isInBase
<1>3. ASSUME NEW p \in Players
      PROVE  /\ Square(base[p], map.base_size) \subseteq DOMAIN map.tiles
             /\ Cardinality(units[p]) = UnitsAtStart
             /\ \A t \in units[p] : isInBase(t, p)
  BY <1>1, BaseIsSquare DEF UnitInv, isInBase
<1>4. QED
  BY <1>2, <1>3 DEF BasesAgree

(* What was asked for is what is stored.                                     *)
LEMMA SetupSettings == SetupInv => SettingsAreObeyed
<1> SUFFICES ASSUME SetupInv, pc = "running" PROVE SettingsAreObeyed
  BY DEF SettingsAreObeyed
<1>1. /\ options \in Inputs /\ ~Rejected /\ MapInv /\ Seated /\ judge = AskedJudge
      /\ map.base_size >= MinBase
  BY DEF SetupInv
<1>2. rules = Stored(options.rules, map)
  BY <1>1 DEF Seated
<1>3. \A rule \in Rules : rules[rule] = options.rules[rule]
  BY <1>1, <1>2, RulesKept
<1>4. (judge = "dynamic" <=> has("dynamic_draw")) /\ (judge = "max_ticks" <=> has("max_ticks"))
  <2>1. ~(has("dynamic_draw") /\ has("max_ticks"))
    BY <1>1 DEF Rejected, Conflict
  <2>2. QED
    BY <1>1, <2>1 DEF AskedJudge
<1>5. /\ Map(map) /\ Sizes(map.width, map.height) /\ map.base_size \in Nat
      /\ DOMAIN map.tiles = Positions(map.width, map.height) /\ ByteSize \in Nat \ {0}
      /\ map.width \in Int /\ map.height \in Int
  BY <1>1, WidthAssumption, LimitAssumption DEF MapInv, MapFor, Map, Sizes, pos_t
<1>6. CASE {map.width, map.height} \subseteq 0 .. ByteSize - 1
  <2>1. map.base_size <= map.width
    <3>1. base[1] \in Positions(map.width, map.height)
      BY <1>1, <1>5 DEF Seated, Players
    <3>2. Square(base[1], map.base_size) \subseteq Positions(map.width, map.height)
      BY <1>1, <1>5, BaseIsSquare DEF Players
    <3>3. base[1][1] + map.base_size <= map.width
      BY <1>5, <3>1, <3>2, SquareOnMap
    <3>4. base[1][1] \in Nat
      BY <3>1 DEF Positions
    <3>5. QED
      BY <1>5, <3>3, <3>4
  <2>2. map.base_size \in 0 .. ByteSize - 1 /\ map.base_size \in Int
    BY <1>5, <1>6, <2>1
  <2>3. /\ map.width % ByteSize = map.width /\ map.height % ByteSize = map.height
        /\ map.base_size % ByteSize = map.base_size
    BY <1>5, <1>6, <2>2, RemainderIs
  <2>4. /\ rules["width"] = map.width % ByteSize /\ rules["height"] = map.height % ByteSize
        /\ rules["base_size"] = map.base_size % ByteSize
    BY <1>2, StoredIs
  <2>5. QED
    BY <1>1, <1>3, <1>4, <2>3, <2>4 DEF SettingsAreObeyed, MapInv, MapFor
<1>7. CASE ~({map.width, map.height} \subseteq 0 .. ByteSize - 1)
  <2>1. ~ByteMap(map)
    BY <1>7, WidthAssumption DEF ByteMap
  <2>2. has("map")
    BY <1>1, <2>1 DEF MapInv, MapFor
  <2>3. QED
    BY <1>3, <1>4, <1>7, <2>2 DEF SettingsAreObeyed
<1>8. QED
  BY <1>6, <1>7

(* A proper map survives saving.                                             *)
LEMMA SetupReload == SetupInv => SavedMapsReload
<1> SUFFICES ASSUME SetupInv, pc = "world" PROVE SavedMapsReload
  BY DEF SavedMapsReload
<1>1. Map(map) /\ (~has("map") \/ options.file.format = "text" => TextMap(map))
  BY DEF SetupInv, MapInv, MapFor
<1>2. ASSUME ~has("map") \/ options.file.format = "text"
      PROVE  load(saveAsText(map), map.height) = [verdict |-> "loaded", map |-> map]
  BY <1>1, <1>2, TextReload
<1>3. ASSUME {map.width, map.height} \subseteq 1 .. MaxDimension
      PROVE  load(saveAsBinary(map), 0) = [verdict |-> "loaded", map |-> map]
  BY <1>1, <1>3, BinaryReload
<1>4. QED
  BY <1>2, <1>3 DEF SavedMapsReload

-----------------------------------------------------------------------------
(* The theorems.                                                             *)

(* The invariant of the set-up: whatever the options and the map file, the   *)
(* map that World is built on is a proper one, and the players' corners and  *)
(* units lie in its bases.                                                   *)
THEOREM SetupSafety == Spec => []SetupInv
<1>1. SetupInv /\ [Next]_vars => SetupInv'
  <2> SUFFICES ASSUME SetupInv, [Next]_vars PROVE SetupInv'
    OBVIOUS
  <2>1. CASE parseOptions
    BY <2>1, ParseStep
  <2>2. CASE loadTilemap
    BY <2>2, LoadStep
  <2>3. CASE generateTilemap
    BY <2>3, GenerateStep
  <2>4. CASE BuildWorld
    BY <2>4, BuildStep
  <2>5. ASSUME NEW p \in Players, SpawnUnit(p) PROVE SetupInv'
    BY <2>5, SpawnStep
  <2>6. CASE LoadPrograms
    BY <2>6, ProgramsStep
  <2>7. CASE UNCHANGED vars
    BY <2>7, SetupStutter
  <2>8. QED
    BY <2>1, <2>2, <2>3, <2>4, <2>5, <2>6, <2>7 DEF Next
<1>2. QED
  BY <1>1, SetupInit, PTL DEF Spec

(* Type correctness of the set-up: the loaders and the generator fill every  *)
(* tile of the map, and a corner that the constructor of World has found is  *)
(* a tile of it.                                                             *)
THEOREM SetupTypeCorrect == Spec => []TypeOK
  BY SetupSafety, SetupTypes, PTL

(* In every running world, made from any map file or size, the flags of the  *)
(* tiles and the squares of isInBase name the same two bases, and every      *)
(* player has its units in its own.                                          *)
THEOREM WorldHasTwoBases == Spec => []BasesAgree
  BY SetupSafety, SetupBases, PTL

(* Every rule and the draw judge of the command line reach the running       *)
(* world, and only a map file wider or higher than a byte loses its sizes in *)
(* the fields of GameRules.                                                  *)
THEOREM SettingsReachTheWorld == Spec => []SettingsAreObeyed
  BY SetupSafety, SetupSettings, PTL

(* No command line and no generated map makes the set-up fail a fail-fast    *)
(* check or touch memory before an array.  Tilemap::load takes every map     *)
(* file that docs/tilemap-file-format.md allows, of any size and wherever    *)
(* the bases are, and only the sizes of its map can fail World.              *)
THEOREM GoodMapsAreLoaded == Spec => []LegalMapsLoad
<1>1. SetupInv => LegalMapsLoad
  BY DEF SetupInv
<1>2. QED
  BY <1>1, SetupSafety, PTL

(* saveAsBinary and saveAsText write files that load turns into the same     *)
(* map, for every map of the set-up that the format can hold.                *)
THEOREM MapsSurviveSaving == Spec => []SavedMapsReload
  BY SetupSafety, SetupReload, PTL
=============================================================================
