------------------------------- MODULE Vision -------------------------------
(***************************************************************************)
(* What a unit sees: the breadth-first search at the start of Unit::step    *)
(* that fills the cache RuntimeECallContext::visible_tiles, and the part of *)
(* ecall_read_sensor that reads it.  The cache is a flat vector whose       *)
(* indices depend on the vision range, and the range can be upgraded.  A    *)
(* cell is marked as visited when it leaves the FIFO queue, not when it     *)
(* enters it, so it can be queued up to four times.                         *)
(***************************************************************************)
EXTENDS Integers, Sequences

CONSTANTS Width, Height, RangeLv1, RangeLv2

ASSUME VisionAssumption ==
    /\ Width \in Nat \ {0} /\ Height \in Nat \ {0}
    /\ RangeLv1 \in Nat \ {0} /\ RangeLv2 \in Nat \ {0} /\ RangeLv1 <= RangeLv2

Tiles == (0 .. Width - 1) \X (0 .. Height - 1)

VARIABLES
    walls,     \* the tiles with terrain OBSTACLE
    at,        \* Unit::x, Unit::y
    upgraded,  \* Unit::upgrades.vision
    phase,     \* "base": base programs run; "look": the search; "program": the unit's
    queue,     \* the cells to visit, in order and with repetitions
    visited,
    visible    \* visible_tiles: the set of indices that are true

lookVars == <<walls, at, upgraded, phase, queue, visited, visible>>

LookInit ==
    /\ walls \in SUBSET Tiles
    /\ at \in Tiles \ walls
    /\ upgraded = FALSE
    /\ phase = "base"
    /\ queue = <<>> /\ visited = {} /\ visible = {}

visionRange == IF upgraded THEN RangeLv2 ELSE RangeLv1

\* The cells of the window, and the tile and the index of a cell.
Cells == (0 .. visionRange - 1) \X (0 .. visionRange - 1)
TileOf(c) == <<at[1] - visionRange \div 2 + c[1], at[2] - visionRange \div 2 + c[2]>>
Index(c) == c[2] * visionRange + c[1]

Next4(t) == {<<t[1], t[2] - 1>>, <<t[1], t[2] + 1>>, <<t[1] - 1, t[2]>>, <<t[1] + 1, t[2]>>}

\* Mutant of MayUpgrade: an upgrade can come between the search and the read.
MayUpgrade_AnyTime == phase \in {"base", "program"}

MayUpgrade == phase = "base"

\* upgradeUnit with UpgradeType::Vision.
UpgradeVision ==
    /\ MayUpgrade
    /\ ~upgraded
    /\ upgraded' = TRUE
    /\ UNCHANGED <<walls, at, phase, queue, visited, visible>>

\* Unit::step: the cache is cleared and the search starts in the middle.
BeginLook ==
    /\ phase = "base"
    /\ phase' = "look"
    /\ queue' = << <<visionRange \div 2, visionRange \div 2>> >>
    /\ visited' = {} /\ visible' = {}
    /\ UNCHANGED <<walls, at, upgraded>>

\* A neighbour in the window is queued unless it was visited before.
Queueable(c) == IF c \in Cells /\ c \notin visited THEN <<c>> ELSE <<>>
QueueNeighbours(c) ==
    Queueable(<<c[1], c[2] - 1>>) \o Queueable(<<c[1], c[2] + 1>>)
      \o Queueable(<<c[1] - 1, c[2]>>) \o Queueable(<<c[1] + 1, c[2]>>)

\* Mutant of Popped: a cell is tested for a visit before it is taken off the queue.
Popped_Late == IF Head(queue) \in visited THEN queue ELSE Tail(queue)

Popped == Tail(queue)

\* One iteration: a cell that is queued again is skipped.
SkipCell ==
    /\ phase = "look" /\ queue # <<>>
    /\ Head(queue) \in visited
    /\ queue' = Popped
    /\ UNCHANGED <<walls, at, upgraded, phase, visited, visible>>

\* One iteration: cells off the map are not visible; obstacles are, but hide what is
\* behind.
VisitCell ==
    /\ phase = "look" /\ queue # <<>>
    /\ LET c == Head(queue) IN
        /\ c \notin visited
        /\ visited' = visited \cup {c}
        /\ visible' = IF TileOf(c) \in Tiles THEN visible \cup {Index(c)} ELSE visible
        /\ queue' = IF TileOf(c) \in Tiles \ walls THEN Popped \o QueueNeighbours(c)
                                                   ELSE Popped
    /\ UNCHANGED <<walls, at, upgraded, phase>>

EndLook ==
    /\ phase = "look"
    /\ queue = <<>>
    /\ phase' = "program"
    /\ UNCHANGED <<walls, at, upgraded, queue, visited, visible>>

\* The next turn: the unit may have moved to a neighbouring tile.
NextTurn ==
    /\ phase = "program"
    /\ phase' = "base"
    /\ at' \in {at} \cup (Next4(at) \cap (Tiles \ walls))
    /\ UNCHANGED <<walls, upgraded, queue, visited, visible>>

LookNext ==
    \/ UpgradeVision
    \/ BeginLook
    \/ SkipCell
    \/ VisitCell
    \/ EndLook
    \/ NextTurn

LookSpec == LookInit /\ [][LookNext]_lookVars

FairLook == LookSpec /\ WF_lookVars(SkipCell \/ VisitCell \/ EndLook)

\* ecall_read_sensor: the tiles a unit is shown as visible.
SensorView == {TileOf(c) : c \in {x \in Cells : TileOf(x) \in Tiles /\ Index(x) \in visible}}

-----------------------------------------------------------------------------
(* Properties.                                                              *)

Window == {t \in Tiles : \E c \in Cells : TileOf(c) = t}

\* Closed under seeing: whoever is seen and is no obstacle shows its neighbours.
SeesOn(V) == at \in V /\ \A t \in V \ walls : Next4(t) \cap Window \subseteq V

(* "limited to tiles within the same connected component of plain and water *)
(* terrain, and obstacles tiles that are orthogonally adjacent to any tile  *)
(* within that connected component (and within vision range)"               *)
(* (docs/rule-spec.md): while its program runs, a unit is shown the least   *)
(* such set of tiles, for the range it has now and the place it is at now.  *)
VisionFollowsTheRule ==
    phase = "program" =>
        SensorView = {t \in Window : \A V \in SUBSET Window : SeesOn(V) => t \in V}

(* The search ends, whatever the walls and however often a cell is queued:  *)
(* a unit's program gets its turn.                                          *)
LookEnds == (phase = "look") ~> (phase = "program")
=============================================================================
