SPECIFICATION FairSched
CONSTANTS
    Tasks = {a, b, c, d}
INVARIANTS
    EachTaskOnce
PROPERTIES
    EveryTaskGetsItsTurn
