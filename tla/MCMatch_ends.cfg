SPECIFICATION FairMatch
CONSTANTS
    Threshold = 2
    MaxInBase = 1
    EventSets <- MCEventSets
    Judges = {"noop", "max_ticks", "dynamic"}
    MaxTicks = 7
    StartLimit = 2
    SmallBonus = 1
    LargeBonus = 2
    TickCap = 14
INVARIANTS
    MatchTypeOK
    VictoryByCapture
    ReplayTellsTheOutcome
    DrawAtTheLimit
PROPERTIES
    MatchEnds
