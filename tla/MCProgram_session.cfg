SPECIFICATION FairSpec
CONSTANTS
    Replays <- MCReplays
    Chunk = 7
    MaxTick = 2
INVARIANTS
    TypeOK
    FileTellsTheMatch
    ViewFollows
PROPERTIES
    PlaybackIsAReader
    FinalStateIsShown
    ProgramEnds
CHECK_DEADLOCK FALSE
