SPECIFICATION FairCaseSpec
CONSTANTS
    Replays <- MCReplays
    ChunkSizes = {0, 1, 5, 17}
    Assertions <- MCAssertions
INVARIANTS
    CaseTypeOK
    VerdictIsRight
PROPERTIES
    DecoderIsAReader
    EveryRunIsReported
CHECK_DEADLOCK FALSE
