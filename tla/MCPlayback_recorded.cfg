SPECIFICATION Spec
CONSTANTS
    Replays <- MCRecorded
    Chunk = 4096
    CanQuit = FALSE
INVARIANT RecordedReplaysPlay
CHECK_DEADLOCK FALSE
