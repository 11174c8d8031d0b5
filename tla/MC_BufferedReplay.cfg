SPECIFICATION FairSpec
CONSTANTS
    MaxBytes <- MostlyStdout
    ChunkSize = 1
    WireLen = 1
INVARIANT Replayable
PROPERTIES
    ImplementsLog
    ExitTold
CHECK_DEADLOCK FALSE
