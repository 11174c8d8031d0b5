SPECIFICATION FairSpec
CONSTANTS
    QueueLen = 1
    MaxChunks <- MostlyStdout
INVARIANT Reliable
PROPERTY ExitReached
