SPECIFICATION Spec
CONSTANTS
    QueueLen = 1
    MaxChunks <- OneEach
INVARIANT MissingFellOut
