SPECIFICATION FairRun
CONSTANTS
    Limit = 1
    ReadSize = 2
    TailBytes = 1
    MaxOut <- LittleStdout
    Attachable = TRUE
INVARIANTS
    Final
PROPERTIES
    EndReached
ACTION_CONSTRAINT Small
CHECK_DEADLOCK FALSE
