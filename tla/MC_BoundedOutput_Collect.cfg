SPECIFICATION StuckSpec
CONSTANTS
    Limit = 2
    ReadSize = 2
    TailBytes = 1
    MaxOut <- Both
    Attachable = FALSE
INVARIANTS
    Budget
    Prefix
PROPERTIES
    CollectionEnds
CHECK_DEADLOCK FALSE
