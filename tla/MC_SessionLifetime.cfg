SPECIFICATION FairSpec
CONSTANTS
    Connections = {a, b}
    TTL = 2
INVARIANTS
    HardenedIdle
    OrdinaryServed
PROPERTIES
    IdleEnds
CHECK_DEADLOCK FALSE
