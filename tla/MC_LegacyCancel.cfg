SPECIFICATION FairSpec
CONSTANTS
    Clients = {a, b}
    MaxMembers = 2
INVARIANT LeftEmpty
PROPERTY RequestEnds
CHECK_DEADLOCK FALSE
