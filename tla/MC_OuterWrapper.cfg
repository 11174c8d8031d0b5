SPECIFICATION FairSpec
CONSTANTS
    Slots = {p, q}
    MaxIn = 2
    MaxOut = 2
    Window = 1
    Breaks = 1
    MaxRuns = 2
    Expires = TRUE
INVARIANTS
    TypeOK
    InputOnce
    OutputOnce
    ExitComplete
PROPERTY ExitTold
ACTION_CONSTRAINT Small
CHECK_DEADLOCK FALSE
