SPECIFICATION Spec
CONSTANTS
    Top = 3
    MaxData = 2
INVARIANT Relayed
CHECK_DEADLOCK FALSE
