SPECIFICATION FairSpec
CONSTANTS
    Creators = {c1, c2}
    Nobody = Nobody
    Modes <- EveryMode
    Crashes = TRUE
INVARIANTS
    Retained
    Truthful
PROPERTIES
    CreatorAnswered
CHECK_DEADLOCK FALSE
