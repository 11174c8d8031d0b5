SPECIFICATION FairSpec
CONSTANTS
    Clients = {r1}
    Grace = 1
    Settlement = 1
    MaxMembers = 1
INVARIANTS
    TypeOK
    OneTermOneKill
    AbsenceFinal
    Outcomes
PROPERTIES
    ResultFinal
    OperationEnds
    RequestAnswered
