SPECIFICATION FairSpec
CONSTANTS
    NumTriples = 2
    MaxCases = 1
    MaxOpens = 1
    Rounds = 3
INVARIANTS
    TypeOK
    TrafficKeys
PROPERTIES
    OthersUntouched
    CaseEnds
CHECK_DEADLOCK FALSE
