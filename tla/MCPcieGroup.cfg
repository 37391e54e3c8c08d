SPECIFICATION FairSpec
CONSTANTS
    Plan <- MCPlan
    Hops = 1
    TableSize = 6
    MaxDoe = 2
    IndexWrap = 3
    MaxBlock = 3
    MaxNumber = 2
INVARIANTS TypeOK TableTrue LeftBehind OwnDevice SetupSound
PROPERTIES SetupEnds
CHECK_DEADLOCK FALSE
