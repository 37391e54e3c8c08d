SPECIFICATION FairSpec
CONSTANTS
    MaxPortIndex = 1
    MaxGroups = 2
    MaxCases = 2
    MaxRefreshes = 1
INVARIANTS TypeOK LinkTrafficKeys LinkQuiesced PassMeansActive
PROPERTIES LinkCaseEnds
CHECK_DEADLOCK FALSE
