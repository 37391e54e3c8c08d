SPECIFICATION Spec
CONSTANTS
    MaxPortIndex = 1
    MaxGroups = 1
    MaxCases = 1
    MaxRefreshes = 0
INVARIANT StreamSecure
CHECK_DEADLOCK FALSE
