SPECIFICATION Spec
CONSTANTS
    NumTriples = 3
    MaxCases = 2
    MaxOpens = 0
    Rounds = 1
INVARIANTS
    TrafficKeys
    Quiesced
CHECK_DEADLOCK FALSE
