SPECIFICATION FairSpec
CONSTANTS
    Classes <- MCClasses
    MaxCases = 3
    MaxGroups = 2
    PortionLen = 2
    ReportMax = 4
    MaxLength = 4
INVARIANTS TypeOK Released NoFalseAlarm PassMeansPrecondition
PROPERTIES ReportEnds
CHECK_DEADLOCK FALSE
