SPECIFICATION Spec
CONSTANTS
    Files <- MCFiles
    Options <- MCOptions
    MaxPorts = 3
    MaxSwitches = 1
    MaxSwitchPorts = 3
    MaxTopologies = 3
    MaxConfigurations = 2
    MaxSuites = 2
    SpdmCases <- MCSpdmCases
INVARIANTS
    TypeOK
    RunAsWritten
    NothingLeftOut
    NoStopOnGoodFile
    OptionsApply
CHECK_DEADLOCK FALSE
