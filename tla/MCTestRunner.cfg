SPECIFICATION FairSpec
CONSTANTS
    CaseCount <- MCCaseCount
    Checked <- MCChecked
    MaxAsserts = 1
INVARIANTS TypeOK ConfigInForce Accounting PassMeansTested
PROPERTIES ControlsReleased SuiteEnds
CHECK_DEADLOCK FALSE
