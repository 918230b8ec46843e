SPECIFICATION FairSpec
CONSTANTS
    Scenarios <- AllScenarios
    ap = ap
    md = md
    DevImage = dpv
    RetryTH = 1
    MaxList = 3
INVARIANTS
    TypeOK
    FlagReleased
PROPERTIES
    RemovedOnlyWhenInstalled
    AttemptEnds
CHECK_DEADLOCK FALSE
