SPECIFICATION FairSpec
CONSTANTS
    Scenarios <- MainOnly
    ap = ap
    md = md
    DevImage = dpv
    RetryTH = 1
    MaxList = 3
PROPERTY
    UpdateStops
CHECK_DEADLOCK FALSE
