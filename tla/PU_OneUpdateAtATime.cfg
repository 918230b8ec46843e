SPECIFICATION Spec
CONSTANTS
    Scenarios <- BothThreadsOnly
    ap = ap
    md = md
    DevImage = dpv
    RetryTH = 1
    MaxList = 3
INVARIANT
    OneUpdateAtATime
CHECK_DEADLOCK FALSE
