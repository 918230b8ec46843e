SPECIFICATION FairSpec
CONSTANTS
    ErrMax = 2
    JpTH = 3
    Limit <- Limits
    MaxFaults <- Faults
    MaxRestarts = 1
    MaxNew = 1
    MaxPending = 2
    None = None
PROPERTY
    RequestEndsAfterTimeout
CHECK_DEADLOCK FALSE
