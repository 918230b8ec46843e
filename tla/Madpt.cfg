SPECIFICATION FairSpec
CONSTANTS
    ErrMax = 2
    JpTH = 3
    Limit <- Limits
    MaxFaults <- Faults
    MaxRestarts = 1
    MaxNew = 1
    MaxPending = 2
    None = None
INVARIANTS
    TypeOK
    ReplyIsOwn
    ErrorsHandled
PROPERTIES
    RequestEnds
    Starts
    Recovers
CHECK_DEADLOCK FALSE
