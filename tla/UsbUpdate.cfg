SPECIFICATION FairSpec
CONSTANTS
    Scenarios <- AllScenarios
    RetryTH = 1
    HwResetTH = 1
    JpTH = 2
    DeleteTries = 2
    QueueSize = 1
    MaxCalls = 1
INVARIANTS
    TypeOK
    ResetsBounded
    RemovalsBounded
    OneAttempt
PROPERTIES
    ImplementsBudget
    Settles
    RetryFollows
CHECK_DEADLOCK FALSE
