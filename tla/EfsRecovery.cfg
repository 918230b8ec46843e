SPECIFICATION FairSpec
CONSTANTS
    RetryTH = 1
    MaxTries = 2
    MaxFaults = 2
INVARIANTS
    TypeOK
    IdentityKept
PROPERTIES
    IdentityReturns
CHECK_DEADLOCK FALSE
