SPECIFICATION Spec
CONSTANTS
    RetryTH = 1
    MaxTries = 2
    MaxFaults = 1
INVARIANTS
    RecoveryOnlyWhenLost
CHECK_DEADLOCK FALSE
