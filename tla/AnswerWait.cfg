SPECIFICATION FairSpec
CONSTANTS
    Threads = {"main", "package"}
    Scripts <- PwlFwupdate
    MaxAttempts = 2
    NoThread = NoThread
INVARIANTS
    TypeOK
    DoneMeansKnown
    LockLeftByTimeout
PROPERTIES
    AttemptEnds
CHECK_DEADLOCK FALSE
