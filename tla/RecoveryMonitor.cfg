SPECIFICATION FairSpec
CONSTANTS
    Limit = 1
    MaxRescan = 1
    MaxBoots = 1
    MaxNotices = 1
INVARIANTS
    TypeOK
    FlashBounded
    CountSaved
PROPERTIES
    MonitorEnds
    ImplementsBudget
