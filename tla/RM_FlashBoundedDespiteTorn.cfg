SPECIFICATION Spec
CONSTANTS
    Limit = 1
    MaxRescan = 1
    MaxBoots = 2
    MaxNotices = 1
INVARIANT
    FlashBoundedDespiteTorn
