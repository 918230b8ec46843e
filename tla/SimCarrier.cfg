SPECIFICATION FairSpec
CONSTANTS
    simA = simA
    simB = simB
    Sims = {simA, simB}
    NoSim = NoSim
    MncLen <- MCMncLen
    Cxp = {simA}
    Generic = Generic
    None = None
    Limit = 3
    SimLimit = 4
    MaxNotices = 2
    MaxFaults = 1
    MaxEvents <- MCMaxEvents
INVARIANTS
    TypeOK
    CheckReleased
PROPERTIES
    PreferredFollowsSim
    CxpRebootFollows
    SessionReturns
CHECK_DEADLOCK FALSE
