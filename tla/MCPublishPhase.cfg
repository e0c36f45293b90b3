SPECIFICATION FairSpec
CONSTANTS
    a1 = a1
    a2 = a2
    Areas <- MCAreas
    Concurrency = {1, 2}
    MaxTries = 2
    Dests = {"file", "r2"}
    MaxPhases = 2
INVARIANTS
    TypeOK
    EveryAreaAccounted
    FreshMeansPublished
PROPERTIES
    ForwardInTime
    EveryPhaseEnds
CHECK_DEADLOCK FALSE
