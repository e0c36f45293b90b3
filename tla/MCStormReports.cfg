SPECIFICATION FairSpec
CONSTANTS
    t1 = t1
    t2 = t2
    h1 = h1
    w1 = w1
    Report <- MCReport
    File <- MCFile
    Malformed = {t2}
    Poison = {h1}
    PhaseEnd = 15
    LastDate = 1
    MaxAttempts = 3
    BaseDelay = 2
    MaxDelay = 8
    nextAttemptFloor = 1
    RetryAfter = {0, 4}
    Late = 1
INVARIANTS
    TypeOK
    FloorKept
    RoomToStore
    ReturnedIsStored
PROPERTIES
    ListedIsStored
CHECK_DEADLOCK FALSE
