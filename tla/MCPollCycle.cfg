SPECIFICATION FairSpec
CONSTANTS
    Mode = "both"
    MaxVersion = 3
    MaxAttempts = 3
    Faults = {"panic", "store_fails", "retire_fails"}
INVARIANTS
    HeartbeatVouched
PROPERTIES
    EveryCycleEnds
    LatestLands
CHECK_DEADLOCK FALSE
