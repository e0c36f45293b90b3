SPECIFICATION FairSpec
CONSTANTS
    Mode = "ingest"
    MaxVersion = 3
    MaxAttempts = 3
    Faults = {"retire_fails"}
PROPERTY RetireIsRetried
CHECK_DEADLOCK FALSE
