SPECIFICATION Spec
CONSTANTS
    Mode = "ingest"
    MaxVersion = 3
    MaxAttempts = 3
    Faults = {"rows_fail"}
INVARIANT HeartbeatVouched
CHECK_DEADLOCK FALSE
