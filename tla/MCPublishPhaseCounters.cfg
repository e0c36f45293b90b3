SPECIFICATION Spec
CONSTANTS
    a1 = a1
    a2 = a2
    Areas <- MCAreas
    Concurrency = {1}
    MaxTries = 2
    Dests = {"file"}
    MaxPhases = 2
INVARIANT CountersAreCurrent
CHECK_DEADLOCK FALSE
