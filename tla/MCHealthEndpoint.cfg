SPECIFICATION Spec
CONSTANTS
    Mode = "both"
    Interval = 30
    Second = 1
    Late = 5
    Overrun = 0
    LongestBoot = 15
    LongestPoll = 65
INVARIANTS
    ToleratesAMiss
    DeadFeedIsReported
    GreenWithinGrace
CHECK_DEADLOCK FALSE
