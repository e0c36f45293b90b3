\* Close to the production interval; calls that overrun until ticks are missed.
SPECIFICATION FairSpec
CONSTANTS
    Mode = "both"
    Interval = 26
    Second = 1
    Late = 1
    Overrun = 1
    Horizon = 80
INVARIANTS
    OnSchedule
    FetchesLeaveRoom
    WithinCycleTimeout
PROPERTIES
    NoCatchUp
    ShutsDown
CHECK_DEADLOCK FALSE
