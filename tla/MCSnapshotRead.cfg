SPECIFICATION Spec
CONSTANTS
    Rows <- MCRows
    Bulletins <- MCBulletins
INVARIANTS
    TypeOK
    SnapshotIsExact
    OrderSurvives
    EveryStateIsWarned
    DetectionIsVouched
    WordIsKept
CHECK_DEADLOCK FALSE
