SPECIFICATION Spec
CONSTANTS
    warning1 = warning1
    warning2 = warning2
    statement = statement
    garbled = garbled
    Id = {warning1, warning2, statement, garbled}
    Node = {n1, n2}
    Event <- MCEvent
    Refs <- MCRefs
    Expires <- MCExpires
    Payloads <- MCPayloads
    Unparseable = {garbled}
    Poison = {statement}
    Horizon = 3
SYMMETRY NodeSymmetry
INVARIANTS
    TypeOK
    RetiredHasLandedSuccessor
    NoResurrection
    OkMeansLanded
PROPERTY ImplementsSupersession
CHECK_DEADLOCK FALSE
