SPECIFICATION FairSpec
CONSTANTS
    warning1 = warning1
    warning2 = warning2
    statement = statement
    garbled = garbled
    Id = {warning1, warning2, statement, garbled}
    Node = {n1, n2}
    Event <- MCEvent
    Refs <- MCRefs
    Expires <- MCExpires
    Payloads <- MCPoisonPayloads
    Unparseable = {garbled}
    Poison = {statement}
    Horizon = 0
PROPERTIES
    EveryCycleEnds
CHECK_DEADLOCK FALSE
