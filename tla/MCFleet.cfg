SPECIFICATION FairSpec
CONSTANTS
    n1 = n1
    n2 = n2
    n3 = n3
    w1 = w1
    w2 = w2
    Node <- MCNode
    Message <- MCMessage
    Build <- MCBuild
    RawArea <- MCRawArea
    RawMode <- MCRawMode
    OnFly = TRUE
    StateCode = {"WI", "IL"}
    Event <- MCEvent
    Refs <- MCRefs
    Expires <- MCExpires
    EventKey <- MCEventKey
    Issued <- MCIssued
    Feed <- MCFeed
    Horizon = 2
INVARIANTS
    NoCatalogRace
    SchemaSuffices
    ETagVouches
PROPERTIES
    ImplementsTable
    WaitEnds
    ListedIsShown
    SupersededLeaves
CHECK_DEADLOCK FALSE
