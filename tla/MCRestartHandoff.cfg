SPECIFICATION FairSpec

CONSTANTS
    m1 = m1
    m2 = m2
    m3 = m3
    Message <- MCMessage
    LastInstance = 4
    Overlap = FALSE
    TurnOutlastsCap = TRUE

INVARIANTS
    TypeOK
    OneServer
    NeverWithout

PROPERTY
    RestartConcludes

CHECK_DEADLOCK FALSE
