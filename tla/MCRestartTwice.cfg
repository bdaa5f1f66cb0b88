SPECIFICATION Spec

CONSTANTS
    m1 = m1
    m2 = m2
    m3 = m3
    Message <- MCMessage
    LastInstance = 4
    Overlap = TRUE
    TurnOutlastsCap = FALSE

INVARIANT
    OneServer

CHECK_DEADLOCK FALSE
