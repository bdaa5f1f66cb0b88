SPECIFICATION FairSpec

CONSTANTS
    m1 = m1
    m2 = m2
    m3 = m3
    Message <- MCMessage
    LastInstance = 4
    Overlap = FALSE
    TurnOutlastsCap = FALSE

PROPERTY
    ScheduledRestartKillsNone

CHECK_DEADLOCK FALSE
