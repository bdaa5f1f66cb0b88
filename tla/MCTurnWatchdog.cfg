SPECIFICATION Spec

CONSTANTS
    Turn = {t1}
    Idle = 3
    Cap = 4
    Deltas <- MCDeltas
    Totals <- MCTotals
    MaxTime = 9
    MaxCommands = 3

INVARIANTS
    TypeOK
    ExtensionHolds
    StopIsReported

PROPERTY
    StoppedInTime

CHECK_DEADLOCK FALSE
