SPECIFICATION FairSpec

CONSTANTS
    first = first
    second = second
    Task <- MCTask
    Form <- MCForm
    SaveMayFail = TRUE
    CountedRuns = 1
    MaxCommands = 3
    MaxCrashes = 1
    MaxRoutines = 3

INVARIANTS
    TypeOK
    OneShotsAreArmed
    StoppedIsStopped
    ConfirmedTaskIsKept

PROPERTY
    ReadyOneShotLeaves

CHECK_DEADLOCK FALSE
