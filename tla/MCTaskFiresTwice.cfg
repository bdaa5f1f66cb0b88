SPECIFICATION Spec

CONSTANTS
    first = first
    second = second
    Task <- MCTask
    Form <- MCPlainForm
    SaveMayFail = FALSE
    CountedRuns = 2
    MaxCommands = 3
    MaxCrashes = 0
    MaxRoutines = 3

INVARIANT
    OneShotRunsOnce

CHECK_DEADLOCK FALSE
