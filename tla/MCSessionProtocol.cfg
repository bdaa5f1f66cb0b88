SPECIFICATION Spec

CONSTANTS
    MaxTurns = 3
    MaxId = 7
    Failures = {"error", "auth", "overflow", "noThreadId", "pruned", "crash"}

INVARIANTS
    TypeOK
    NoDeadEnd
    StaysInContext

CHECK_DEADLOCK FALSE
