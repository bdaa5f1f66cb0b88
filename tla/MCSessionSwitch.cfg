SPECIFICATION Spec

CONSTANTS
    MaxTurns = 4
    MaxId = 10
    Failures = {}

INVARIANT
    SessionHoldsHistory

CHECK_DEADLOCK FALSE
