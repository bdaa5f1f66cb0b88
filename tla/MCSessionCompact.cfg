SPECIFICATION Spec

CONSTANTS
    MaxTurns = 3
    MaxId = 8
    Failures = {"error", "auth"}

PROPERTY
    CompactionLosesNothing

CHECK_DEADLOCK FALSE
