SPECIFICATION Spec

CONSTANTS
    MaxId = 1
    MaxTurns = 6
    Past = 4
    PastWeb = 3
    OfTelegram = {}
    Rename = {rename}
    Pin = {pin}
    Compaction = {compact}
    TailTurns = 1
    ReuseMax = 1
    PrewarmMin = 1
    MaxActors = 2
    SaveMayFail = FALSE
    MaxCrashes = 0

INVARIANT
    SummaryIsOwn

CHECK_DEADLOCK FALSE
