SPECIFICATION Spec

CONSTANTS
    MaxId = 1
    MaxTurns = 7
    Past = 5
    PastWeb = 4
    OfTelegram = {7}
    Rename = {rename}
    Pin = {pin}
    Compaction = {compact}
    TailTurns = 1
    ReuseMax = 1
    PrewarmMin = 1
    MaxActors = 2
    SaveMayFail = TRUE
    MaxCrashes = 1

INVARIANTS
    TypeOK
    FreshContextIsComplete

PROPERTIES
    AtomicUnlessOverlapped
    PinSetDuringRunIsKept

CHECK_DEADLOCK FALSE
