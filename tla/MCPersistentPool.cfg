SPECIFICATION Spec
CONSTANTS
    MaxConv = 2
    MaxSig = 2
    MaxTurns = 3
    MaxAtOnce = 2
    Cap = 1
    MaxEvents = 1
INVARIANTS
    TypeOK
    OneTurnPerProcess
    InUseIsLeftAlone
    AnswerIsOwn
PROPERTIES
    OutputIsFinal
    CapUnlessAllBusy
    EverythingEnds
CHECK_DEADLOCK FALSE
