SPECIFICATION Spec

CONSTANTS
    r1 = r1
    r2 = r2
    s1 = s1
    s2 = s2
    Request = {r1, r2}
    Telegram = {"chat"}
    Client = {"desktop"}
    MaxAnswers = 2
    MaxFaults = 1
    Process = {s1, s2}
    Step = {"click", "type"}
    MaxSteps = 2
    MaxUpsets = 1
    ProcessOf <- MCProcessOf
    PlansOf <- MCPlansOf
    MaxTrouble = 1
    Risky = {"type"}

INVARIANTS
    TypeOK
    RiskyInputIsApproved
    OneDriver
    WarnedAfterYield

PROPERTY
    CallsEndWhenQuiet

CHECK_DEADLOCK FALSE
