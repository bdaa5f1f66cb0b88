SPECIFICATION Spec

CONSTANTS
    r1 = r1
    r2 = r2
    s1 = s1
    s2 = s2
    Request = {r1, r2}
    Telegram = {"chat"}
    Client = {}
    MaxAnswers = 1
    MaxFaults = 0
    Process = {s1, s2}
    Step = {"click", "type"}
    MaxSteps = 2
    MaxUpsets = 0
    ProcessOf <- MCProcessOf
    PlansOf <- MCPlansOf
    Risky = {}
    MaxTrouble = 0

PROPERTY
    EveryCallEnds

CHECK_DEADLOCK FALSE
