SPECIFICATION FairSpec

CONSTANTS
    telegram = telegram
    web = web
    task = task
    t1 = t1
    t2 = t2
    t3 = t3
    t4 = t4
    w1 = w1
    s1 = s1
    alone = alone
    Lane <- MCLane
    WebLane <- MCWebLane
    Message <- MCMessage
    LaneOf <- MCLaneOf
    MergeClass <- MCMergeClass
    Alone <- alone
    WorkerLimits <- MCWorkerLimits
    InteractiveClient = FALSE

INVARIANTS
    TypeOK
    OneTurnPerLane
    SlotAccounting
    NoIdleSlotWhileWaiting
    AnsweredInOrder

PROPERTIES
    KeepsPromise

CHECK_DEADLOCK FALSE
