SPECIFICATION Spec

CONSTANTS
    telegram = telegram
    web = web
    t1 = t1
    w1 = w1
    w2 = w2
    w3 = w3
    alone = alone
    Lane <- MCLane
    WebLane <- MCWebLane
    Message <- MCMessage
    LaneOf <- MCLaneOf
    MergeClass <- MCMergeClass
    Alone <- alone
    WorkerLimits <- MCWorkerLimits
    InteractiveClient = TRUE

INVARIANT
    ConcurrentTurnsAreLive

CHECK_DEADLOCK FALSE
