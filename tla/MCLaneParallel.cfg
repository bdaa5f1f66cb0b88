SPECIFICATION Spec

CONSTANTS
    telegram = telegram
    p1 = p1
    p2 = p2
    alone = alone
    Lane <- MCLane
    WebLane <- MCWebLane
    Message <- MCMessage
    LaneOf <- MCLaneOf
    MergeClass <- MCMergeClass
    Alone <- alone
    WorkerLimits <- MCWorkerLimits
    InteractiveClient = FALSE

INVARIANT
    AlonePromptsRunConcurrently

CHECK_DEADLOCK FALSE
