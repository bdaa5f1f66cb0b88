---------------------------- MODULE MCLaneSerial ----------------------------
(* The dispatcher where no conversation can be interactive: the telegram    *)
(* stream, one web conversation and one scheduled task.  Three telegram     *)
(* messages merge with each other, the fourth is a !parallel prompt.        *)
EXTENDS LaneDispatch

CONSTANTS telegram, web, task, t1, t2, t3, t4, w1, s1, alone

MCLane == {telegram, web, task}
MCWebLane == {}
MCMessage == {t1, t2, t3, t4, w1, s1}
MCLaneOf ==
    [m \in MCMessage |->
        IF m = w1 THEN web ELSE IF m = s1 THEN task ELSE telegram]
MCMergeClass ==
    [m \in MCMessage |-> IF m \in {t4, s1} THEN alone ELSE "typed"]
MCWorkerLimits == {1, 2}
=============================================================================
