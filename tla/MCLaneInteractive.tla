-------------------------- MODULE MCLaneInteractive --------------------------
(* The dispatcher with an interactive client: one web conversation whose    *)
(* mode and backend change at any time, beside the telegram stream that can *)
(* hold the only slot while the web conversation builds up a backlog.       *)
EXTENDS LaneDispatch

CONSTANTS telegram, web, t1, w1, w2, w3, alone

MCLane == {telegram, web}
MCWebLane == {web}
MCMessage == {t1, w1, w2, w3}
MCLaneOf == [m \in MCMessage |-> IF m = t1 THEN telegram ELSE web]
MCMergeClass == [m \in MCMessage |-> IF m = w3 THEN alone ELSE "typed"]
MCWorkerLimits == {1, 2}
=============================================================================
