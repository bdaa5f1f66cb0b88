--------------------------- MODULE MCLaneParallel ---------------------------
(* "!parallel p1 | p2": two prompts that must not merge, in the telegram    *)
(* stream's lane, with two slots.                                           *)
EXTENDS LaneDispatch

CONSTANTS telegram, p1, p2, alone

MCLane == {telegram}
MCWebLane == {}
MCMessage == {p1, p2}
MCLaneOf == [m \in MCMessage |-> telegram]
MCMergeClass == [m \in MCMessage |-> alone]
MCWorkerLimits == {2}
=============================================================================
