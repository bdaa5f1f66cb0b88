---- MODULE MCTurnWatchdog ----
(* An idle window of 3 and a cap of 4 units of time: extensions and their    *)
(* withdrawal take place before the time ends.                               *)
EXTENDS TurnWatchdog

MCDeltas == {2, -1}
MCTotals == {5}
====
