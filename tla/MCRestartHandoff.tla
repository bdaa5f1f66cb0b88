-------------------------- MODULE MCRestartHandoff --------------------------
(* Two restarts one after the other, or two at once.                        *)
EXTENDS RestartHandoff

CONSTANTS m1, m2, m3

MCMessage == {m1, m2, m3}
=============================================================================
