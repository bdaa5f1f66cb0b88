--------------------------- MODULE MCScreenCalls ---------------------------
(* Two processes with one call each; a batch has up to two actions.         *)
EXTENDS ScreenCalls

CONSTANTS r1, r2, s1, s2

MCProcessOf == [r \in {r1, r2} |-> IF r = r1 THEN s1 ELSE s2]
MCPlansOf ==
    [r \in {r1, r2} |-> IF r = r1 THEN {<<"click", "type">>} ELSE {<<"click">>}]
=============================================================================
