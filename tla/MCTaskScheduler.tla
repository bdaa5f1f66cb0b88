-------------------------- MODULE MCTaskScheduler --------------------------
(* Two tasks, of which the second may depend on the first.                  *)
EXTENDS TaskScheduler

CONSTANTS first, second

MCTask == {first, second}

Entered(kind, script, deps) == [kind |-> kind, script |-> script, deps |-> deps]

MCForm ==
    {Entered("once", FALSE, {}), Entered("once", TRUE, {first}),
     Entered("cron", FALSE, {}), Entered("bad", FALSE, {})}

MCPlainForm == {Entered("once", FALSE, {}), Entered("unset", TRUE, {})}
=============================================================================
