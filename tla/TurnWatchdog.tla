---------------------------- MODULE TurnWatchdog ----------------------------
(***************************************************************************)
(* The watchdog of a turn (host/turnwatch.go and runTurn of host/bot.go),  *)
(* and the commands !cancel and !timeout, which reach a turn through       *)
(* Bot.cancels while it is registered there.                               *)
(*                                                                         *)
(* A turn is stopped when its CLI has been silent for the idle window, or  *)
(* at its cap, which !timeout moves.  The context that is cancelled is the *)
(* same one that !cancel cancels; what the user is told in the end is read *)
(* from the entry and from the context, one after the other.  A timer's    *)
(* callback is on its way before it has the lock, and cancels after it has *)
(* released it.                                                            *)
(*                                                                         *)
(* The turns are those of one lane; several may run at once, as they do in *)
(* a lane that steers.  Time passes in steps of its own, and callbacks are *)
(* prompt: the next step of time waits for them.                           *)
(***************************************************************************)
EXTENDS Integers

CONSTANTS
    Turn,      \* the turns (workerSeq)
    Idle,      \* the idle window of turnLimits
    Cap,       \* its cap, the base of !timeout
    Deltas,    \* what !timeout +n and -n add
    Totals,    \* what !timeout n sets
    MaxTime,   \* bound on time
    MaxCommands \* bound on !timeout commands

ASSUME WatchdogAssumption ==
    /\ Idle \in Nat \ {0} /\ Cap \in Nat /\ Idle <= Cap
    /\ Deltas \subseteq Int /\ Totals \subseteq Nat
    /\ MaxTime \in Nat /\ MaxCommands \in Nat

VARIABLES
    now,
    phase,     \* the turns
    start, last, deadline, \* of a turn's cancelEntry and turnActivity
    timer,     \* when the timer of a turn is due, or Off
    fired,     \* callbacks that wait for the lock
    stopping,  \* callbacks that have decided and will call cancel
    timedOut,  \* cancelEntry.timedOut
    cancelled, \* the turn's context: who cancelled it first
    unfinished, \* history: the turns whose handler returned with its work undone
    told,      \* what the user was told in the end
    promised,  \* history: the deadline that the last !timeout answered with
    stopped,   \* history: when the watchdog decided, and why
    commands

entryVars == <<start, last, deadline, timer, timedOut>>
callbacks == <<fired, stopping>>
history == <<unfinished, told, promised, stopped, commands>>
vars == <<now, phase, entryVars, callbacks, cancelled, history>>

Off == -1
Time == 0..MaxTime
NotStopped == [at |-> Off, cause |-> "none"]

(* Registered in Bot.cancels.                                               *)
Registered(w) ==
    phase[w] \in {"running", "returned", "seen", "reported", "stopped"}

Init ==
    /\ now = 0
    /\ phase = [w \in Turn |-> "new"]
    /\ start = [w \in Turn |-> 0]
    /\ last = [w \in Turn |-> 0]
    /\ deadline = [w \in Turn |-> 0]
    /\ timer = [w \in Turn |-> Off]
    /\ fired = [w \in Turn |-> 0]
    /\ stopping = {}
    /\ timedOut = [w \in Turn |-> FALSE]
    /\ cancelled = [w \in Turn |-> "no"]
    /\ unfinished = {}
    /\ told = [w \in Turn |-> "nothing"]
    /\ promised = [w \in Turn |-> 0]
    /\ stopped = [w \in Turn |-> NotStopped]
    /\ commands = 0

TypeOK ==
    /\ now \in Time
    /\ phase \in [Turn -> {"new", "running", "returned", "seen", "reported",
                           "stopped", "done"}]
    /\ start \in [Turn -> Time] /\ last \in [Turn -> Time]
    /\ deadline \in [Turn -> Nat]
    /\ timer \in [Turn -> Nat \cup {Off}]
    /\ fired \in [Turn -> Nat]
    /\ stopping \subseteq Turn
    /\ timedOut \in [Turn -> BOOLEAN]
    /\ cancelled \in [Turn -> {"no", "watchdog", "user", "end"}]
    /\ unfinished \subseteq Turn
    /\ told \in [Turn -> {"nothing", "timeout", "cancelled", "done"}]
    /\ promised \in [Turn -> Nat]
    /\ stopped \in [Turn -> [at: Time \cup {Off}, cause: {"none", "cap", "idle"}]]
    /\ \A w \in Turn : Registered(w) => deadline[w] >= start[w] + Cap
    /\ commands \in 0..MaxCommands

-----------------------------------------------------------------------------
(* turnTimeoutCheck, at now: the cause to stop, or when to look again.      *)
Cause(l, d) ==
    IF now >= d THEN "cap" ELSE IF now >= l + Idle THEN "idle" ELSE "none"

Sooner(x, y) == IF x < y THEN x ELSE y

NextCheck(l, d) == Sooner(l + Idle, d)

(* wait 0 when there is a cause.                                            *)
DueAt(l, d) == IF Cause(l, d) = "none" THEN NextCheck(l, d) ELSE now

(* A turn registers and arms its timer; then the handler runs.              *)
Begin(w) ==
    /\ phase[w] = "new"
    /\ phase' = [phase EXCEPT ![w] = "running"]
    /\ start' = [start EXCEPT ![w] = now]
    /\ last' = [last EXCEPT ![w] = now]
    /\ deadline' = [deadline EXCEPT ![w] = now + Cap]
    /\ timer' = [timer EXCEPT ![w] = NextCheck(now, now + Cap)]
    /\ UNCHANGED <<now, timedOut, callbacks, cancelled, history>>

(* A line of the CLI.                                                       *)
Touch(w) ==
    /\ phase[w] = "running" /\ last[w] # now
    /\ last' = [last EXCEPT ![w] = now]
    /\ UNCHANGED <<now, phase, start, deadline, timer, timedOut, callbacks,
                   cancelled, history>>

TimerFires(w) ==
    /\ timer[w] # Off /\ timer[w] <= now
    /\ timer' = [timer EXCEPT ![w] = Off]
    /\ fired' = [fired EXCEPT ![w] = @ + 1]
    /\ UNCHANGED <<now, phase, start, last, deadline, timedOut, stopping, cancelled,
                   history>>

(* Faulty: looks once.                                                      *)
RearmedNever(w) == timer

Rearmed(w) == [timer EXCEPT ![w] = NextCheck(last[w], deadline[w])]

(* The callback of the timer, under the lock.                               *)
Check(w) ==
    LET cause == Cause(last[w], deadline[w])
    IN  /\ fired[w] > 0
        /\ fired' = [fired EXCEPT ![w] = @ - 1]
        /\ IF cause = "none"
           THEN /\ timer' = Rearmed(w)
                /\ UNCHANGED <<timedOut, stopping, stopped>>
           ELSE /\ timedOut' = [timedOut EXCEPT ![w] = TRUE]
                /\ stopping' = stopping \cup {w}
                /\ stopped' = [stopped EXCEPT ![w] = [at |-> now, cause |-> cause]]
                /\ UNCHANGED timer
        /\ UNCHANGED <<now, phase, start, last, deadline, cancelled, unfinished, told,
                       promised, commands>>

CancelledBy(who, W) ==
    [w \in Turn |-> IF w \in W /\ cancelled[w] = "no" THEN who ELSE cancelled[w]]

(* Its last line.                                                           *)
Stop(w) ==
    /\ w \in stopping
    /\ stopping' = stopping \ {w}
    /\ cancelled' = CancelledBy("watchdog", {w})
    /\ UNCHANGED <<now, phase, entryVars, fired, history>>

-----------------------------------------------------------------------------
(* Commands.                                                                *)

(* cancelKey.                                                               *)
CancelCommand ==
    LET W == {w \in Turn : Registered(w)}
    IN  /\ \E w \in W : cancelled[w] = "no"
        /\ cancelled' = CancelledBy("user", W)
        /\ UNCHANGED <<now, phase, entryVars, callbacks, history>>

(* Faulty: a turn that is being stopped is given more time.                 *)
AdjustableLate(w) == Registered(w)

Adjustable(w) == Registered(w) /\ ~timedOut[w]

(* Faulty: as little as the command says.                                   *)
TotalAsked(n) == n

Total(n) == IF n < Cap THEN Cap ELSE n

(* adjustTimeout, for the totals that the command asks for: never less than *)
(* the base, and the timer is armed again.                                  *)
Adjust(total) ==
    LET W == {w \in Turn : Adjustable(w)}
        to == [w \in Turn |-> start[w] + Total(total[w])]
    IN  /\ W # {} /\ commands < MaxCommands
        /\ commands' = commands + 1
        /\ deadline' = [w \in Turn |-> IF w \in W THEN to[w] ELSE deadline[w]]
        /\ timer' = [w \in Turn |-> IF w \in W THEN DueAt(last[w], to[w]) ELSE timer[w]]
        /\ promised' = [w \in Turn |-> IF w \in W THEN to[w] ELSE promised[w]]
        /\ UNCHANGED <<now, phase, start, last, timedOut, callbacks, cancelled,
                       unfinished, told, stopped>>

Reset == Adjust([w \in Turn |-> Cap])
Absolute(n) == Adjust([w \in Turn |-> n])
Delta(n) == Adjust([w \in Turn |-> deadline[w] - start[w] + n])

-----------------------------------------------------------------------------
(* The end of a turn.                                                       *)

(* The handler returns, with its work done or because it was cancelled.     *)
Return(w) ==
    /\ phase[w] = "running"
    /\ phase' = [phase EXCEPT ![w] = "returned"]
    /\ \/ UNCHANGED unfinished
       \/ cancelled[w] # "no" /\ unfinished' = unfinished \cup {w}
    /\ UNCHANGED <<now, entryVars, callbacks, cancelled, told, promised, stopped,
                   commands>>

(* Under the lock: entry.timedOut.                                          *)
See(w) ==
    /\ phase[w] = "returned"
    /\ IF timedOut[w]
       THEN /\ told' = [told EXCEPT ![w] = "timeout"]
            /\ phase' = [phase EXCEPT ![w] = "reported"]
       ELSE /\ phase' = [phase EXCEPT ![w] = "seen"]
            /\ UNCHANGED told
    /\ UNCHANGED <<now, entryVars, callbacks, cancelled, unfinished, promised, stopped,
                   commands>>

(* Faulty: only the watchdog is asked about.                                *)
ReportDone(w) ==
    /\ phase[w] = "seen"
    /\ told' = [told EXCEPT ![w] = "done"]
    /\ phase' = [phase EXCEPT ![w] = "reported"]
    /\ UNCHANGED <<now, entryVars, callbacks, cancelled, unfinished, promised, stopped,
                   commands>>

(* Without it: ctx.Err().                                                   *)
Report(w) ==
    /\ phase[w] = "seen"
    /\ told' = [told EXCEPT ![w] = IF cancelled[w] # "no" THEN "cancelled" ELSE "done"]
    /\ phase' = [phase EXCEPT ![w] = "reported"]
    /\ UNCHANGED <<now, entryVars, callbacks, cancelled, unfinished, promised, stopped,
                   commands>>

(* The deferred function: the timer and the context, and then finishTurn.   *)
StopTimer(w) ==
    /\ phase[w] = "reported"
    /\ phase' = [phase EXCEPT ![w] = "stopped"]
    /\ timer' = [timer EXCEPT ![w] = Off]
    /\ cancelled' = CancelledBy("end", {w})
    /\ UNCHANGED <<now, start, last, deadline, timedOut, callbacks, history>>

FinishTurn(w) ==
    /\ phase[w] = "stopped"
    /\ phase' = [phase EXCEPT ![w] = "done"]
    /\ UNCHANGED <<now, entryVars, callbacks, cancelled, history>>

Tick ==
    /\ now < MaxTime
    /\ \A w \in Turn : /\ timer[w] = Off \/ timer[w] > now
                       /\ fired[w] = 0 /\ w \notin stopping
    /\ now' = now + 1
    /\ UNCHANGED <<phase, entryVars, callbacks, cancelled, history>>

-----------------------------------------------------------------------------
Next ==
    \/ Tick \/ CancelCommand \/ Reset
    \/ \E n \in Totals : Absolute(n)
    \/ \E n \in Deltas : Delta(n)
    \/ \E w \in Turn : \/ Begin(w) \/ Touch(w) \/ TimerFires(w) \/ Check(w) \/ Stop(w)
                       \/ Return(w) \/ See(w) \/ Report(w) \/ StopTimer(w)
                       \/ FinishTurn(w)

Spec == Init /\ [][Next]_vars

-----------------------------------------------------------------------------
(* Time does not pass for a turn that has reached its cap or has been       *)
(* silent for the idle window, unless it was cancelled: no command, no line *)
(* and no callback that came too early leaves it without its watchdog.      *)
StoppedInTime ==
    [][now' # now =>
         \A w \in Turn : phase[w] = "running" /\ cancelled[w] = "no" =>
             now < deadline[w] /\ now < last[w] + Idle]_vars

(* A turn that !timeout has answered for is not stopped at its cap before   *)
(* the total that the user was told.                                        *)
ExtensionHolds ==
    \A w \in Turn : stopped[w].cause = "cap" => stopped[w].at >= promised[w]

(* A turn that was stopped before its work was done is not reported as      *)
(* done, and one that the watchdog stopped is not reported as cancelled by  *)
(* the user.                                                                *)
StopIsReported ==
    \A w \in unfinished : told[w] # "nothing" =>
        /\ told[w] # "done"
        /\ cancelled[w] = "watchdog" => told[w] = "timeout"
=============================================================================
