--------------------------- MODULE PersistentPool ---------------------------
(***************************************************************************)
(* The resident claude processes of host/runner_persistent.go: one per     *)
(* conversation, fed one prompt after the other, replaced when their       *)
(* arguments change, when they died or when they say something on their    *)
(* own, and retired when they idle, when the pool is full, when the option *)
(* is switched off and at shutdown.                                        *)
(*                                                                         *)
(* A turn that cannot have a resident process runs "one-shot".  A turn     *)
(* starts at most one process, and the process is named after it.  The     *)
(* CLI is external: it takes one message at a time, echoes it (the         *)
(* replay), may speak, and ends with a result; it may also run a turn of   *)
(* its own, or die, in the middle of an answer too.                        *)
(*                                                                         *)
(* Lanes keep the turns of a conversation apart, but the pool does not     *)
(* rely on it, and neither does this module.                               *)
(***************************************************************************)
EXTENDS Integers, Sequences, FiniteSets

CONSTANTS
    MaxConv,    \* bound on keys, the owner labels of conversations
    MaxSig,     \* bound on signatures of arguments, work folder, environment
    MaxTurns,   \* bound on turns
    MaxAtOnce,  \* bound on turns at work at once
    Cap,        \* max_workers
    MaxEvents   \* bound on processes that die of themselves, turns that they
                \* run of themselves, changes of runtime.persistent_worker and
                \* shutdowns

ASSUME PoolAssumption ==
    /\ MaxConv \in Nat /\ MaxSig \in Nat /\ MaxTurns \in Nat /\ MaxAtOnce \in Nat
    /\ Cap \in Nat \ {0}
    /\ MaxEvents \in Nat

Turn == 1..MaxTurns
Conv == 1..MaxConv
Sig == 1..MaxSig
None == 0

VARIABLES
    pool,     \* persistentPool.entries, by key
    sig,      \* persistentEntry.sig
    busy,     \* persistentEntry.busy
    timer,    \* persistentEntry.timer; "fired" is a callback on its way
    lastUsed, \* the idle ones ordered by it, in pairs of an older and a newer
    state,    \* the processes
    inbox,    \* what a process has been sent and not taken
    work,     \* the message a process works on
    out,      \* lines on its stdout that nobody has read
    turn,     \* the turns
    enabled,  \* runtime.persistent_worker
    closed,   \* persistentPool.closed
    events    \* how many of those there were

poolVars == <<pool, sig, busy, timer, lastUsed>>
procVars == <<state, inbox, work, out>>
vars == <<poolVars, procVars, turn, enabled, closed, events>>

(* A text is any other line: what the agent says, a tool that it calls.     *)
Line == [kind: {"replay", "text", "result", "error", "lifecycle"},
         of: Turn \cup {None}]

Lifecycle == [kind |-> "lifecycle", of |-> None]

NewTurn == [phase |-> "new", conv |-> None, sig |-> None, proc |-> None,
            reused |-> FALSE, again |-> FALSE, sent |-> "no", started |-> FALSE,
            output |-> FALSE, answer |-> None]

Over(phase) == [NewTurn EXCEPT !.phase = phase]

Pooled == {e \in Turn : \E c \in Conv : pool[c] = e}

Idle == {e \in Pooled : ~busy[e]}

(* Turns that have a process to themselves.                                 *)
Owns(t) == turn[t].phase \in {"checking", "reading", "draining"}

Init ==
    /\ pool = [c \in Conv |-> None]
    /\ sig = [e \in Turn |-> None]
    /\ busy = [e \in Turn |-> FALSE]
    /\ timer = [e \in Turn |-> "off"]
    /\ lastUsed = {}
    /\ state = [e \in Turn |-> "none"]
    /\ inbox = [e \in Turn |-> None] /\ work = [e \in Turn |-> None]
    /\ out = [e \in Turn |-> <<>>]
    /\ turn = [t \in Turn |-> NewTurn]
    /\ enabled = TRUE /\ closed = FALSE
    /\ events = 0

TypeOK ==
    /\ pool \in [Conv -> Turn \cup {None}]
    /\ sig \in [Turn -> Sig \cup {None}]
    /\ busy \in [Turn -> BOOLEAN]
    /\ timer \in [Turn -> {"off", "armed", "fired"}]
    /\ \A e \in Turn : /\ busy[e] => e \in Pooled
                       /\ timer[e] = "armed" => e \in Idle
    /\ lastUsed \in SUBSET (Idle \X Idle)
    /\ state \in [Turn -> {"none", "spawning", "up", "closing", "gone"}]
    /\ inbox \in [Turn -> Turn \cup {None}] /\ work \in [Turn -> Turn \cup {None}]
    /\ out \in [Turn -> Seq(Line)]
    /\ turn \in [Turn ->
         [phase: {"new", "acquire", "spawning", "checking", "reading", "draining",
                  "answered", "failed", "oneshot"},
          conv: Conv \cup {None}, sig: Sig \cup {None}, proc: Turn \cup {None},
          reused: BOOLEAN, again: BOOLEAN, sent: {"no", "ok", "failed"},
          started: BOOLEAN, output: BOOLEAN, answer: Turn \cup {None}]]
    /\ enabled \in BOOLEAN /\ closed \in BOOLEAN
    /\ events \in Nat

-----------------------------------------------------------------------------
(* The pool, under its lock.                                                *)

Without(E) == {p \in lastUsed : p[1] \notin E /\ p[2] \notin E}

(* removeLocked, for several entries at once.  Timers stop; a callback on   *)
(* its way would find the entry removed, and return.  Nobody asks any more  *)
(* for the other fields of the entry.                                       *)
Remove(E) ==
    /\ pool' = [c \in Conv |-> IF pool[c] \in E THEN None ELSE pool[c]]
    /\ sig' = [e \in Turn |-> IF e \in E THEN None ELSE sig[e]]
    /\ busy' = [e \in Turn |-> busy[e] /\ e \notin E]
    /\ timer' = [e \in Turn |-> IF e \in E THEN "off" ELSE timer[e]]
    /\ lastUsed' = Without(E)

(* retire closes stdin and goes on in a goroutine of its own (GraceOver).   *)
Retired(E) ==
    [e \in Turn |-> IF e \in E /\ state[e] = "up" THEN "closing" ELSE state[e]]

(* The tree of the process is killed.                                       *)
Kill(e) ==
    /\ state' = [state EXCEPT ![e] = "gone"]
    /\ out' = [out EXCEPT ![e] = <<>>]
    /\ inbox' = [inbox EXCEPT ![e] = None] /\ work' = [work EXCEPT ![e] = None]

(* Faulty: one too late, with > for >=.                                     *)
RoomTooLate(P) ==
    LET older(e) == {x \in P \cap Idle : <<x, e>> \in lastUsed}
    IN {e \in P \cap Idle : Cardinality(older(e)) < Cardinality(P) - Cap}

(* The idle processes among P that make room for one more, the longest      *)
(* unused first.                                                            *)
RoomIn(P) ==
    LET older(e) == {x \in P \cap Idle : <<x, e>> \in lastUsed}
    IN {e \in P \cap Idle : Cardinality(older(e)) <= Cardinality(P) - Cap}

-----------------------------------------------------------------------------
(* A turn asks for a process.                                               *)

Goto(t, phase) == turn' = [turn EXCEPT ![t].phase = phase]
EndAs(t, phase) == turn' = [turn EXCEPT ![t] = Over(phase)]

(* Somebody may look at the process or the arguments of c.                  *)
Known(c) == pool[c] # None \/ \E t \in Turn : turn[t].conv = c

(* streamTurn.  With the option off it retires what idles (retireIdle).     *)
(* One conversation that is not known is like another, and so are its       *)
(* arguments, which are only compared with others of the same conversation. *)
Start(t, c, s) ==
    /\ turn[t].phase = "new" /\ \A u \in 1..(t - 1) : turn[u].phase # "new"
    /\ \A d \in 1..(c - 1) : Known(d)
    /\ s = 1 \/ Known(c)
    /\ Cardinality({u \in Turn : turn[u].conv # None}) < MaxAtOnce
    /\ IF enabled
       THEN /\ turn' = [turn EXCEPT ![t] = [@ EXCEPT !.phase = "acquire",
                                                     !.conv = c, !.sig = s]]
            /\ UNCHANGED <<poolVars, state>>
       ELSE /\ EndAs(t, "oneshot")
            /\ Remove(Idle)
            /\ state' = Retired(Idle)
    /\ UNCHANGED <<inbox, work, out, enabled, closed, events>>

(* Faulty: one process for two turns.                                       *)
UsableThoughBusy(e, s) == e # None /\ sig[e] = s /\ state[e] # "gone"

Usable(e, s) == e # None /\ ~busy[e] /\ sig[e] = s /\ state[e] # "gone"

(* acquire: the pool is closed, or the process works for another turn.      *)
Refused(t) ==
    LET e == pool[turn[t].conv]
    IN  /\ turn[t].phase = "acquire"
        /\ closed \/ (e # None /\ busy[e] /\ ~Usable(e, turn[t].sig))
        /\ EndAs(t, "oneshot")
        /\ UNCHANGED <<poolVars, procVars, enabled, closed, events>>

(* Faulty: the timer goes on.                                               *)
LeaveTimer(e) == timer

StopTimer(e) == [timer EXCEPT ![e] = IF @ = "armed" THEN "off" ELSE @]

(* acquire: the process of the conversation.                                *)
Reuse(t) ==
    LET e == pool[turn[t].conv]
    IN  /\ turn[t].phase = "acquire" /\ ~closed /\ Usable(e, turn[t].sig)
        /\ busy' = [busy EXCEPT ![e] = TRUE]
        /\ timer' = StopTimer(e)
        /\ lastUsed' = Without({e})
        /\ turn' = [turn EXCEPT ![t] = [@ EXCEPT !.phase = "checking",
                                          !.proc = e, !.reused = TRUE]]
        /\ UNCHANGED <<pool, sig, procVars, enabled, closed, events>>

(* acquire: a new one instead of a process that is gone or was started with *)
(* other arguments, and instead of those that have to make room.            *)
Spawn(t) ==
    LET e == pool[turn[t].conv]
        stale == {e} \ {None}
        E == stale \cup RoomIn(Pooled \ stale)
    IN  /\ turn[t].phase = "acquire" /\ ~closed
        /\ e # None => ~busy[e] /\ ~Usable(e, turn[t].sig)
        /\ pool' = [[c \in Conv |-> IF pool[c] \in E THEN None ELSE pool[c]]
                      EXCEPT ![turn[t].conv] = t]
        /\ sig' = [[x \in Turn |-> IF x \in E THEN None ELSE sig[x]]
                     EXCEPT ![t] = turn[t].sig]
        /\ busy' = [x \in Turn |-> x = t \/ (busy[x] /\ x \notin E)]
        /\ timer' = [x \in Turn |-> IF x \in E THEN "off" ELSE timer[x]]
        /\ lastUsed' = Without(E)
        /\ state' = [Retired(E) EXCEPT ![t] = "spawning"]
        /\ turn' = [turn EXCEPT ![t] = [@ EXCEPT !.phase = "spawning", !.proc = t,
                                                 !.reused = FALSE]]
        /\ UNCHANGED <<inbox, work, out, enabled, closed, events>>

SpawnFails(t) ==
    /\ turn[t].phase = "spawning"
    /\ Remove({t})
    /\ state' = [state EXCEPT ![t] = "gone"]
    /\ EndAs(t, "oneshot")
    /\ UNCHANGED <<inbox, work, out, enabled, closed, events>>

(* The lock is taken again: a pool that closed meanwhile has not seen the   *)
(* process.                                                                 *)
Spawned(t) ==
    /\ turn[t].phase = "spawning"
    /\ IF closed \/ pool[turn[t].conv] # t
       THEN state' = [state EXCEPT ![t] = "gone"] /\ EndAs(t, "oneshot")
       ELSE state' = [state EXCEPT ![t] = "up"] /\ Goto(t, "reading")
    /\ UNCHANGED <<poolVars, inbox, work, out, enabled, closed, events>>

-----------------------------------------------------------------------------
(* A turn has a process.                                                    *)

(* Faulty: whatever the process has already said.                           *)
MayRetryAnyway(u) == u.reused /\ ~u.again

MayRetry(u) == u.reused /\ ~u.again /\ ~u.output

(* runTurn: a reused process that failed before any output is replaced,     *)
(* once, unless the turn was cancelled.                                     *)
GiveUp(t) ==
    LET u == turn[t]
    IN  \/ EndAs(t, "failed")
        \/ /\ MayRetry(u)
           /\ turn' = [turn EXCEPT ![t] =
                [NewTurn EXCEPT !.phase = "acquire", !.conv = u.conv, !.sig = u.sig,
                                !.again = TRUE, !.output = u.output]]

(* turn, first part: a reused process must have said nothing since its last *)
(* result, or it is dropped.                                                *)
Check(t) ==
    LET e == turn[t].proc
        quiet == \A i \in DOMAIN out[e] : out[e][i] = Lifecycle
    IN  /\ turn[t].phase = "checking"
        /\ IF quiet /\ state[e] # "gone"
           THEN /\ Goto(t, "reading")
                /\ out' = [out EXCEPT ![e] = <<>>]
                /\ UNCHANGED <<pool, sig, busy, timer, lastUsed, state, inbox, work>>
           ELSE /\ Remove({e})
                /\ Kill(e)
                /\ GiveUp(t)
        /\ UNCHANGED <<enabled, closed, events>>

(* The goroutine that writes to stdin.                                      *)
Send(t) ==
    LET e == turn[t].proc
    IN  /\ turn[t].phase = "reading" /\ turn[t].sent = "no"
        /\ IF state[e] = "up"
           THEN /\ inbox' = [inbox EXCEPT ![e] = t]
                /\ turn' = [turn EXCEPT ![t].sent = "ok"]
           ELSE /\ turn' = [turn EXCEPT ![t].sent = "failed"]
                /\ UNCHANGED inbox
        /\ UNCHANGED <<poolVars, state, work, out, enabled, closed, events>>

SendFailed(t) ==
    /\ turn[t].phase = "reading" /\ turn[t].sent = "failed"
    /\ Remove({turn[t].proc})
    /\ state' = Retired({turn[t].proc})
    /\ Goto(t, "draining")
    /\ UNCHANGED <<inbox, work, out, enabled, closed, events>>

(* Faulty: nothing will retire the process.                                 *)
NeverDue(e) == timer

Due(e) == [timer EXCEPT ![e] = "armed"]

(* A process that was removed meanwhile is retired by whoever removed it.   *)
Release(e) ==
    IF e \notin Pooled THEN UNCHANGED <<poolVars, state>>
    ELSE IF ~enabled \/ closed
    THEN /\ Remove({e})
         /\ state' = Retired({e})
    ELSE /\ busy' = [busy EXCEPT ![e] = FALSE]
         /\ timer' = Due(e)
         /\ lastUsed' = lastUsed \cup (Idle \X {e})
         /\ UNCHANGED <<pool, sig, state>>

(* Faulty: every line counts.                                               *)
IsOutputAnyway(u, line) == line.kind # "replay"

(* What follows the replay of the turn's own message is the turn's output.  *)
IsOutput(u, line) == u.started /\ line.kind # "replay"

(* turn, second part: a line of stdout.                                     *)
Read(t) ==
    LET u == turn[t]
        e == u.proc
        line == Head(out[e])
    IN  /\ u.phase = "reading" /\ out[e] # <<>>
        /\ out' = [out EXCEPT ![e] = Tail(@)]
        /\ \/ /\ ~IsOutput(u, line)
              /\ turn' = [turn EXCEPT ![t].started =
                            @ \/ line = [kind |-> "replay", of |-> t]]
              /\ UNCHANGED <<poolVars, state>>
           \/ /\ IsOutput(u, line) /\ line.kind \notin {"result", "error"}
              /\ turn' = [turn EXCEPT ![t].output = TRUE]
              /\ UNCHANGED <<poolVars, state>>
           \/ /\ IsOutput(u, line) /\ line.kind = "result"
              /\ turn' = [turn EXCEPT ![t] = [Over("answered") EXCEPT
                                                !.answer = line.of]]
              /\ Release(e)
           \/ /\ IsOutput(u, line) /\ line.kind = "error"
              /\ turn' = [turn EXCEPT ![t] = [@ EXCEPT !.phase = "draining",
                                                       !.output = TRUE]]
              /\ Remove({e})
              /\ state' = Retired({e})
        /\ UNCHANGED <<inbox, work, enabled, closed, events>>

(* stdout ends before the result.                                           *)
Ended(t) ==
    LET e == turn[t].proc
    IN  /\ turn[t].phase = "reading" /\ state[e] = "gone" /\ out[e] = <<>>
        /\ Remove({e})
        /\ GiveUp(t)
        /\ UNCHANGED <<procVars, enabled, closed, events>>

(* ctx.Done, by !cancel or the watchdog: the process is dropped.            *)
Cancelled(t) ==
    /\ turn[t].phase = "reading"
    /\ Remove({turn[t].proc})
    /\ Kill(turn[t].proc)
    /\ EndAs(t, "failed")
    /\ UNCHANGED <<enabled, closed, events>>

(* drainUntilExit; a cancelled turn kills at once, GraceOver does later.    *)
Drain(t) ==
    LET e == turn[t].proc
    IN  /\ turn[t].phase = "draining"
        /\ \/ /\ out[e] # <<>>
              /\ out' = [out EXCEPT ![e] = <<>>]
              /\ turn' = [turn EXCEPT ![t].output = TRUE]
              /\ UNCHANGED state
           \/ /\ out[e] = <<>> /\ state[e] = "gone"
              /\ GiveUp(t)
              /\ UNCHANGED <<state, out>>
        /\ UNCHANGED <<poolVars, inbox, work, enabled, closed, events>>

-----------------------------------------------------------------------------
(* Processes go.                                                            *)

TimerFires(e) ==
    /\ timer[e] = "armed"
    /\ timer' = [timer EXCEPT ![e] = "fired"]
    /\ UNCHANGED <<pool, sig, busy, lastUsed, procVars, turn, enabled,
                   closed, events>>

(* Faulty: a turn may have taken the process since the timer fired.         *)
StillIdleUnchecked(e) == e \in Pooled

StillIdle(e) == e \in Pooled /\ ~busy[e]

(* evictIdle, in the callback of the timer.  A release after the timer      *)
(* fired arms it anew, and the old callback finds lastUsed too recent.      *)
EvictIdle(e) ==
    /\ timer[e] = "fired"
    /\ IF StillIdle(e)
       THEN Remove({e}) /\ state' = Retired({e})
       ELSE /\ timer' = [timer EXCEPT ![e] = "off"]
            /\ UNCHANGED <<pool, sig, busy, lastUsed, state>>
    /\ UNCHANGED <<inbox, work, out, turn, enabled, closed, events>>

(* retire and drainUntilExit, persistentCloseGrace after stdin was closed.  *)
(* Lines that reach a turn in spite of the kill count as read before it.    *)
GraceOver(e) ==
    /\ state[e] = "closing"
    /\ Kill(e)
    /\ UNCHANGED <<poolVars, turn, enabled, closed, events>>

(* Close: whoever is still starting a process finds the pool closed.        *)
Close ==
    /\ ~closed /\ events < MaxEvents /\ events' = events + 1
    /\ closed' = TRUE
    /\ Remove(Pooled)
    /\ state' = Retired(Pooled)
    /\ UNCHANGED <<inbox, work, out, turn, enabled>>

Toggle ==
    /\ events < MaxEvents /\ events' = events + 1
    /\ enabled' = ~enabled
    /\ UNCHANGED <<poolVars, procVars, turn, closed>>

-----------------------------------------------------------------------------
(* The CLI.                                                                 *)

Reading(e) == state[e] \in {"up", "closing"}

Says(e, lines) == out' = [out EXCEPT ![e] = @ \o lines]

Replay(t) == [kind |-> "replay", of |-> t]
Text(t) == [kind |-> "text", of |-> t]

TakeMessage(e) ==
    /\ Reading(e) /\ inbox[e] # None /\ work[e] = None
    /\ Says(e, <<Replay(inbox[e])>>)
    /\ work' = [work EXCEPT ![e] = inbox[e]]
    /\ inbox' = [inbox EXCEPT ![e] = None]
    /\ UNCHANGED <<poolVars, state, turn, enabled, closed, events>>

(* Texts that follow each other unread are one.                             *)
Speak(e) ==
    /\ Reading(e) /\ work[e] # None
    /\ out[e] # <<>> => out[e][Len(out[e])].kind # "text"
    /\ Says(e, <<Text(work[e])>>)
    /\ UNCHANGED <<poolVars, state, inbox, work, turn, enabled, closed, events>>

Finish(e) ==
    /\ Reading(e) /\ work[e] # None
    /\ \E kind \in {"result", "error"} :
         Says(e, <<[kind |-> kind, of |-> work[e]], Lifecycle>>)
    /\ work' = [work EXCEPT ![e] = None]
    /\ UNCHANGED <<poolVars, state, inbox, turn, enabled, closed, events>>

(* A turn of its own, of which only the result matters.                     *)
OwnTurn(e) ==
    /\ Reading(e) /\ work[e] = None
    /\ events < MaxEvents /\ events' = events + 1
    /\ Says(e, <<[kind |-> "result", of |-> None]>>)
    /\ UNCHANGED <<poolVars, state, inbox, work, turn, enabled, closed>>

(* It exits at the end of its input, or it dies.  Only the turn that has it *)
(* reads what is left.                                                      *)
Exit(e) ==
    /\ \/ /\ state[e] = "closing" /\ work[e] = None /\ inbox[e] = None
          /\ UNCHANGED events
       \/ /\ Reading(e) /\ events < MaxEvents /\ events' = events + 1
    /\ state' = [state EXCEPT ![e] = "gone"]
    /\ inbox' = [inbox EXCEPT ![e] = None] /\ work' = [work EXCEPT ![e] = None]
    /\ out' = [out EXCEPT ![e] =
                  IF \E t \in Turn : Owns(t) /\ turn[t].proc = e THEN @ ELSE <<>>]
    /\ UNCHANGED <<pool, sig, busy, timer, lastUsed, turn, enabled, closed>>

-----------------------------------------------------------------------------
TurnStep(t) ==
    \/ Refused(t) \/ Reuse(t) \/ Spawn(t) \/ SpawnFails(t) \/ Spawned(t)
    \/ Check(t) \/ Send(t) \/ SendFailed(t) \/ Read(t) \/ Ended(t)
    \/ Cancelled(t) \/ Drain(t)

(* Of the host's goroutines, timers and kills that can go on one does.      *)
(* Nothing is asked of the CLI or of the user.                              *)
HostStep ==
    \/ \E t \in Turn : TurnStep(t)
    \/ \E e \in Turn : TimerFires(e) \/ EvictIdle(e) \/ GraceOver(e)

(* A CLI that never stops talking keeps the host busy, but it puts off      *)
(* neither the total limit of the turn's watchdog nor the grace period.     *)
LimitReached == \E t \in Turn : Cancelled(t) \/ GraceOver(t)

Next ==
    \/ \E t \in Turn, c \in Conv, s \in Sig : Start(t, c, s)
    \/ HostStep
    \/ \E e \in Turn : TakeMessage(e) \/ Speak(e) \/ Finish(e) \/ OwnTurn(e) \/ Exit(e)
    \/ Close \/ Toggle

Spec == Init /\ [][Next]_vars /\ WF_vars(HostStep) /\ WF_vars(LimitReached)

-----------------------------------------------------------------------------
(* Never do two turns write to, or read from, one process.                  *)
OneTurnPerProcess ==
    \A t, u \in Turn :
        Owns(t) /\ Owns(u) /\ turn[t].proc = turn[u].proc => t = u

(* Nobody but its own turn or the shutdown takes a process away while a     *)
(* turn works with it: no eviction, no cap, no switched option, however     *)
(* their callbacks interleave with the turn that takes the process again.   *)
InUseIsLeftAlone ==
    \A t \in Turn :
        turn[t].phase \in {"checking", "reading"} /\ ~closed =>
            /\ pool[turn[t].conv] = turn[t].proc
            /\ state[turn[t].proc] # "closing"

(* A process that runs is somebody's: it is pooled, or it is being retired, *)
(* or a turn still works with it.  None is forgotten.                       *)
EveryProcessIsOwned ==
    \A e \in Turn :
        state[e] = "up" => \/ e \in Pooled
                           \/ \E t \in Turn : Owns(t) /\ turn[t].proc = e

(* What a turn returns is the answer to its own prompt, though the process  *)
(* may have answered something else just before.                            *)
AnswerIsOwn ==
    \A t \in Turn : turn[t].phase = "answered" => turn[t].answer = t

(* A prompt to which a turn has heard a part of the answer, whose tools may *)
(* have run, is not given to another process, however the first one ends:   *)
(* the turn never forgets what it heard until it is over.                   *)
OutputIsFinal ==
    [][\A t \in Turn : turn[t].output =>
         \/ turn'[t].phase \in {"answered", "failed"}
         \/ turn'[t].phase \in {"reading", "draining"} /\ turn'[t].output]_vars

(* The pool outgrows its cap only with processes that are all at work.      *)
CapUnlessAllBusy ==
    [][\A e \in Turn :
         state[e] = "none" /\ state'[e] = "spawning" =>
            \/ Cardinality(Pooled') <= Cap
            \/ \A x \in Pooled' : busy'[x]]_vars

(* Every turn comes to an end, and every process does when it is no longer  *)
(* used, with a shutdown or without one.                                    *)
Quiet ==
    \A t \in Turn : /\ turn[t].phase \in {"new", "answered", "failed", "oneshot"}
                    /\ state[t] \in {"none", "gone"}

EverythingEnds == <>[]Quiet
=============================================================================
