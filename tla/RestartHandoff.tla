--------------------------- MODULE RestartHandoff ---------------------------
(***************************************************************************)
(* The restart without downtime of host/bot.go and host/main.go: a running *)
(* instance starts a newcomer, the newcomer signals through a file named   *)
(* after the old instance's pid that it is initialised, the old instance   *)
(* exits, and the newcomer serves once the process of the pid file is      *)
(* gone.  A changed setting schedules such a restart for when no turn      *)
(* runs; "!restart" and "!update" ask for one at once.                     *)
(*                                                                         *)
(* Times are modelled by what they order: the parent looks at the ready    *)
(* file every half second and the newcomer waits longer than that before   *)
(* it serves, so that a parent that waits has seen the file by then.       *)
(* What Telegram does to two instances that poll at once (the loser exits) *)
(* is left out: OneServer says that it does not come to that.              *)
(***************************************************************************)
EXTENDS Integers, FiniteSets

CONSTANTS
    LastInstance,   \* instances are numbered in the order they start
    Message,        \* every message is sent at most once
    Overlap,        \* whether a restart is asked for while one goes on
    TurnOutlastsCap \* whether a turn runs longer than the 1200 s of waiting

ASSUME HandoffAssumption ==
    /\ LastInstance \in Nat \ {0}
    /\ Overlap \in BOOLEAN /\ TurnOutlastsCap \in BOOLEAN

Instance == 1..LastInstance
Nobody == 0

VARIABLES
    phase,      \* how far each instance is
    startedBy,  \* the instance that started it, whose ready file it writes
    waitedFor,  \* the process whose end a newcomer waits for
    ready,      \* the instances whose ready file exists
    pidFile,    \* the instance named in aglink.pid
    waits,      \* handoffRestart and handleUpdate waiting for a newcomer
    restarting, \* Bot.restarting
    forIdle,    \* instances whose ScheduleRestart still waits for idle turns
    building,   \* instances where "!update" builds
    closing,    \* instances that saw the ready file and are about to exit
    turns,      \* the messages whose turn runs, per instance
    fate        \* history: what became of each message

asked == <<restarting, forIdle, building, closing>>
vars == <<phase, startedBy, waitedFor, ready, pidFile, waits, asked, turns, fate>>

Phase == {"unborn", "loading", "initialised", "waiting", "serving", "gone"}

(* A loop that waits for a newcomer; scheduled if ScheduleRestart runs it.  *)
Wait == [child: Instance, scheduled: BOOLEAN]

-----------------------------------------------------------------------------
Alive(p) == phase[p] \notin {"unborn", "gone"}

(* The watcher of the config file runs from before the ready signal on.     *)
Watching(p) == phase[p] \in {"initialised", "waiting", "serving"}

Idle(p) == turns[p] = {}

NextInstance == CHOOSE p \in Instance :
    /\ phase[p] = "unborn"
    /\ \A q \in Instance : phase[q] = "unborn" => p <= q

WaitsOf(p) == {w \in waits : startedBy[w.child] = p}

(* A restart is asked for: the bound on instances leaves room for it.       *)
MayAsk ==
    /\ \E q \in Instance : phase[q] = "unborn"
    /\ Overlap \/ /\ forIdle = {} /\ building = {} /\ waits = {}
                  /\ \A q \in Instance : Alive(q) => phase[q] = "serving"

(* What the end of process p takes along: its goroutines and its turns.     *)
Ends(p) ==
    /\ phase' = [phase EXCEPT ![p] = "gone"]
    /\ forIdle' = forIdle \ {p}
    /\ building' = building \ {p}
    /\ closing' = closing \ {p}
    /\ turns' = [turns EXCEPT ![p] = {}]
    /\ fate' = [m \in Message |-> IF m \in turns[p] THEN "killed" ELSE fate[m]]

Dies(p) ==
    /\ Ends(p)
    /\ restarting' = restarting \ {p}
    /\ waits' = waits \ WaitsOf(p)

Init ==
    /\ phase = [p \in Instance |-> IF p = 1 THEN "serving" ELSE "unborn"]
    /\ startedBy = [p \in Instance |-> Nobody]
    /\ waitedFor = [p \in Instance |-> Nobody]
    /\ ready = {}
    /\ pidFile = 1
    /\ waits = {}
    /\ restarting = {} /\ forIdle = {} /\ building = {} /\ closing = {}
    /\ turns = [p \in Instance |-> {}]
    /\ fate = [m \in Message |-> "unsent"]

(* dispatch and finishTurn, on an instance that serves.                     *)
TurnStarts(p, m) ==
    /\ phase[p] = "serving" /\ fate[m] = "unsent"
    /\ turns' = [turns EXCEPT ![p] = @ \cup {m}]
    /\ fate' = [fate EXCEPT ![m] = "running"]
    /\ UNCHANGED <<phase, startedBy, waitedFor, ready, pidFile, waits, asked>>

TurnEnds(p, m) ==
    /\ m \in turns[p]
    /\ turns' = [turns EXCEPT ![p] = @ \ {m}]
    /\ fate' = [fate EXCEPT ![m] = "answered"]
    /\ UNCHANGED <<phase, startedBy, waitedFor, ready, pidFile, waits, asked>>

(* ScheduleRestart up to its goroutine.                                     *)
ScheduleRestart(p) ==
    /\ MayAsk
    /\ Watching(p) /\ p \notin restarting
    /\ restarting' = restarting \cup {p}
    /\ forIdle' = forIdle \cup {p}
    /\ UNCHANGED <<phase, startedBy, waitedFor, ready, pidFile, waits, building, closing,
                   turns, fate>>

(* Faulty: the file an earlier newcomer left is taken for the new one's.    *)
SpawnKeepsFile(p, scheduled) ==
    /\ \E q \in Instance : phase[q] = "unborn"
    /\ phase' = [phase EXCEPT ![NextInstance] = "loading"]
    /\ startedBy' = [startedBy EXCEPT ![NextInstance] = p]
    /\ waits' = waits \cup {[child |-> NextInstance, scheduled |-> scheduled]}
    /\ UNCHANGED <<waitedFor, ready, pidFile, restarting, closing, turns,
                   fate>>

(* A stale ready file goes and the newcomer starts.                         *)
Spawn(p, scheduled) ==
    /\ \E q \in Instance : phase[q] = "unborn"
    /\ ready' = ready \ {p}
    /\ phase' = [phase EXCEPT ![NextInstance] = "loading"]
    /\ startedBy' = [startedBy EXCEPT ![NextInstance] = p]
    /\ waits' = waits \cup {[child |-> NextInstance, scheduled |-> scheduled]}
    /\ UNCHANGED <<waitedFor, pidFile, restarting, closing, turns,
                   fate>>

(* The newcomer's process cannot be started.                                *)
SpawnFails(p) ==
    /\ ready' = ready \ {p}
    /\ UNCHANGED <<phase, startedBy, waitedFor, pidFile, waits, closing, turns, fate>>

(* Faulty: a restart waits for as long as a turn runs.                      *)
WaitsForTurns(p) == p \in forIdle /\ Idle(p)

(* The goroutine of ScheduleRestart saw no turn running, or waited 1200 s.  *)
MayHandOff(p) ==
    /\ p \in forIdle
    /\ Idle(p) \/ TurnOutlastsCap

HandOff(p) ==
    /\ MayHandOff(p)
    /\ Spawn(p, TRUE)
    /\ forIdle' = forIdle \ {p}
    /\ UNCHANGED building

HandOffFails(p) ==
    /\ MayHandOff(p)
    /\ SpawnFails(p)
    /\ forIdle' = forIdle \ {p}
    /\ restarting' = restarting \ {p}
    /\ UNCHANGED building

(* Commands run one at a time (cmdMu), also while one waits for a newcomer. *)
NoCommandRuns(p) ==
    p \notin building \cup closing /\ \A w \in WaitsOf(p) : w.scheduled

UserRestart(p) ==
    /\ MayAsk
    /\ phase[p] = "serving" /\ NoCommandRuns(p) /\ Idle(p)
    /\ Spawn(p, FALSE)
    /\ UNCHANGED <<forIdle, building>>

UserRestartFails(p) ==
    /\ MayAsk
    /\ phase[p] = "serving" /\ NoCommandRuns(p) /\ Idle(p)
    /\ SpawnFails(p)
    /\ UNCHANGED <<restarting, forIdle, building>>

UserUpdate(p) ==
    /\ MayAsk
    /\ phase[p] = "serving" /\ NoCommandRuns(p) /\ Idle(p)
    /\ building' = building \cup {p}
    /\ UNCHANGED <<phase, startedBy, waitedFor, ready, pidFile, waits, restarting,
                   forIdle, closing, turns, fate>>

BuildDone(p) ==
    /\ p \in building /\ building' = building \ {p}
    /\ Spawn(p, FALSE)
    /\ UNCHANGED forIdle

BuiltButNotStarted(p) ==
    /\ p \in building /\ building' = building \ {p}
    /\ SpawnFails(p)
    /\ UNCHANGED <<restarting, forIdle>>

BuildFailed(p) ==
    /\ p \in building /\ building' = building \ {p}
    /\ UNCHANGED <<phase, startedBy, waitedFor, ready, pidFile, waits, restarting,
                   forIdle, closing, turns, fate>>

-----------------------------------------------------------------------------
(* run in main.go, in handoff mode.                                         *)

Initialise(p) ==
    /\ phase[p] = "loading"
    /\ phase' = [phase EXCEPT ![p] = "initialised"]
    /\ UNCHANGED <<startedBy, waitedFor, ready, pidFile, waits, asked, turns, fate>>

(* No backend is installed, or Telegram cannot be reached: run returns.     *)
InitFails(p) ==
    /\ phase[p] = "loading"
    /\ phase' = [phase EXCEPT ![p] = "gone"]
    /\ UNCHANGED <<startedBy, waitedFor, ready, pidFile, waits, asked, turns, fate>>

(* The ready file is the parent's, whatever became of the parent; the       *)
(* process to wait for is whichever the pid file names.  A newcomer that    *)
(* cannot write the file only logs it and goes on.                          *)
Signal(p) ==
    /\ phase[p] = "initialised"
    /\ phase' = [phase EXCEPT ![p] = "waiting"]
    /\ ready' \in {ready \cup {startedBy[p]}, ready}
    /\ waitedFor' = [waitedFor EXCEPT ![p] = IF pidFile = p THEN Nobody ELSE pidFile]
    /\ UNCHANGED <<startedBy, pidFile, waits, asked, turns, fate>>

(* A loop of process p finds its ready file before the newcomer goes on.    *)
WillSeeReady(p) == p \in ready /\ WaitsOf(p) # {}

(* waitForProcessExit kills the process it waits for after ten seconds.     *)
KillOld(p) ==
    LET old == waitedFor[p] IN
    /\ phase[p] = "waiting" /\ old # Nobody
    /\ Alive(old) /\ ~WillSeeReady(old)
    /\ Dies(old)
    /\ UNCHANGED <<startedBy, waitedFor, ready, pidFile>>

(* Faulty: the newcomer polls as soon as it has signalled.                  *)
ServeAtOnce(p) ==
    /\ phase[p] = "waiting"
    /\ phase' = [phase EXCEPT ![p] = "serving"]
    /\ pidFile' = p
    /\ UNCHANGED <<startedBy, waitedFor, ready, waits, asked, turns, fate>>

(* Faulty: the old pid file is dropped instead of overwritten.              *)
ServeWithoutPid(p) ==
    /\ phase[p] = "waiting"
    /\ waitedFor[p] # Nobody => ~Alive(waitedFor[p])
    /\ ~WillSeeReady(startedBy[p])
    /\ phase' = [phase EXCEPT ![p] = "serving"]
    /\ pidFile' = Nobody
    /\ UNCHANGED <<startedBy, waitedFor, ready, waits, asked, turns, fate>>

(* The old process is gone: write the pid file, open the channels and poll. *)
Serve(p) ==
    /\ phase[p] = "waiting"
    /\ waitedFor[p] # Nobody => ~Alive(waitedFor[p])
    /\ ~WillSeeReady(startedBy[p])
    /\ phase' = [phase EXCEPT ![p] = "serving"]
    /\ pidFile' = p
    /\ UNCHANGED <<startedBy, waitedFor, ready, waits, asked, turns, fate>>

-----------------------------------------------------------------------------
(* The parent's loop in handoffRestart and handleUpdate.                    *)

SeesReady(w) ==
    LET p == startedBy[w.child] IN
    /\ p \in ready
    /\ ready' = ready \ {p}
    /\ waits' = waits \ {w}
    /\ closing' = closing \cup {p}
    /\ UNCHANGED <<phase, startedBy, waitedFor, pidFile, restarting, forIdle,
                   building, turns, fate>>

(* CloseInteractive returned: os.Exit.                                      *)
Exit(p) ==
    /\ p \in closing
    /\ Dies(p)
    /\ UNCHANGED <<startedBy, waitedFor, ready, pidFile>>

(* Sixty seconds have passed: the newcomer is killed, also when it signals  *)
(* just after the last look at the file.                                    *)
TimesOut(w) ==
    /\ Ends(w.child)
    /\ waits' = waits \ (WaitsOf(w.child) \cup {w})
    /\ restarting' = restarting \
          ({w.child} \cup IF w.scheduled THEN {startedBy[w.child]} ELSE {})
    /\ UNCHANGED <<startedBy, waitedFor, ready, pidFile>>

-----------------------------------------------------------------------------
Asked(p) ==
    ScheduleRestart(p) \/ UserRestart(p) \/ UserRestartFails(p) \/ UserUpdate(p)

(* What goes on by itself once a restart was asked for.                     *)
Proceeds(p) ==
    \/ HandOff(p) \/ HandOffFails(p)
    \/ BuildDone(p) \/ BuiltButNotStarted(p) \/ BuildFailed(p)
    \/ Initialise(p) \/ InitFails(p) \/ Signal(p) \/ KillOld(p) \/ Serve(p)
    \/ Exit(p)
    \/ \E w \in WaitsOf(p) : SeesReady(w) \/ TimesOut(w)

Next ==
    \E p \in Instance :
        \/ \E m \in Message : TurnStarts(p, m) \/ TurnEnds(p, m)
        \/ Asked(p)
        \/ Proceeds(p)

Spec == Init /\ [][Next]_vars

(* Each process runs; nothing is assumed of the turns' length.              *)
FairSpec == Spec /\ \A p \in Instance : WF_vars(Proceeds(p))

-----------------------------------------------------------------------------
(* Properties.                                                              *)

(* The types of the handoff's state (bot.go:117-120, main.go:505-530).      *)
TypeOK ==
    /\ phase \in [Instance -> Phase]
    /\ startedBy \in [Instance -> Instance \cup {Nobody}]
    /\ waitedFor \in [Instance -> Instance \cup {Nobody}]
    /\ ready \subseteq Instance /\ pidFile \in Instance
    /\ waits \subseteq Wait
    /\ restarting \cup forIdle \cup building \cup closing \subseteq Instance
    /\ turns \in [Instance -> SUBSET Message]
    /\ fate \in [Message -> {"unsent", "running", "answered", "killed"}]

(* "wait until it is fully gone BEFORE starting Telegram polling"           *)
(* (main.go:501-502): two instances never poll, nor bind the port, at once. *)
OneServer ==
    \A p, q \in Instance : phase[p] = "serving" /\ phase[q] = "serving" => p = q

(* Without a pause in which nothing would answer: an instance serves, or a  *)
(* newcomer that can no longer fail is about to.                            *)
NeverWithout ==
    \E p \in Instance : phase[p] \in {"waiting", "serving"}

(* The flag that keeps later edits from scheduling a restart is held only   *)
(* while a scheduled restart goes on, so that a failed one is not the last. *)
FlagIsReleased ==
    \A p \in restarting :
        \/ p \in forIdle \cup closing
        \/ \E w \in WaitsOf(p) : w.scheduled

(* A scheduled restart ends: the instance gives way or goes on without it,  *)
(* also when a turn never ends (bot.go:1657-1658).                          *)
RestartConcludes ==
    \A p \in Instance : p \in restarting ~> p \notin restarting

(* "takes effect ... without killing an in-flight turn" (bot.go:1642-1645): *)
(* no turn runs where an instance gives way to a scheduled restart.         *)
ScheduledRestartKillsNone ==
    [][\A p \in restarting : phase[p] = "serving" /\ ~Alive(p)' => turns[p] = {}]_vars
=============================================================================
