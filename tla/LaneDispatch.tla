--------------------------- MODULE LaneDispatch ---------------------------
(***************************************************************************)
(* The turn dispatcher of host/bot.go: every message of a conversation is  *)
(* put into that conversation's lane; turns of one lane run one after the  *)
(* other, lanes run in parallel on at most MaxWorkers global slots.  An    *)
(* interactive lane lets a message join the live session of the turn that  *)
(* is already running.  queuemerge.go folds a backlog into one turn.       *)
(*                                                                         *)
(* Each action is one critical section of Bot.mu (dispatch, finishTurn) or *)
(* the point where a turn's goroutine reads the conversation and starts to *)
(* work (runTurn, HandleWebTarget).                                        *)
(***************************************************************************)
EXTENDS Integers, Sequences, FiniteSets

CONSTANTS
    Lane,               \* lane keys: "telegram", "web:<id>", "task:<id>"
    WebLane,            \* the lanes of web conversations
    Message,            \* every message is sent at most once
    LaneOf,             \* queueKey of a message
    MergeClass,         \* chat, origin and entry point of a mergeable message
    Alone,              \* MergeClass of a message that is never merged
    WorkerLimits,       \* the values runtime.max_workers takes
    InteractiveClient   \* whether Manager.interactiveClient is installed

ASSUME LaneAssumption ==
    /\ WebLane \subseteq Lane
    /\ LaneOf \in [Message -> Lane]
    /\ DOMAIN MergeClass = Message
    /\ InteractiveClient \in BOOLEAN

(* config.go:444 only checks the upper bound: the positive lower bound is   *)
(* the range the settings form offers, and the one liveness needs.          *)
ASSUME LimitAssumption ==
    WorkerLimits # {} /\ WorkerLimits \subseteq Nat \ {0}

VARIABLES
    lanes,          \* Bot.lanes: lane key -> lane, for the lanes in the map
    readyLanes,     \* Bot.readyLanes: idle lanes that wait for a slot
    runningLanes,   \* Bot.runningLanes: the slots taken
    maxWorkers,     \* cfg.MaxWorkers, which a config reload replaces
    turns,          \* the goroutines of runTurn
    conv,           \* the stored conversation's interactive override, backend
    accepted,       \* history: what dispatch took in, per lane, in order
    done            \* history: what ended turns answered, per lane, in order

vars == <<lanes, readyLanes, runningLanes, maxWorkers, turns, conv,
          accepted, done>>

(* The queue is kept message by message; merged is the number of messages   *)
(* its head entry carries, since mergeQueuedHead only ever merges the head. *)
LaneState ==
    [queue: Seq(Message), merged: Nat, running: BOOLEAN,
     interactive: BOOLEAN, inFlight: Int]

Turn ==
    [lane: Lane, msgs: Seq(Message), queued: BOOLEAN,
     pc: {"spawned", "working"}, client: {"none", "live", "headless"}]

ConvState == [override: {"unset", "on", "off"}, claude: BOOLEAN]

ElementsOf(s) == {s[i] : i \in 1..Len(s)}

-----------------------------------------------------------------------------
(* What the conversation's settings say.                                    *)

(* Manager.IsInteractive: a claude web conversation is interactive unless   *)
(* the user switched it off.                                                *)
IsInteractive(k) ==
    /\ InteractiveClient
    /\ k \in WebLane
    /\ conv[k].claude
    /\ conv[k].override # "off"

(* Faulty: the unresolved override takes the client's place.                *)
ClientForRaw(k) == conv[k].override

(* Manager.clientFor as HandleWebTarget calls it, with c.Interactive, which *)
(* is set only by an explicit "!interactive on".                            *)
ClientFor(k) ==
    IF /\ InteractiveClient
       /\ k \in WebLane
       /\ conv[k].claude
       /\ conv[k].override = "on"
    THEN "live"
    ELSE "headless"

-----------------------------------------------------------------------------
(* The queue of a lane.                                                     *)

Compatible(m, n) ==
    MergeClass[m] # Alone /\ MergeClass[m] = MergeClass[n]

(* Faulty: messages merge whatever their kind.                              *)
MergedHeadOfAnyKind(q, n) == n = Len(q)

(* mergeQueuedHead: n is the longest run of messages the head can take in.  *)
MergedHead(q, n) ==
    /\ n \in 1..Len(q)
    /\ \A i \in 2..n : Compatible(q[1], q[i])
    /\ n < Len(q) => ~Compatible(q[1], q[n + 1])

HeadOf(l) == SubSeq(l.queue, 1, l.merged)

(* Faulty: only the first message of a merged head leaves the queue.        *)
PoppedOnlyFirst(l) ==
    LET rest == SubSeq(l.queue, 2, Len(l.queue)) IN
    [l EXCEPT !.queue = rest, !.merged = IF rest = <<>> THEN 0 ELSE 1]

(* The queue without its head entry; the entry behind it is a single one.   *)
Popped(l) ==
    LET rest == SubSeq(l.queue, l.merged + 1, Len(l.queue)) IN
    [l EXCEPT !.queue = rest, !.merged = IF rest = <<>> THEN 0 ELSE 1]

Pushed(l, m) ==
    [l EXCEPT !.queue = Append(@, m), !.merged = IF @ = 0 THEN 1 ELSE @]

Started(l) == [l EXCEPT !.running = TRUE, !.inFlight = 1]

NewTurn(k, msgs, queued) ==
    [lane |-> k, msgs |-> msgs, queued |-> queued,
     pc |-> "spawned", client |-> "none"]

(* The lane a message meets: the one in the map, or a new one whose mode is *)
(* read from the conversation now and kept until the lane is dropped.       *)
LaneFor(k) ==
    IF k \in DOMAIN lanes
    THEN lanes[k]
    ELSE [queue |-> <<>>, merged |-> 0, running |-> FALSE,
          interactive |-> IsInteractive(k), inFlight |-> 0]

WithLane(k, l) == [x \in DOMAIN lanes \cup {k} |-> IF x = k THEN l ELSE lanes[x]]

Waits(k) == k \in ElementsOf(readyLanes)

-----------------------------------------------------------------------------
Init ==
    /\ lanes = [k \in {} |-> 0]
    /\ readyLanes = <<>>
    /\ runningLanes = 0
    /\ maxWorkers \in WorkerLimits
    /\ turns = {}
    /\ conv = [k \in Lane |-> [override |-> "unset", claude |-> TRUE]]
    /\ accepted = [k \in Lane |-> <<>>]
    /\ done = [k \in Lane |-> <<>>]

(* The lane is already producing output: the message joins it as a second   *)
(* turn and never enters the queue.                                         *)
Steer(m, k, l) ==
    /\ l.interactive /\ l.running
    /\ lanes' = WithLane(k, [l EXCEPT !.inFlight = @ + 1])
    /\ turns' = turns \cup {NewTurn(k, <<m>>, FALSE)}
    /\ UNCHANGED <<readyLanes, runningLanes>>

(* The lane runs a turn, or is idle but already waits for a slot.           *)
Queue(m, k, l) ==
    /\ IF l.running THEN ~l.interactive ELSE Waits(k)
    /\ lanes' = WithLane(k, Pushed(l, m))
    /\ UNCHANGED <<readyLanes, runningLanes, turns>>

(* Faulty: a free slot is enough, even if the lane runs a turn.             *)
StartOnBusyLane(m, k, l) ==
    /\ ~Waits(k)
    /\ runningLanes < maxWorkers
    /\ lanes' = WithLane(k, Started(Pushed(l, m)))
    /\ runningLanes' = runningLanes + 1
    /\ turns' = turns \cup {NewTurn(k, HeadOf(Pushed(l, m)), TRUE)}
    /\ UNCHANGED readyLanes

StartNow(m, k, l) ==
    /\ ~l.running /\ ~Waits(k)
    /\ runningLanes < maxWorkers
    /\ lanes' = WithLane(k, Started(Pushed(l, m)))
    /\ runningLanes' = runningLanes + 1
    /\ turns' = turns \cup {NewTurn(k, HeadOf(Pushed(l, m)), TRUE)}
    /\ UNCHANGED readyLanes

WaitForSlot(m, k, l) ==
    /\ ~l.running /\ ~Waits(k)
    /\ runningLanes >= maxWorkers
    /\ lanes' = WithLane(k, Pushed(l, m))
    /\ readyLanes' = Append(readyLanes, k)
    /\ UNCHANGED <<runningLanes, turns>>

Dispatch(m) ==
    LET k == LaneOf[m]
        l == LaneFor(k) IN
    /\ m \notin ElementsOf(accepted[k])
    /\ \/ Steer(m, k, l)
       \/ Queue(m, k, l)
       \/ StartNow(m, k, l)
       \/ WaitForSlot(m, k, l)
    /\ accepted' = [accepted EXCEPT ![k] = Append(@, m)]
    /\ UNCHANGED <<maxWorkers, conv, done>>

(* The goroutine registers its cancel entry, and its handler reads the      *)
(* conversation to pick the client the turn runs on.                        *)
Begin(t) ==
    /\ t \in turns /\ t.pc = "spawned"
    /\ turns' = (turns \ {t})
                \cup {[t EXCEPT !.pc = "working", !.client = ClientFor(t.lane)]}
    /\ UNCHANGED <<lanes, readyLanes, runningLanes, maxWorkers, conv,
                   accepted, done>>

(* The ready lanes among the first n that scheduleLocked does not skip.     *)
Promoted(lns, n) ==
    {k \in {readyLanes[i] : i \in 1..n} :
        k \in DOMAIN lns /\ ~lns[k].running /\ lns[k].queue # <<>>}

(* scheduleLocked on the lanes lns and the free slots left by running: it   *)
(* takes ready lanes off the front until the slots or the lanes run out.    *)
ScheduleLocked(lns, running, ts) ==
    \E n \in 0..Len(readyLanes) :
        LET started == Promoted(lns, n) IN
        /\ n < Len(readyLanes) => running + Cardinality(started) >= maxWorkers
        /\ \A i \in 0..(n - 1) :
              running + Cardinality(Promoted(lns, i)) < maxWorkers
        /\ readyLanes' = SubSeq(readyLanes, n + 1, Len(readyLanes))
        /\ runningLanes' = running + Cardinality(started)
        /\ lanes' = [k \in DOMAIN lns |->
                        IF k \in started THEN Started(lns[k]) ELSE lns[k]]
        /\ turns' = ts \cup {NewTurn(k, HeadOf(lns[k]), TRUE) : k \in started}

(* The lane keeps its slot and its next head becomes a turn.                *)
Chain(k, l, ts) ==
    /\ lanes' = WithLane(k, [l EXCEPT !.inFlight = 1])
    /\ turns' = ts \cup {NewTurn(k, HeadOf(l), TRUE)}
    /\ UNCHANGED <<readyLanes, runningLanes>>

(* Faulty: the slot of the ended lane is not given back.                    *)
ReleaseKeepsSlot(k, ts) ==
    ScheduleLocked([x \in DOMAIN lanes \ {k} |-> lanes[x]],
                   runningLanes, ts)

(* Faulty: the slot is given back, but no waiting lane is started.          *)
ReleaseWithoutSchedule(k, ts) ==
    /\ lanes' = [x \in DOMAIN lanes \ {k} |-> lanes[x]]
    /\ runningLanes' = runningLanes - 1
    /\ turns' = ts
    /\ UNCHANGED readyLanes

Release(k, ts) ==
    ScheduleLocked([x \in DOMAIN lanes \ {k} |-> lanes[x]],
                   runningLanes - 1, ts)

(* Faulty: a steered turn takes a queued entry along when it ends.          *)
FinishPopsAlways(t, l, ts) ==
    LET left  == [l EXCEPT !.inFlight = @ - 1]
        after == IF l.queue # <<>> THEN Popped(left) ELSE left IN
    /\ l.interactive
    /\ \/ /\ after.inFlight > 0
          /\ lanes' = WithLane(t.lane, after)
          /\ turns' = ts
          /\ UNCHANGED <<readyLanes, runningLanes>>
       \/ /\ after.inFlight <= 0 /\ after.queue # <<>>
          /\ Chain(t.lane, after, ts)
       \/ /\ after.inFlight <= 0 /\ after.queue = <<>>
          /\ Release(t.lane, ts)

(* Faulty: the lane goes when its last turn ends, backlog or not.           *)
FinishDropsBacklog(t, l, ts) ==
    LET left  == [l EXCEPT !.inFlight = @ - 1]
        after == IF t.queued /\ l.queue # <<>> THEN Popped(left) ELSE left IN
    /\ l.interactive
    /\ \/ /\ after.inFlight > 0
          /\ lanes' = WithLane(t.lane, after)
          /\ turns' = ts
          /\ UNCHANGED <<readyLanes, runningLanes>>
       \/ /\ after.inFlight <= 0
          /\ Release(t.lane, ts)

FinishInteractive(t, l, ts) ==
    LET left  == [l EXCEPT !.inFlight = @ - 1]
        after == IF t.queued /\ l.queue # <<>> THEN Popped(left) ELSE left IN
    /\ l.interactive
    /\ \/ /\ after.inFlight > 0
          /\ lanes' = WithLane(t.lane, after)
          /\ turns' = ts
          /\ UNCHANGED <<readyLanes, runningLanes>>
       \/ /\ after.inFlight <= 0 /\ after.queue # <<>>
          /\ Chain(t.lane, after, ts)
       \/ /\ after.inFlight <= 0 /\ after.queue = <<>>
          /\ Release(t.lane, ts)

FinishSerial(t, l, ts) ==
    LET after == IF l.queue # <<>> THEN Popped(l) ELSE l IN
    /\ ~l.interactive
    /\ \/ /\ after.queue # <<>>
          /\ \E n \in 1..Len(after.queue) :
                /\ MergedHead(after.queue, n)
                /\ Chain(t.lane, [after EXCEPT !.merged = n], ts)
       \/ /\ after.queue = <<>>
          /\ Release(t.lane, ts)

(* The handler returned, was cancelled or panicked: the deferred function   *)
(* of runTurn calls finishTurn and spawns the turn it returns.              *)
Finish(t) ==
    LET ts == turns \ {t} IN
    /\ t \in turns /\ t.pc = "working"
    /\ IF t.lane \in DOMAIN lanes
       THEN \/ FinishInteractive(t, lanes[t.lane], ts)
            \/ FinishSerial(t, lanes[t.lane], ts)
       ELSE turns' = ts /\ UNCHANGED <<lanes, readyLanes, runningLanes>>
    /\ done' = [done EXCEPT ![t.lane] = @ \o t.msgs]
    /\ UNCHANGED <<maxWorkers, conv, accepted>>

(* A config reload swaps the holder's config and wakes no lane.             *)
ReloadLimit(n) ==
    /\ n # maxWorkers
    /\ maxWorkers' = n
    /\ UNCHANGED <<lanes, readyLanes, runningLanes, turns, conv, accepted, done>>

SetInteractive(k, on) ==
    /\ k \in WebLane
    /\ on => InteractiveClient
    /\ conv' = [conv EXCEPT ![k].override = IF on THEN "on" ELSE "off"]
    /\ UNCHANGED <<lanes, readyLanes, runningLanes, maxWorkers, turns,
                   accepted, done>>

SetChannelBackend(k, claude) ==
    /\ k \in WebLane
    /\ conv' = [conv EXCEPT ![k].claude = claude]
    /\ UNCHANGED <<lanes, readyLanes, runningLanes, maxWorkers, turns,
                   accepted, done>>

TurnStep ==
    \E t \in turns : Begin(t) \/ Finish(t)

Next ==
    \/ \E m \in Message : Dispatch(m)
    \/ TurnStep
    \/ \E n \in WorkerLimits : ReloadLimit(n)
    \/ \E k \in WebLane, on \in BOOLEAN : SetInteractive(k, on)
    \/ \E k \in WebLane, claude \in BOOLEAN : SetChannelBackend(k, claude)

(* The goroutine whose turn starts with m gets to run, and its handler      *)
(* returns: the watchdog of turnwatch.go cancels it at its absolute cap.    *)
TurnOf(m) ==
    \E t \in turns : t.msgs # <<>> /\ t.msgs[1] = m /\ (Begin(t) \/ Finish(t))

Spec == Init /\ [][Next]_vars
FairSpec == Spec /\ \A m \in Message : WF_vars(TurnOf(m))

-----------------------------------------------------------------------------
(* Properties.                                                              *)

Serial(k) == k \notin WebLane \/ ~InteractiveClient

SerialLane == {k \in Lane : Serial(k)}

QueueOf(k) == IF k \in DOMAIN lanes THEN lanes[k].queue ELSE <<>>

Running == {k \in DOMAIN lanes : lanes[k].running}

TurnsOf(k) == {t \in turns : t.lane = k}

SteeredOf(k) == {t \in TurnsOf(k) : ~t.queued}

(* The types of the dispatcher's state (bot.go:102-107, 157-170).           *)
TypeOK ==
    /\ DOMAIN lanes \subseteq Lane
    /\ lanes \in [DOMAIN lanes -> LaneState]
    /\ readyLanes \in Seq(Lane)
    /\ runningLanes \in Int
    /\ maxWorkers \in WorkerLimits
    /\ turns \subseteq Turn
    /\ conv \in [Lane -> ConvState]
    /\ accepted \in [Lane -> Seq(Message)]
    /\ done \in [Lane -> Seq(Message)]

(* "Turns within a lane run strictly one at a time" (bot.go:92-97): two     *)
(* turns of one lane exist only where that lane is interactive, and even    *)
(* there at most one of them came from the queue, whose head it carries.    *)
OneTurnPerLane ==
    /\ \A t, u \in turns :
          t # u /\ t.lane = u.lane =>
             /\ t.lane \in DOMAIN lanes /\ lanes[t.lane].interactive
             /\ ~(t.queued /\ u.queued)
    /\ \A t \in turns :
          /\ t.lane \in Running
          /\ t.queued => t.msgs = HeadOf(lanes[t.lane])

(* runningLanes and every inFlight count exactly what runs: a slot is never *)
(* leaked by a lane that ends, nor released twice (bot.go:711-753).         *)
SlotAccounting ==
    /\ runningLanes = Cardinality(Running)
    /\ \A k \in Running :
          /\ lanes[k].inFlight = Cardinality(TurnsOf(k))
          /\ lanes[k].inFlight > 0

(* An idle lane in the map has work and waits for a slot exactly once, so   *)
(* that scheduleLocked finds it; no running lane is in the waiting list.    *)
IdleLanesWait ==
    /\ \A i, j \in 1..Len(readyLanes) :
          i # j => readyLanes[i] # readyLanes[j]
    /\ ElementsOf(readyLanes) = DOMAIN lanes \ Running
    /\ \A k \in DOMAIN lanes \ Running : lanes[k].queue # <<>>

(* A lane never waits while fewer slots are taken than the smallest limit   *)
(* configured meanwhile: with one limit, the dispatcher is work conserving; *)
(* with a reload in between, at least some lane still runs that will call   *)
(* scheduleLocked when it ends.                                             *)
NoIdleSlotWhileWaiting ==
    readyLanes # <<>> => \E n \in WorkerLimits : runningLanes >= n

(* What a lane took in is what it answered followed by what it still has    *)
(* queued, in the same order: no message is lost, repeated or overtaken,    *)
(* whatever was merged (bot.go:92-97, queuemerge.go:27-28).                 *)
AnsweredInOrder ==
    \A k \in SerialLane : accepted[k] = done[k] \o QueueOf(k)

(* An interactive lane keeps every message in exactly one place too: the    *)
(* backlog that built up while it waited for a slot survives the steered    *)
(* turns that end before it (finishTurn's comment, bot.go:701-710).         *)
NothingLostInLane ==
    \A k \in Lane :
        LET steered == UNION {ElementsOf(t.msgs) : t \in SteeredOf(k)} IN
        /\ ElementsOf(accepted[k]) =
              ElementsOf(done[k]) \cup ElementsOf(QueueOf(k)) \cup steered
        /\ Len(accepted[k]) =
              Len(done[k]) + Len(QueueOf(k)) + Cardinality(SteeredOf(k))

(* No step takes a slot beyond the limit in force at that step, also after  *)
(* the limit was lowered under running lanes (bot.go:623, 676).             *)
SlotLimit ==
    [][runningLanes' > runningLanes => runningLanes' <= maxWorkers]_vars

(* Every message that dispatch took in is answered, whatever limits are     *)
(* configured while it waits.                                               *)
EveryMessageAnswered ==
    \A m \in Message :
        m \in ElementsOf(accepted[LaneOf[m]])
            ~> m \in ElementsOf(done[LaneOf[m]])

(* What manager.go:155-161 says: steering joins the live session, it never  *)
(* runs two concurrent turns on the normal per-turn client.                 *)
ConcurrentTurnsAreLive ==
    \A t, u \in turns :
        t # u /\ t.lane = u.lane /\ t.pc = "working" /\ u.pc = "working" =>
            t.client = "live" /\ u.client = "live"

(* What handleParallel's comment says (bot.go:2673-2676): prompts that must *)
(* not merge run concurrently, so none waits while a slot is free.          *)
AlonePromptsRunConcurrently ==
    \A m \in Message :
        /\ MergeClass[m] = Alone
        /\ m \in ElementsOf(accepted[LaneOf[m]])
        /\ runningLanes < maxWorkers
        => \/ m \in ElementsOf(done[LaneOf[m]])
           \/ \E t \in turns : m \in ElementsOf(t.msgs)

(* The abstract promise to a conversation, and its state in this module.    *)
StatusOf(m) ==
    LET k == LaneOf[m] IN
    IF m \in ElementsOf(done[k]) THEN "done"
    ELSE IF \E t \in turns : t.pc = "working" /\ m \in ElementsOf(t.msgs)
         THEN "running"
    ELSE IF m \in ElementsOf(accepted[k]) THEN "waiting"
    ELSE "new"

Promise ==
    INSTANCE ConversationTurns WITH
        status <- [m \in Message |-> StatusOf(m)],
        arrived <- accepted

(* Each lane implements the promise of ConversationTurns.                   *)
KeepsPromise == Promise!Spec
=============================================================================
