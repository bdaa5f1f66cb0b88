------------------------- MODULE ConversationStore -------------------------
(***************************************************************************)
(* The conversations of host/store.go and everybody who changes one.  The  *)
(* store is one map under one lock, written whole on every change.  Nobody *)
(* changes a record under that lock: an edit gets a clone, changes it and  *)
(* puts it back, and a turn of host/manager.go does the same over minutes: *)
(* it reads the record, may have a summary made, puts it back with its     *)
(* prompt, runs, and puts its copy back again with the answer.             *)
(*                                                                         *)
(* One more actor works on summaries in the background                     *)
(* (host/convsummary.go): the Manager keeps its results by conversation    *)
(* id until a turn of that id adopts them.                                 *)
(*                                                                         *)
(* Turns are numbered in the order in which they read the store, and the   *)
(* number stands for the time stamp.  Sessions of the CLI are the matter   *)
(* of SessionProtocol, lanes that of LaneDispatch.                         *)
(***************************************************************************)
EXTENDS Integers, Sequences, FiniteSets

CONSTANTS
    MaxId,      \* web conversations have the ids 1..MaxId
    MaxTurns,   \* bound on turns
    Past,       \* the first of them, which are over when the model starts:
    PastWeb,    \* those that went to the web, and then those to telegram
    OfTelegram, \* the later turns that go to the telegram stream
    Rename,     \* edits of a web conversation's title, work folder, backend or mode
    Pin,        \* edits of the pinned model
    Compaction, \* !compact commands
    TailTurns,  \* summaryTailTurns
    ReuseMax,   \* summaryReuseMaxTurns
    PrewarmMin, \* summaryPrewarmMinTurns
    MaxActors,  \* bound on turns and edits at work at once
    SaveMayFail,\* whether writing store.json can fail
    MaxCrashes  \* bound on restarts

ASSUME StoreAssumption ==
    /\ MaxId \in Nat \ {0} /\ MaxTurns \in Nat /\ Past \in 0..MaxTurns
    /\ PastWeb \in 0..Past /\ OfTelegram \subseteq (Past + 1)..MaxTurns
    /\ TailTurns \in Nat \ {0} /\ ReuseMax \in Nat /\ PrewarmMin \in Nat \ {0}
    /\ MaxActors \in Nat /\ SaveMayFail \in BOOLEAN /\ MaxCrashes \in Nat
    /\ Rename \cap Pin = {} /\ Rename \cap Compaction = {} /\ Pin \cap Compaction = {}
    /\ 0 \notin Rename \cup Pin \cup Compaction   \* 0 names nobody

VARIABLES
    mem,        \* fileStore.data: the records by id
    disk,       \* store.json
    live,       \* the turn whose own record, not a clone, the store holds
    turn,       \* the turns
    edit,       \* the edits and compactions
    cache,      \* Manager.summaries
    job,        \* Manager.summaryInflight: the summary in the making
    saved,      \* history: the last save did not fail
    stale,      \* history: an edit put back a copy that others had overtaken
    crashes     \* restarts so far

vars == <<mem, disk, live, turn, edit, cache, job, saved, stale, crashes>>

Telegram == 0
Id == 0..MaxId
Turn == 1..MaxTurns
Edit == Rename \cup Pin \cup Compaction
None == 0
Unset == "unset"

(* What a summary's text covers, and up to which time stamp it claims to.   *)
Summary == [turns: SUBSET Turn, upTo: 0..MaxTurns]
NoSummary == [turns |-> {}, upTo |-> 0]

Entry == [turn: Turn, answered: BOOLEAN]
Prompt(t) == [turn |-> t, answered |-> FALSE]
Answered(t) == [turn |-> t, answered |-> TRUE]

Record ==
    [title: Rename \cup {Unset}, pin: Pin \cup {Unset},
     history: Seq(Entry),
     summary: Summary]

NoRecord == <<>>

NewRecord ==
    [title |-> Unset, pin |-> Unset, history |-> <<>>,
     summary |-> NoSummary]

Exists(id) == mem[id] # NoRecord

(* A history holds a turn once.                                             *)
Distinct(h) == \A i, j \in DOMAIN h : h[i].turn = h[j].turn => i = j

TurnsIn(h) == {h[i].turn : i \in DOMAIN h}

-----------------------------------------------------------------------------
(* Summaries.                                                               *)

Newer(s, t) == IF s.upTo > t.upTo THEN s ELSE t

BestSummary(id, rec) == Newer(cache[id], rec.summary)

(* Faulty: stops one turn short of the tail.                                *)
ToSummarizeShort(h, upTo) ==
    {h[i].turn : i \in {j \in 1..(Len(h) - TailTurns - 1) : h[j].turn > upTo}}

(* turnsToSummarize: what is later than upTo, without the last TailTurns turns.  *)
ToSummarize(h, upTo) ==
    {h[i].turn : i \in {j \in 1..(Len(h) - TailTurns) : h[j].turn > upTo}}

Latest(S) == CHOOSE x \in S : \A y \in S : y <= x

Folded(s, pending) ==
    IF pending = {} THEN s
    ELSE [turns |-> s.turns \cup pending, upTo |-> Latest(pending)]

TailOf(h) == {h[i].turn : i \in {j \in DOMAIN h : j > Len(h) - TailTurns}}

(* refreshSummaryAsync: one refresh per conversation at a time.             *)
Refresh(id, s, pending) ==
    job' = [job EXCEPT ![id] = IF @ = NoSummary /\ pending # {}
                               THEN Folded(s, pending) ELSE @]

StoreSummary(id, s) ==
    cache' = [cache EXCEPT ![id] = Newer(s, @)]

-----------------------------------------------------------------------------
(* Reading and writing the store.                                           *)

(* A turn or edit in progress: sync says that nobody else changed the       *)
(* record since it read or wrote it, seen that nobody did since it last     *)
(* looked at it.                                                            *)
Idle == [phase |-> "new", id |-> None, copy |-> NoRecord, told |-> {},
         sync |-> TRUE, seen |-> TRUE]

InFlight(a) == a.phase \notin {"new", "done"}

Overtaken(a, id) ==
    IF InFlight(a) /\ a.id = id THEN [a EXCEPT !.sync = FALSE, !.seen = FALSE]
    ELSE a

TurnsAfter(id, t, rec) ==
    [u \in Turn |-> IF u = t THEN rec ELSE Overtaken(turn[u], id)]

EditsAfter(id, e, rec) ==
    [u \in Edit |-> IF u = e THEN rec ELSE Overtaken(edit[u], id)]

AnotherMayStart ==
    Cardinality({t \in Turn : InFlight(turn[t])})
      + Cardinality({e \in Edit : InFlight(edit[e])}) < MaxActors

Done == [Idle EXCEPT !.phase = "done"]

(* saveLocked: the whole map to a temporary file, which then replaces       *)
(* store.json.  Whoever called has already changed the map.  The file is    *)
(* only read at a restart; no two saves in a row fail (a bound).            *)
SaveLocked ==
    \/ disk' = mem' /\ saved' = TRUE
    \/ /\ SaveMayFail /\ saved /\ crashes < MaxCrashes
       /\ saved' = FALSE
       /\ UNCHANGED disk

Put(id, rec, owner) ==
    /\ mem' = [mem EXCEPT ![id] = rec]
    /\ live' = [live EXCEPT ![id] = owner]
    /\ SaveLocked

(* SetActive and the like: a save that changes no conversation.             *)
SaveOnly ==
    /\ UNCHANGED <<mem, live>>
    /\ SaveLocked

PastOf(id) ==
    IF id = Telegram THEN [i \in 1..(Past - PastWeb) |-> Answered(PastWeb + i)]
                     ELSE [i \in 1..PastWeb |-> Answered(i)]

(* The telegram stream and one web conversation, which has a summary of its *)
(* first turn.                                                              *)
Init ==
    /\ mem = [id \in Id |->
                CASE id = Telegram -> [NewRecord EXCEPT !.history = PastOf(id)]
                  [] id = 1 -> [NewRecord EXCEPT !.history = PastOf(id),
                                  !.summary = Folded(@, 1..PastWeb \cap {1})]
                  [] OTHER -> NoRecord]
    /\ disk = mem
    /\ live = [id \in Id |-> None]
    /\ turn = [t \in Turn |-> IF t <= Past THEN Done ELSE Idle]
    /\ edit = [e \in Edit |-> Idle]
    /\ cache = [id \in Id |-> NoSummary]
    /\ job = [id \in Id |-> NoSummary]
    /\ saved = TRUE /\ stale = FALSE /\ crashes = 0

TypeOK ==
    /\ \A id \in Id : mem[id] \in Record \cup {NoRecord}
                   /\ disk[id] \in Record \cup {NoRecord}
                   /\ Exists(id) => Distinct(mem[id].history)
                   /\ cache[id] \in Summary /\ job[id] \in Summary
                   /\ live[id] \in Turn \cup {None}
    /\ \A t \in Turn :
         /\ turn[t].phase \in {"new", "read", "summing", "ready", "running",
                               "answered", "saved", "done"}
         /\ turn[t].id \in Id
         /\ turn[t].copy \in Record \cup {NoRecord}
         /\ turn[t].told \subseteq Turn
    /\ \A e \in Edit : edit[e].phase \in {"new", "read", "done"}
    /\ crashes \in 0..MaxCrashes /\ saved \in BOOLEAN /\ stale \in BOOLEAN

-----------------------------------------------------------------------------
(* Conversations come and go.                                               *)

(* nextConvID: the largest id in use plus one.                              *)
NextConvID ==
    1 + Latest({Telegram} \cup {id \in Id : Exists(id)})

NewWebConv ==
    /\ NextConvID \in Id
    /\ Put(NextConvID, NewRecord, None)
    /\ turn' = TurnsAfter(NextConvID, None, Idle)
    /\ edit' = EditsAfter(NextConvID, None, Idle)
    /\ UNCHANGED <<cache, job, stale, crashes>>

(* webDelete: it also cancels the turns of the conversation, which may fail *)
(* at any time anyway, and waits for none of them.                          *)
Delete(id) ==
    /\ id # Telegram /\ Exists(id)
    /\ Put(id, NoRecord, None)
    /\ turn' = TurnsAfter(id, None, Idle)
    /\ edit' = EditsAfter(id, None, Idle)
    /\ UNCHANGED <<cache, job, stale, crashes>>

-----------------------------------------------------------------------------
(* Edits: webRename, webSetDir, SetInteractive, setChannelBackend,          *)
(* SetConvModel and, under telegramMu, !compact.                            *)

Locked(t) ==
    turn[t].id = Telegram
    /\ turn[t].phase \in {"summing", "ready", "running", "answered", "saved"}

TelegramMuFree ==
    /\ \A t \in Turn : ~Locked(t)
    /\ \A c \in Compaction : edit[c].phase # "read"

(* Faulty: an edit that puts back a record of its own making.               *)
EditedAfresh(rec, e) ==
    [NewRecord EXCEPT !.title = IF e \in Rename THEN e ELSE @,
                                !.pin = IF e \in Pin THEN e ELSE @]

Edited(rec, e) ==
    CASE e \in Rename -> [rec EXCEPT !.title = e]
      [] e \in Pin -> [rec EXCEPT !.pin = e]
      [] e \in Compaction -> [rec EXCEPT !.history = <<>>]

GetForEdit(e, id) ==
    /\ edit[e].phase = "new" /\ Exists(id) /\ AnotherMayStart
    /\ e \in Rename => id # Telegram
    /\ e \in Compaction =>
         id = Telegram /\ TelegramMuFree /\ mem[id].history # <<>>
    /\ edit' = [edit EXCEPT ![e] = [Idle EXCEPT !.phase = "read", !.id = id,
                                                !.copy = mem[id]]]
    /\ UNCHANGED <<mem, disk, live, turn, cache, job, saved, stale, crashes>>

PutEdit(e) ==
    /\ edit[e].phase = "read"
    /\ Put(edit[e].id, Edited(edit[e].copy, e), None)
    /\ turn' = TurnsAfter(edit[e].id, None, Idle)
    /\ edit' = EditsAfter(edit[e].id, e, Done)
    /\ stale' = (stale \/ ~edit[e].sync)
    /\ UNCHANGED <<cache, job, crashes>>

CompactionFails(e) ==
    /\ e \in Compaction /\ edit[e].phase = "read"
    /\ edit' = [edit EXCEPT ![e] = Done]
    /\ UNCHANGED <<mem, disk, live, turn, cache, job, saved, stale, crashes>>

-----------------------------------------------------------------------------
(* Turns.                                                                   *)

(* HandleWebTarget and handleTelegram.  The lane of a conversation runs one *)
(* turn at a time; lanes that steer are left out.                           *)
Read(t, id) ==
    /\ turn[t].phase = "new" /\ Exists(id) /\ AnotherMayStart
    /\ t \in OfTelegram <=> id = Telegram
    /\ \A u \in 1..(t - 1) : turn[u].phase # "new"
    /\ \A u \in Turn : ~(InFlight(turn[u]) /\ turn[u].id = id)
    /\ turn' = [turn EXCEPT ![t] = [Idle EXCEPT !.phase = "read", !.id = id,
                                                !.copy = mem[id]]]
    /\ UNCHANGED <<mem, disk, live, edit, cache, job, saved, stale, crashes>>

(* The prompt inlines what told holds; on a resumed session the CLI has it. *)
Ready(t, told, summary) ==
    turn' = [turn EXCEPT ![t] = [@ EXCEPT !.phase = "ready", !.told = told,
                                          !.copy.summary = summary]]

(* Up to the decision between a resumed and a fresh session, and the part   *)
(* of summaryForFreshSession that needs no call.  A web turn records itself *)
(* as the active conversation, a telegram turn takes telegramMu.            *)
Prepare(t) ==
    LET rec == turn[t].copy
        h == rec.history
        best == BestSummary(turn[t].id, rec)
        pending == ToSummarize(h, best.upTo)
    IN  /\ turn[t].phase = "read"
        /\ IF turn[t].id = Telegram
           THEN TelegramMuFree /\ UNCHANGED <<mem, live, disk, saved>>
           ELSE SaveOnly
        /\ \/ /\ Ready(t, TurnsIn(h), rec.summary)
              /\ UNCHANGED job
           \/ /\ pending = {} /\ best # NoSummary /\ Len(h) > TailTurns
              /\ Ready(t, best.turns \cup TailOf(h), best)
              /\ UNCHANGED job
           \/ /\ pending # {} /\ best # NoSummary
              /\ Cardinality(pending) <= ReuseMax
              /\ Ready(t, best.turns \cup pending \cup TailOf(h), best)
              /\ Refresh(turn[t].id, best, pending)
           \/ /\ pending # {}
              /\ best = NoSummary \/ Cardinality(pending) > ReuseMax
              /\ turn' = [turn EXCEPT ![t].phase = "summing"]
              /\ UNCHANGED job
        /\ UNCHANGED <<edit, cache, stale, crashes>>

(* The synchronous call, for up to 90 seconds.                              *)
Summarised(t) ==
    LET rec == turn[t].copy
        best == BestSummary(turn[t].id, rec)
        pending == ToSummarize(rec.history, best.upTo)
        s == Folded(best, pending)
    IN  /\ turn[t].phase = "summing"
        /\ \/ /\ StoreSummary(turn[t].id, s)
              /\ Ready(t, s.turns \cup TailOf(rec.history), s)
           \/ /\ Ready(t, TurnsIn(rec.history), rec.summary)
              /\ UNCHANGED cache
        /\ UNCHANGED <<mem, disk, live, edit, job, saved, stale, crashes>>

(* The prompt is saved before the run, in the turn's own record.            *)
SavePending(t) ==
    LET a == turn[t]
        rec == [a.copy EXCEPT !.history = Append(@, Prompt(t))]
    IN  /\ a.phase = "ready"
        /\ Put(a.id, rec, t)
        /\ turn' = TurnsAfter(a.id, t, [a EXCEPT !.phase = "running", !.copy = rec,
                       !.told = {}, !.sync = a.sync, !.seen = TRUE])
        /\ edit' = EditsAfter(a.id, None, Idle)
        /\ UNCHANGED <<cache, job, stale, crashes>>

(* Faulty: the answer is always appended.                                   *)
RecordedTwice(h, t) == Append(h, Answered(t))

(* recordCompletedTurn: the slot of the pending prompt is filled.           *)
RecordCompletedTurn(h, t) ==
    [i \in DOMAIN h |-> IF h[i].turn = t THEN Answered(t) ELSE h[i]]

(* Faulty: nothing is picked up.                                            *)
PinOfCopy(rec, cur) == rec.pin

PinPickedUp(rec, cur) == IF cur = NoRecord THEN rec.pin ELSE cur.pin

(* The run answered.  The turn changes its own record, which is the store's *)
(* unless somebody replaced it, adopts a summary and picks up the pin.      *)
Answer(t) ==
    LET a == turn[t]
        rec == [a.copy EXCEPT !.history = RecordCompletedTurn(@, t),
                              !.summary = Newer(cache[a.id], @),
                              !.pin = PinPickedUp(a.copy, mem[a.id])]
    IN  /\ a.phase = "running"
        /\ IF live[a.id] = t
           THEN /\ mem' = [mem EXCEPT ![a.id] = rec]
                /\ turn' = TurnsAfter(a.id, t, [a EXCEPT !.phase = "answered",
                                                  !.copy = rec, !.seen = TRUE])
                /\ edit' = EditsAfter(a.id, None, Idle)
           ELSE /\ turn' = [turn EXCEPT ![t] = [a EXCEPT !.phase = "answered",
                                                  !.copy = rec, !.seen = TRUE]]
                /\ UNCHANGED <<mem, edit>>
        /\ UNCHANGED <<disk, live, cache, job, saved, stale, crashes>>

SaveAnswer(t) ==
    LET a == turn[t]
    IN  /\ a.phase = "answered"
        /\ Put(a.id, a.copy, t)
        /\ turn' = TurnsAfter(a.id, t, [a EXCEPT !.phase = "saved"])
        /\ edit' = EditsAfter(a.id, None, Idle)
        /\ UNCHANGED <<cache, job, stale, crashes>>

(* setActive and maybePrewarmSummary, which depends on the session's size.  *)
EndTurn(t) ==
    LET a == turn[t]
        best == BestSummary(a.id, a.copy)
        pending == ToSummarize(a.copy.history, best.upTo)
    IN  /\ a.phase = "saved"
        /\ IF a.id = Telegram THEN UNCHANGED <<mem, live, disk, saved>>
                              ELSE SaveOnly
        /\ \/ Cardinality(pending) >= PrewarmMin /\ Refresh(a.id, best, pending)
           \/ UNCHANGED job
        /\ turn' = [turn EXCEPT ![t] = Done]
        /\ UNCHANGED <<edit, cache, stale, crashes>>

(* An error, a time-out or a cancellation: the turn returns, and its prompt *)
(* stays in the store without an answer.                                    *)
Fail(t) ==
    /\ turn[t].phase = "running"
    /\ turn' = [turn EXCEPT ![t] = Done]
    /\ UNCHANGED <<mem, disk, live, edit, cache, job, saved, stale, crashes>>

(* The goroutine of refreshSummaryAsync ends, with a summary or without.    *)
RefreshEnds(id) ==
    /\ job[id] # NoSummary
    /\ StoreSummary(id, job[id]) \/ UNCHANGED cache
    /\ job' = [job EXCEPT ![id] = NoSummary]
    /\ UNCHANGED <<mem, disk, live, turn, edit, saved, stale, crashes>>

-----------------------------------------------------------------------------
(* The host ends and starts again: only the file is left.  After the last   *)
(* restart nobody begins any more: it would be the model's start again.     *)
Ends(a) == InFlight(a) \/ crashes + 1 = MaxCrashes

Restart ==
    /\ crashes < MaxCrashes
    /\ crashes' = crashes + 1
    /\ mem' = disk
    /\ live' = [id \in Id |-> None]
    /\ turn' = [t \in Turn |-> IF Ends(turn[t]) THEN Done ELSE turn[t]]
    /\ edit' = [e \in Edit |-> IF Ends(edit[e]) THEN Done ELSE edit[e]]
    /\ cache' = [id \in Id |-> NoSummary]
    /\ job' = [id \in Id |-> NoSummary]
    /\ saved' = TRUE
    /\ UNCHANGED <<disk, stale>>

TurnStep(t) ==
    \/ \E id \in Id : Read(t, id)
    \/ Prepare(t) \/ Summarised(t) \/ SavePending(t)
    \/ Answer(t) \/ Fail(t) \/ SaveAnswer(t) \/ EndTurn(t)

EditStep(e) ==
    (\E id \in Id : GetForEdit(e, id)) \/ PutEdit(e) \/ CompactionFails(e)

Next ==
    \/ NewWebConv
    \/ \E id \in Id : Delete(id) \/ RefreshEnds(id)
    \/ \E t \in Turn : TurnStep(t)
    \/ \E e \in Edit : EditStep(e)
    \/ Restart

Spec == Init /\ [][Next]_vars

-----------------------------------------------------------------------------
Core(rec) == IF rec = NoRecord THEN rec ELSE [rec EXCEPT !.summary = NoSummary]

Applied(old, new) ==
    \/ \E e \in Edit : /\ edit[e].phase = "read" /\ edit'[e].phase = "done"
                       /\ new \in {[old EXCEPT !.title = e], [old EXCEPT !.pin = e],
                                   [old EXCEPT !.history = <<>>]}
    \/ \E t \in Turn :
         \/ /\ turn[t].phase = "ready" /\ turn'[t].phase = "running"
            /\ new = [old EXCEPT !.history =
                            Append(@, Prompt(t))]
         \/ /\ turn[t].phase = "running" /\ turn'[t].phase = "answered"
            /\ new = [old EXCEPT !.history = [i \in DOMAIN @ |->
                        IF @[i].turn = t THEN [@[i] EXCEPT !.answered = TRUE]
                                         ELSE @[i]]]

(* What a step that changes a record may do to it: what the actor was asked *)
(* to do, applied to the record as it stands.                               *)
Atomically(id) ==
    LET old == Core(mem[id])
        new == Core(mem'[id])
    IN  \/ old = NoRecord /\ new = NewRecord
        \/ old # NoRecord /\ new = NoRecord
        \/ old # NoRecord /\ Applied(old, new)

Stale(a, b, id) == a.id = id /\ a.phase # b.phase /\ ~a.sync

(* Every change of a conversation is an atomic one, as if the store were    *)
(* locked from the read to the write, unless somebody else wrote the        *)
(* record between the two: only then is an edit, an answer or a deletion    *)
(* undone.                                                                  *)
AtomicUnlessOverlapped ==
    [][\A id \in Id :
         Core(mem'[id]) # Core(mem[id]) =>
            \/ Atomically(id)
            \/ crashes' # crashes
            \/ \E t \in Turn : Stale(turn[t], turn'[t], id)
            \/ \E e \in Edit : Stale(edit[e], edit'[e], id)]_vars

(* A model pinned while a turn runs survives the turn's final save, however *)
(* old the copy that it saves: only a pin set between the pick-up and the   *)
(* save, or before the prompt is saved, is lost.                            *)
PinSetDuringRunIsKept ==
    [][\A t \in Turn :
         LET id == turn[t].id
         IN turn[t].phase = "answered" /\ turn'[t].phase = "saved"
              /\ turn[t].seen /\ Exists(id) => mem'[id].pin = mem[id].pin]_vars

(* A change that was acknowledged without an error is on disk, whoever made *)
(* it, and stays when the host ends: all that a crash can take is an answer *)
(* in the moment before it is saved, and what a failed save left behind.    *)
ConfirmedIsDurable ==
    saved => \A id \in Id :
        \/ mem[id] = disk[id]
        \/ live[id] # None /\ turn[live[id]].phase = "answered"

(* A prompt for a fresh session carries every turn of the record it was     *)
(* made from, verbatim or in the summary: none falls between the two.  Only *)
(* an edit that puts back an overtaken copy can bring back a turn that the  *)
(* summary believes to be behind it.                                        *)
FreshContextIsComplete ==
    ~stale => \A t \in Turn :
        turn[t].phase = "ready" => TurnsIn(turn[t].copy.history) \subseteq turn[t].told

(* The summary kept for a conversation is made of its own turns.            *)
SummaryIsOwn ==
    \A id \in Id \ {Telegram} : Exists(id) =>
        \A t \in mem[id].summary.turns :
            \E i \in DOMAIN mem[id].history : mem[id].history[i].turn = t
=============================================================================
