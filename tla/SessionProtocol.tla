-------------------------- MODULE SessionProtocol --------------------------
(***************************************************************************)
(* runWorker of host/manager.go: one conversation of aglink, whose record  *)
(* names a session of an AI CLI, and the sessions that the CLIs hold.  The *)
(* two may disagree: after a crash, a failed run, a reset, a backend       *)
(* switch or the CLI's own pruning.  A turn that resumes a session inlines *)
(* nothing of the stored history (maxHistoryInPromptResume is 0), because  *)
(* the session is supposed to hold it; a fresh one inlines all of it.      *)
(*                                                                         *)
(* The conversation is the telegram stream, whose turns and compactions    *)
(* exclude each other by telegramMu.  Histories stay shorter than what a   *)
(* fresh prompt carries.  The CLIs are external: what they do with a       *)
(* session id is what runner.go, runner_codex.go and the recoveries rely   *)
(* on.  The conversation's own backend override is left out.               *)
(***************************************************************************)
EXTENDS Integers, FiniteSets

CONSTANTS
    MaxTurns,   \* turns of the conversation
    MaxId,      \* session ids minted by aglink or by codex
    Failures    \* what may go wrong in a run or around it

ASSUME SessionAssumption ==
    /\ MaxTurns \in Nat /\ MaxId \in Nat \ {0}
    /\ Failures \subseteq {"error", "auth", "overflow", "noThreadId", "pruned",
                           "crash", "save"}

VARIABLES
    conv,       \* the conversation in memory
    disk,       \* the conversation in store.json
    turn,       \* the turn in progress
    copy,       \* what the turn read of the conversation before telegramMu
    backend,    \* Manager.backendName
    compacting, \* the backend of a compaction in progress
    knows,      \* the CLIs' sessions, with the turns each has seen
    memory,     \* the turns summed up in the conversation's memory file
    lastId,     \* the last session id minted
    count,      \* turns begun
    dropped,    \* history: turns an overflow left to its one-line summary
    upset       \* history: something else may separate record and session

store == <<conv, disk>>
cli == <<knows, lastId>>
history == <<dropped, upset>>
vars == <<conv, disk, turn, copy, backend, compacting, knows, memory, lastId, count,
          dropped, upset>>

Turn == 1..MaxTurns
Backend == {"claude", "codex"}
None == 0

(* The record's fields that runWorker decides by; "big" names the backends  *)
(* whose context counter asks, or for claude at least allows, for a reset.  *)
Conversation ==
    [sid: 0..MaxId, started: BOOLEAN, big: SUBSET Backend,
     asked: SUBSET Turn, answered: SUBSET Turn]

Running == {"first", "recovering", "resuming", "continuing"}

TurnState ==
    [phase: {"none", "read"} \cup Running, n: 0..MaxTurns, backend: Backend,
     resume: BOOLEAN, reset: BOOLEAN]

NoTurn == [phase |-> "none", n |-> 0, backend |-> "claude", resume |-> FALSE,
           reset |-> FALSE]

Empty == [sid |-> 1, started |-> FALSE, big |-> {}, asked |-> {}, answered |-> {}]

-----------------------------------------------------------------------------
Save(c) ==
    /\ conv' = c
    /\ disk' \in {c} \cup IF "save" \in Failures THEN {disk} ELSE {}

(* A reset for a context too large or idle too long, with markSessionReset. *)
ResetOf(c, b, id) ==
    [c EXCEPT !.started = FALSE, !.big = {},
              !.sid = IF b = "claude" THEN id ELSE c.sid]

(* A desync: no id although the record may say Started.                     *)
WithId(c, id) ==
    IF c.sid = None THEN [c EXCEPT !.sid = id, !.started = FALSE] ELSE c

(* The run in progress: does it resume, on which session, and what is it    *)
(* told of the stored history?                                              *)
Resumes == turn.phase = "resuming" \/ (turn.phase = "first" /\ turn.resume)

Key == <<turn.backend, conv.sid>>

(* Faulty: the retry carries as little history as the run it replaces.      *)
InlinedAtFirst ==
    IF turn.phase = "first" /\ ~turn.resume THEN conv.answered ELSE {}

Inlined ==
    IF turn.phase = "recovering" \/ (turn.phase = "first" /\ ~turn.resume)
    THEN conv.answered ELSE {}

(* claude takes the id it is given, codex names a new thread itself.        *)
Accepted(b, key, resumes) ==
    IF resumes THEN key \in DOMAIN knows
    ELSE b = "claude" => key \notin DOMAIN knows

SessionOf(b, key, resumes) ==
    IF b = "codex" /\ ~resumes THEN <<b, lastId + 1>> ELSE key

KnownTo(s) == IF s \in DOMAIN knows THEN knows[s] ELSE {}

Sees(s, turns) ==
    knows' = [k \in DOMAIN knows \cup {s} |->
                 IF k = s THEN KnownTo(s) \cup turns ELSE knows[k]]

(* The run reached the CLI: the session has seen the prompt.                *)
Ran ==
    LET s == SessionOf(turn.backend, Key, Resumes) IN
    /\ Accepted(turn.backend, Key, Resumes)
    /\ Sees(s, Inlined \cup {turn.n})
    /\ lastId' = IF s = Key THEN lastId ELSE lastId + 1

-----------------------------------------------------------------------------
Init ==
    /\ conv = Empty /\ disk = Empty
    /\ turn = NoTurn /\ copy = Empty
    /\ backend \in Backend
    /\ compacting = "no"
    /\ knows = << >>
    /\ memory = {}
    /\ lastId = 1
    /\ count = 0
    /\ dropped = {} /\ upset = FALSE

(* "!backend"; the choice is kept in store.json, which is written whole.    *)
SwitchBackend(b) ==
    /\ b # backend
    /\ backend' = b
    /\ Save(conv)
    /\ upset' = TRUE
    /\ UNCHANGED <<turn, copy, compacting, cli, memory, count, dropped>>

(* A save for any other reason writes the record too.                       *)
SavedWithOthers ==
    /\ conv # disk
    /\ disk' = conv
    /\ UNCHANGED <<conv, turn, copy, backend, compacting, cli, memory, count, history>>

-----------------------------------------------------------------------------
(* A turn.                                                                  *)

(* handleTelegram or HandleWebTarget up to the lock; three more ids do.     *)
Arrives ==
    /\ turn.phase = "none"
    /\ count < MaxTurns /\ lastId + 3 <= MaxId
    /\ count' = count + 1
    /\ copy' = conv
    /\ turn' = [NoTurn EXCEPT !.phase = "read", !.n = count', !.backend = backend]
    /\ UNCHANGED <<store, backend, compacting, cli, memory, history>>

(* Whether a resumed session is reset: codex by its size; claude also when  *)
(* it was idle for an hour with a smaller one.                              *)
Resets(c) ==
    IF ~c.started \/ turn.backend \notin c.big THEN {FALSE}
    ELSE IF turn.backend = "codex" THEN {TRUE} ELSE BOOLEAN

(* Under the lock: resume or reset, and the prompt saved before the run.    *)
Begins ==
    LET c == WithId(copy, lastId + 1) IN
    /\ turn.phase = "read" /\ compacting = "no"
    /\ \E reset \in Resets(c) :
          LET r == IF reset THEN ResetOf(c, turn.backend, lastId + 1) ELSE c IN
          /\ turn' = [turn EXCEPT !.phase = "first", !.reset = reset,
                                  !.resume = r.started]
          /\ lastId' = IF r.sid = copy.sid THEN lastId ELSE lastId + 1
          /\ Save([r EXCEPT !.asked = @ \cup {turn.n}])
    /\ copy' = Empty
    /\ UNCHANGED <<backend, compacting, knows, memory, count, history>>

(* Faulty: an empty thread id replaces the stored one.                      *)
AdoptsAnyId(c, new, id) ==
    IF new /\ turn.backend = "codex" THEN [c EXCEPT !.sid = id] ELSE c

(* A new thread's id is kept by a turn that did not resume.                 *)
Adopts(c, new, id) ==
    IF new /\ id # None /\ turn.backend = "codex" THEN [c EXCEPT !.sid = id] ELSE c

(* The run's answer is recorded: Started, the new counter, the final save.  *)
(* codex may name no thread, or give an answer although it failed; the text *)
(* of an authentication failure is an answer if the run was a continuation. *)
Answers ==
    LET s == SessionOf(turn.backend, Key, Resumes)
        new == ~Resumes /\
               (~conv.started \/ turn.phase = "recovering" \/ turn.reset)
    IN
    /\ turn.phase \in Running
    /\ \/ Ran
       \/ turn.phase = "continuing" /\ "auth" \in Failures /\ UNCHANGED cli
    /\ \E id \in {s[2]} \cup IF "noThreadId" \in Failures THEN {None} ELSE {},
          big \in BOOLEAN :
          LET c == Adopts(conv, new, id) IN
          /\ Save([c EXCEPT !.started = TRUE,
                            !.answered = @ \cup {turn.n},
                            !.big = IF big THEN @ \cup {turn.backend}
                                    ELSE @ \ {turn.backend}])
          /\ upset' = (upset \/ id = None)
    /\ turn' = NoTurn
    /\ UNCHANGED <<copy, backend, compacting, memory, count, dropped>>

(* An error, a timeout or "!cancel": the session may have been created.     *)
Fails ==
    /\ "error" \in Failures
    /\ turn.phase \in Running
    /\ Ran \/ UNCHANGED cli
    /\ turn' = NoTurn
    /\ UNCHANGED <<store, copy, backend, compacting, memory, count, history>>

(* The CLI could not authenticate, and says so as if it were an answer.     *)
AuthFails ==
    /\ "auth" \in Failures
    /\ turn.phase \in Running \ {"continuing"}
    /\ turn' = NoTurn
    /\ UNCHANGED <<store, copy, backend, compacting, cli, memory, count, history>>

(* Faulty: the continuation goes on under the id that is in use.            *)
ContinuationWithSameId(c, id) == [c EXCEPT !.started = FALSE]

(* makeContinuation of the telegram and web sinks, in place and unsaved.    *)
Continuation(c, id) == [c EXCEPT !.sid = id, !.started = FALSE]

(* "Prompt is too long": one more run, on a new session.                    *)
Overflows ==
    /\ "overflow" \in Failures /\ turn.backend = "claude"
    /\ turn.phase \in Running \ {"continuing"}
    /\ Accepted(turn.backend, Key, Resumes)
    /\ Sees(Key, Inlined)
    /\ conv' = Continuation(conv, lastId + 1)
    /\ lastId' = lastId + 1
    /\ turn' = [turn EXCEPT !.phase = "continuing"]
    /\ dropped' = dropped \cup conv.answered
    /\ UNCHANGED <<disk, copy, backend, compacting, memory, count, upset>>

(* The two rejections that a turn does not end with.                        *)
IsGone ==
    /\ turn.phase = "first" /\ turn.resume /\ conv.started
    /\ ~Accepted(turn.backend, Key, TRUE)

IsInUse ==
    /\ turn.phase = "first" /\ ~turn.resume
    /\ ~Accepted(turn.backend, Key, FALSE)

(* "No conversation found": the session is gone, run once more as a fresh   *)
(* one with the stored history.                                             *)
Recovers ==
    /\ IsGone
    /\ turn' = [turn EXCEPT !.phase = "recovering"]
    /\ UNCHANGED <<store, copy, backend, compacting, cli, memory, count, history>>

(* "Session ID is already in use": it exists, run once more resuming it.    *)
ResumesInstead ==
    /\ IsInUse
    /\ turn' = [turn EXCEPT !.phase = "resuming"]
    /\ UNCHANGED <<store, copy, backend, compacting, cli, memory, count, history>>

-----------------------------------------------------------------------------
(* "!compact", which waits for no turn and lets none begin.                 *)

CompactBegins ==
    /\ compacting = "no" /\ turn.phase = "none"
    /\ conv.asked # {} \/ conv.started
    /\ compacting' = backend
    /\ upset' = (upset \/ ~conv.started)
    /\ UNCHANGED <<store, turn, copy, backend, cli, memory, count, dropped>>

CompactKey == <<compacting, conv.sid>>

(* A thread that codex creates for this run is never heard of again.        *)
CompactRan ==
    IF compacting = "codex" THEN UNCHANGED knows ELSE Sees(CompactKey, {})

(* Any text is taken for success, an authentication failure's or that of a  *)
(* prompt too long included; the memory file holds what the session knew.   *)
Compacted ==
    /\ compacting # "no"
    /\ Accepted(compacting, CompactKey, conv.started)
    /\ CompactRan
    /\ memory' \in {memory \cup (IF conv.started THEN KnownTo(CompactKey) ELSE {})}
          \cup IF Failures \cap {"auth", "overflow"} # {} THEN {memory} ELSE {}
    /\ Save([conv EXCEPT !.sid = None, !.started = FALSE,
                         !.asked = {}, !.answered = {}])
    /\ compacting' = "no"
    /\ UNCHANGED <<turn, copy, backend, lastId, count, history>>

(* The session is not what the record says, or the run fails.               *)
CompactFails ==
    /\ compacting # "no"
    /\ \/ ~Accepted(compacting, CompactKey, conv.started) /\ UNCHANGED knows
       \/ /\ "error" \in Failures /\ Accepted(compacting, CompactKey, conv.started)
          /\ CompactRan \/ UNCHANGED knows
    /\ compacting' = "no"
    /\ UNCHANGED <<store, turn, copy, backend, memory, lastId, count, history>>

-----------------------------------------------------------------------------
(* Between turns the CLI forgets a session that the conversation names: an  *)
(* update, or its pruning.                                                  *)
Pruned ==
    /\ "pruned" \in Failures /\ turn.phase \in {"none", "read"} /\ compacting = "no"
    /\ \E s \in DOMAIN knows :
          /\ s[2] \in {conv.sid, disk.sid, copy.sid}
          /\ knows' = [k \in DOMAIN knows \ {s} |-> knows[k]]
    /\ UNCHANGED <<store, turn, copy, backend, compacting, memory, lastId, count, history>>

(* The host dies and starts again, possibly while a run was about to end.   *)
Crash ==
    /\ "crash" \in Failures /\ (turn.phase # "none" \/ compacting # "no" \/ conv # disk)
    /\ \/ turn.phase \in Running /\ Ran
       \/ /\ compacting # "no" /\ Accepted(compacting, CompactKey, conv.started)
          /\ CompactRan /\ UNCHANGED lastId
       \/ UNCHANGED cli
    /\ conv' = disk
    /\ turn' = NoTurn /\ copy' = Empty
    /\ compacting' = "no"
    /\ UNCHANGED <<disk, backend, memory, count, history>>

Next ==
    \/ \E b \in Backend : SwitchBackend(b)
    \/ SavedWithOthers
    \/ Arrives \/ Begins
    \/ Answers \/ Fails \/ AuthFails \/ Overflows \/ Recovers \/ ResumesInstead
    \/ CompactBegins \/ Compacted \/ CompactFails
    \/ Pruned \/ Crash

Spec == Init /\ [][Next]_vars

-----------------------------------------------------------------------------
(* Properties.                                                              *)

(* The types of the record and of the protocol's state, and that a record   *)
(* marked Started has an id to resume (manager.go:1436-1444).               *)
TypeOK ==
    /\ conv \in Conversation /\ disk \in Conversation /\ copy \in Conversation
    /\ turn \in TurnState
    /\ backend \in Backend /\ compacting \in Backend \cup {"no"}
    /\ DOMAIN knows \subseteq Backend \X (1..MaxId)
    /\ \A s \in DOMAIN knows : knows[s] \subseteq Turn
    /\ memory \subseteq Turn /\ lastId \in 1..MaxId /\ count \in 0..MaxTurns
    /\ dropped \subseteq Turn /\ upset \in BOOLEAN
    /\ \A c \in {conv, disk, copy} : c.started => c.sid # None

(* A turn fails because its run failed, never because record and CLI        *)
(* disagree on whether the session exists (manager.go:1585, 1633): the CLI  *)
(* takes the session's id or rejects it in a way that is retried.           *)
NoDeadEnd ==
    turn.phase \in Running =>
        Accepted(turn.backend, Key, Resumes) \/ IsGone \/ IsInUse

(* The session that the next turn goes on with, without being told what was *)
(* said before: a Started one, or one that claude says is in use.           *)
GoesOnWith(s) ==
    /\ s = <<backend, conv.sid>> /\ s \in DOMAIN knows
    /\ conv.started \/ backend = "claude"

(* "inline nothing while the CLI holds the session" (manager.go:2030-2039): *)
(* that session has seen every turn the stored history has an answer to.    *)
SessionHoldsHistory ==
    turn.phase = "none" /\ compacting = "no" =>
        \A s \in DOMAIN knows :
            GoesOnWith(s) => conv.answered \subseteq knows[s] \cup dropped

(* Through failed runs, resets, recoveries, pruning and crashes the session *)
(* holds the history, as long as the backend stays, codex names its threads *)
(* and no compaction ran on a session of its own.                           *)
StaysInContext == ~upset => SessionHoldsHistory

(* "a failure never discards history that wasn't actually saved anywhere    *)
(* durable" (manager.go:526-527): an answer leaves the stored history only  *)
(* when the memory file sums it up.                                         *)
CompactionLosesNothing ==
    [][disk.answered \ disk'.answered \subseteq memory']_vars
=============================================================================
