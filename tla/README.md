# aglink in TLA+

aglink's host (`host/`, Go) puts AI coding CLIs (claude, codex) behind Telegram and a local web
chat: it takes messages, gives every conversation a lane, runs turns on a bounded number of
slots, keeps conversations and scheduled tasks in JSON files and replaces itself by a new
instance without downtime. This directory holds TLA+ models of the parts whose correctness
depends on the order in which things happen, TLC configurations that check them on small
instances, and theorems proved with TLAPS for every instance.

All paths below are relative to the repository's root. `bot.go` without a directory is
`host/bot.go`, and so on.

## 1. Inventory

### Turn dispatcher: lanes, slots, merging (`bot.go`, `queuemerge.go`, parts of `manager.go`)

- State: `Bot.lanes` (per conversation: queue, `running`, `interactive`, `inFlight`),
  `readyLanes`, `runningLanes`, all under `Bot.mu`; `cfg.MaxWorkers`, replaced by a reload.
- Operations: `dispatch` (steer into a live session, queue behind a running turn, start, or wait
  for a slot), `scheduleLocked`, `finishTurn`, `runTurn`, `mergeQueuedHead`, `dispatchLoad`.
- Interactions: every channel, the scheduler, `!parallel` and playbooks call `dispatch`; `runTurn`
  is a goroutine per turn that calls the manager and, deferred, `finishTurn`.
- Hard: turns end in one goroutine while messages arrive in others; a slot is taken and given
  back at different places; the mode of a lane and the client of a turn are read at different
  times; the limit changes under running lanes.
- Correct when: turns of a serial conversation never overlap, run in order and lose nothing;
  slots are counted exactly and stay within the limit; every message is answered.

### Scheduler of reminders and jobs (`scheduler.go`, `task_control.go`)

- State: the task list and `tasks.json`; `cronEntries`, `stopChs`; the cron runner's entries; one
  goroutine per armed one-shot.
- Operations: `AddTask`, `PauseTask`, `ResumeTask`, `CancelTask`, `UpdateTask`, `UpsertTask`,
  `DeleteTask`, `DeleteTasksForPlaybook`, `register`, `deregister`, `fire`, `removeByID`, `Load`,
  `Run`.
- Interactions: `fire` hands the task to the bot (`dispatch`) and may run a pre-check script.
- Hard: a timer that has expired no longer looks at its stop channel; `fire` gives up the lock
  for its script; saves may fail; the host may die between firing and removal.
- Correct when: what is armed matches the list, confirmed tasks survive, a stopped task does not
  start by itself, a ready one-shot leaves the list.

### Restart and handoff (`bot.go` 1472-1683, `main.go`, `platform_*.go`)

- State: two or more processes, `aglink.pid`, one ready file per old instance,
  `Bot.restarting`, the running turns.
- Operations: `ScheduleRestart` (from a config reload), `!restart`, `!update`, `handoffRestart`,
  the newcomer's start in `run`, `waitForProcessExit`.
- Hard: timeouts on both sides, newcomers that fail or come late, turns that start meanwhile.
- Correct when: never two instances that serve, never none, a restart always concludes.

### Conversation store, summaries and the turn's saves (`store.go`, `manager.go`, `convsummary.go`)

- State: `store.json` and the records in memory (`fileStore.mu`), `telegramMu`; the Manager's
  `summaries` and `summaryInflight` (`summaryMu`).
- Operations: `NewWebConv`, `DeleteWebConv`, `GetWebConv`, change and `UpdateWebConv` of an edit,
  `!compact`, a turn's read and its two saves, `summaryForFreshSession`,
  `refreshSummaryAsync`, `adoptCachedSummary`.
- Interactions: turns, commands, the web panel and background summaries all change the same
  records; every save writes all of them.
- Hard: nobody changes a record under the store's lock. A turn reads a conversation, runs for
  minutes and then writes its copy back; its record may or may not be the store's own by then; ids
  are used again; a summary is ready long after the turns it was made from.
- Correct when: a change is undone only by somebody who overlapped with it, and what a fresh
  session is told leaves out no turn.

### Turn watchdog (`turnwatch.go`, parts of `bot.go`)

- State: per turn `cancelEntry` (start, deadline, timer, `timedOut`, last activity), its context.
- Operations: the timer's callback, `!timeout` in its three forms, `!cancel`, lines of the CLI, the
  end of `runTurn`.
- Hard: a callback that has fired waits for the lock that a command or the turn's end holds; the
  flag and the context are read one after the other.
- Correct when: a turn that has reached its cap or fell silent is stopped, not before the total the
  user was told, and reported as what it was.

### CLI sessions (`manager.go`, `runner.go`, `runner_codex.go`)

- State: a conversation's `SessionID`, `Started`, context counters and history, in memory and in
  `store.json`; the sessions that the CLIs keep, with what each has seen.
- Operations: `runWorker` (reset or resume, the run, the retries after "not found", "already in
  use" and an overflow, the final save), `CompactTelegramConversation`, `SetBackend`.
- Interactions: a run is a child process per turn; `telegramMu` makes turns and compactions of the
  telegram stream exclude each other, but a turn reads its copy of the record before the lock.
- Hard: after a crash, a failed or cancelled run, a pruning or a backend switch the session exists
  on one side only, or has seen less than the record says.
- Correct when: no turn ends because the two disagree, a session that is resumed without the
  history has seen it, and history is dropped only when it was saved elsewhere.

### Persistent worker pool (`runner_persistent.go`)

- State: the pool's map of resident processes, their busy flags, idle timers, signatures and
  streams; `closed`; `runtime.persistent_worker`.
- Operations: `acquire`, `turn` with its stale check, its writer and its reader, `release`,
  `evictIdle`, `retireIdle`, `retire`, `drainUntilExit`, `Close`, and `runTurn`'s one retry.
- Interactions: a lane's turn acquires; the CLI echoes a message, answers, and may run turns of its
  own or die; timers, config reloads and shutdown retire.
- Hard: all of these at once, and what was on a process's stdout before the prompt was sent.
- Correct when: a process serves one turn at a time, none is taken away while a turn works with
  it, an answer is the answer to its prompt, and none is left running.

### Interactive ConPTY session (`runner_conpty_windows.go`)

- State: the session's pending turns, screen output, idle ticks. Hard: output of one turn taken
  for the answer of the next. Correct when: an answer belongs to its question.

### Approvals (`approval.go`, `screen/approval.go`, `web/approvalgate.go`)

- State: pending requests, a channel with room for one answer each; the prompts that telegram
  chats and clients show; the HTTP call of the tool server that waits.
- Operations: `askApproval`, the answers by button, dialog, `!ok` and `!no`, the withdrawal of the
  prompts, the middleware's call and every error it turns into a refusal.
- Hard: an answer against the timeout, two answers, an answer while the prompts are still being
  sent or already being taken back, a caller that has given up, a host that restarts.
- Correct when: nothing risky is done unless the first answer was yes.

### Screen control lease (`screen/screen_lease_windows.go`, `screen/screen_notify_windows.go`)

- State: a lease file that several processes take, renew and take over; per process the watcher of
  real input and the time of its last own input.
- Operations: `acquireControlLease`, `beginSyntheticInput` with its two waits for the user and its
  notice, `runSequence` (`screen_batch_windows.go`).
- Hard: the waits are longer than the lease lives; the user moves at any time; a process dies.
- Correct when: one process drives the screen, and the user is warned after an interruption.

### The rest

Hub and channels (`hub.go`, `chatcontrol.go`, `chat/`): transport and fan-out. Configuration
(`config*.go`, `settings.go`): loading and hot reload; its effects on the dispatcher and on
restarts are modelled where they land. Commands (`bot.go`, `*_control.go`): those that change
state of the components modelled are actions there. Playbooks, shared memory and history search:
text stores with one lock each. Remote sessions (`claudesession*.go`), supervision of
`aglink-chat` and plugins, `health.go`: loops around processes and services. `screen/`, `web/`,
`desktop/`, `installer/`, `vscode/`, `scripts/`: operating-system calls, a browser relay, a user
interface, packaging. The reasons why they are left out are in `PROJECT.json`.

## 2. Modules

| module | models | lines of code |
|---|---|---|
| `ConversationTurns` | abstract: what the dispatcher promises to a conversation | |
| `LaneDispatch` | the dispatcher, detailed; implements `ConversationTurns` | `bot.go` 578-839, `queuemerge.go`, `manager.go` 126-189 |
| `LaneDispatchProofs` | the theorems about `LaneDispatch`, and that it implements `ConversationTurns` | |
| `TaskScheduler` | the scheduler | `scheduler.go` 81-612, 916-931 |
| `TaskSchedulerProofs` | the theorems about `TaskScheduler` | |
| `RestartHandoff` | restarts across instances | `bot.go` 1472-1683, `main.go` 227-563 |
| `RestartHandoffProofs` | the theorems about `RestartHandoff` | |
| `SessionProtocol` | one conversation against the CLIs' sessions | `manager.go` 436-580, 1436-1861 |
| `SessionProtocolProofs` | the theorems about `SessionProtocol` | |
| `ConversationStore` | the records, everybody who changes one, and the summaries | `store.go` 30-495, `convsummary.go` 59-307, the reads and saves of `manager.go` |
| `ConversationStoreProofs` | the theorems about `ConversationStore` | |
| `TurnWatchdog` | the watchdog, `!cancel`, `!timeout` and a turn's end | `turnwatch.go` 68-170, `bot.go` 711-839, 1166-1273 |
| `TurnWatchdogProofs` | the theorems about `TurnWatchdog` | |
| `PersistentPool` | the resident processes and the turns that use them | `runner_persistent.go` 88-853 |
| `PersistentPoolProofs` | the theorems about `PersistentPool` | |
| `ToolApproval` | the approval of a tool call | `approval.go` 31-281, `screen/approval.go` 71-93 |
| `ScreenLease` | processes that share the screen with each other and the user | `screen/`: `screen_lease_windows.go`, `screen_notify_windows.go` 225-328, `screen_userwatch_windows.go`, `screen_batch_windows.go` |
| `ScreenCalls` | calls from the middleware to the input: the two before, composed | `screen/approval.go` 42-107 |
| `ScreenCallsProofs` | the theorems about `ScreenCalls` | |
| `MC*` | constants for TLC; modules whose constants are numbers and sets of model values need none | |

### LaneDispatch

One action per critical section of `Bot.mu`. `Dispatch` is `dispatch` with its four outcomes
(`Steer`, `Queue`, `StartNow`, `WaitForSlot`); `Begin` is the point at which the turn's goroutine
has registered its cancel entry and the handler picks the client; `Finish` is `finishTurn` with
its paths for interactive and serial lanes, `Chain` and `Release`, the latter including
`scheduleLocked`. `ReloadLimit`, `SetInteractive` and `SetChannelBackend` are the changes of
settings that reach it.

- A queue is kept message by message; `merged` says how many messages the head entry carries,
  because `mergeQueuedHead` only ever merges into the head. Texts are left out: a message carries
  its `MergeClass`, which stands for the fields `mergeCompatible` compares, and `Alone` for the
  messages that are never merged (commands, `noMerge`, scheduled ones).
- `accepted` and `done` are history variables: what dispatch took in and what ended turns
  answered. A turn that was cancelled, timed out or panicked is also "answered": the user gets
  the message that says so, and the deferred `finishTurn` runs in all cases.
- The branch of `finishTurn` for a lane that is not in the map is kept in `Finish`, although no
  behaviour reaches it (that is part of `OneTurn`).

### TaskScheduler

One action per critical section of `Scheduler.mu`; `Deliver` is the part of `fire` without the
lock. Times are left out: an armed timer may expire, and a cron entry tick, at any moment; what
an expiry does to a task that is not due by its text is therefore the same as for one that is.
`entries` and `stopChs` are the scheduler's maps, `ticks` what the cron runner really holds and
`routines` the goroutines that are really alive, so that the maps can be wrong about them.

### RestartHandoff

Processes, their ready files and the pid file. Timers are modelled by the order they enforce:
the parent looks every 0.5 s and the newcomer waits at least a second after its signal, so a
parent that still waits sees the file before the newcomer serves (`WillSeeReady`); the newcomer
kills the process it waits for after 10 s; the parent kills the newcomer after 60 s. Starting a
process and writing the ready file may fail. `Overlap` says whether a restart may be asked for
while another goes on, `TurnOutlastsCap` whether a turn outlasts the 1200 s that a scheduled
restart waits. Telegram's answer to two pollers (the loser gets 409 Conflict) is left out.

### SessionProtocol

One conversation, the telegram stream, whose turns follow one another. `Arrives` is the handler
up to `telegramMu`, where the turn has read its copy of the record; `Begins` is `runWorker` up to
the run: the self-heal of an empty id (`WithId`), the resets (`ResetOf`) and the save of the
pending prompt. A run has one outcome: `Answers`, `Fails`, `AuthFails`, or one of the three that
are retried, `Recovers`, `ResumesInstead` and `Overflows`. `CompactBegins`, `Compacted` and
`CompactFails` are `!compact`.

- The CLIs are external. `knows` holds their sessions and which turns each has seen; claude takes
  the id it is given and rejects one it has, codex names new threads itself and may not name one
  (`extractThreadID`); either rejects to resume what it does not have.
- `conv` is the record in memory and `disk` the one in `store.json`. They differ after
  `makeContinuation`, which changes the record in place, and after a save that failed.
  `SavedWithOthers` is any other save: the file is written whole.
- Context counters are reduced to whether they allow or ask for a reset (`big`); the hour after
  which an idle claude session is reset may pass at any time.
- `dropped` and `upset` are history variables: the turns an overflow reduced to a one-line
  summary, which the code says it does, and whether something happened after which the code
  cannot keep a session up to date (a switch, a missing id, a compaction of a session of its own).
- Histories stay shorter than what a fresh prompt carries (40 turns, 24 000 characters).

### ConversationStore

The store as `store.go` has it, one map whose lock is held for one read or one write, and around
it everybody who reads a record, changes the copy and puts it back. `GetForEdit` and `PutEdit` are
the two halves of every edit (`Rename` stands for title, work folder, backend and mode, `Pin` for
the model, which a turn picks up, `Compaction` for `!compact`). A turn is `Read`, `Prepare` with
`Summarised`, `SavePending`, then `Answer` or `Fail`, `SaveAnswer` and `EndTurn`.

- `live` says whether the record in the store's map is a turn's own: `UpdateWebConv` keeps the
  pointer it is given, and `GetWebConv` gives clones, so that after `SavePending` the turn
  changes the stored record in place until somebody else replaces it.
- Turns are numbered in the order in which they read, and the number stands for the time stamp. A
  summary is the set of turns its text was made of and the time stamp it claims (`upTo`).
- `sync` and `seen` are history variables of an actor: whether anybody else changed the record
  since it read it, or since it last looked. The properties are stated with them.
- `disk` and `saved`: a save writes all records and may fail (`SaveLocked`); a restart reads them.
- Some turns lie in the past, `Past` of them, the first `PastWeb` in a web conversation and the
  others in the telegram stream, so that histories are as long as summaries need them.
- `stale` is a history variable: an edit has put back a copy that somebody else had overtaken
  (`PutEdit`). The record then regains turns that a later summary was made without but claims by
  its time stamp, and no fresh prompt carries them: a rename reads a conversation, which is deleted,
  a new one gets its id, is used and summarised, and the rename puts the old one back.
  `FreshContextIsComplete` speaks of the time until then. Without that condition it is false; TLC
  finds this behaviour with three web turns after the past ones, one more than the run has.

### TurnWatchdog

Time is a number; every turn has its cap, its idle window and one timer. A timer that fires puts
its callback into `fired`, where it waits for the lock; `Check` is its critical section and `Stop`
the cancellation after it. `Adjust` is `adjustTimeout` for the three forms of `!timeout`. The end
of a turn is in five steps, because the flag, the context and the registration are looked at one
after the other. `Tick` waits for due callbacks: time does not pass while one is on its way, which
says that callbacks are prompt, not that they are atomic. `promised`, `stopped` and `unfinished`
are history variables.

### PersistentPool

A turn goes through `acquire` (`Refused`, `Reuse` or `Spawn` with those it retires to make room),
`Spawned` or `SpawnFails`, the check for stale output (`Check`), `Send` in a goroutine of its own,
`Read` line by line, and an end: the release with a result, `Ended`, `Cancelled`, or `Drain` after
an error. A turn starts at most one process, which is named after it.

- The CLI is external: it takes one message at a time, echoes it (the replay), speaks while it
  works (texts, which stand for every line that is no result), answers with a result or an error,
  adds lines that say nothing (lifecycle), runs turns of its own, or exits at any of these points.
  Texts that follow each other unread are one line. A text after the replay is the turn's output,
  and it is what decides whether a turn whose process fails may be run again (`MayRetry`).
- `Kill` takes what nobody has read, `Retired` only closes stdin, and `GraceOver` is the kill that
  follows. In the code a turn that is still there may read what had come through before the kill;
  in the model it has read that before the kill, which makes no difference to what it does. Idle timers may fire at any moment; `lastUsed` is an order, which is what the LRU needs.
- Lanes are not assumed: two turns of a conversation may ask for its process at once.

### ToolApproval, ScreenLease and ScreenCalls

`ToolApproval` follows a request through the host: prompts go out one after the other while
answers already come in, the waiter takes an answer or its timeout, the prompts are taken back,
and only then is the request forgotten. `first` is what the user said first. `ScreenLease` follows
an action through `beginSyntheticInput`: lease, wait for the user, wait for quiet, notice, lease
again, input. `ScreenCalls` instantiates both: a call begins in the middleware (`Begin`), is held
there if one of its actions is on the user's list (`Gated`, which looks into batches), and is
released or refused by what the host says (`Heard`) or by silence (`Unheard`); a crash of the
process is a step of both.

- The lease's time to live is a flag that time may take away (`LeaseAges`); a file or a mutex that
  fails lets the process through, which is what the code does (`unguarded`).
- A user is active, pausing (within the second window) or quiet. Process ids are not used again.
- `web/approvalgate.go` is the same middleware for the browser tools; it is not modelled twice.

Definitions whose comment begins with "Faulty" are variants of the definition after them, with
a bug a programmer could make; no specification uses them. Replacing the definition by its
variant must make TLC report the property `PROJECT.json` names, which shows that the property
would notice that bug.

## 3. Runs

| run | question | bounds | result |
|---|---|---|---|
| `lane_serial` | do conversations without a live session keep order and slots, and does none wait beside a free one? | 3 lanes, 6 messages, limit 1 or 2, changing | 31 384 states, holds |
| `lane_interactive` | is every message answered where turns join a live session, with mode and backend changing? | 2 lanes, 4 messages, limit 1 or 2 | 45 248 states, holds |
| `scheduler` | does what is armed match the list, through failing saves and a crash? | 2 tasks, 3 commands, 1 crash, 3 goroutines | 603 216 states, holds |
| `restart_handoff` | one server, never none, and an end of every restart? | 4 instances, 3 messages, no overlap | 11 241 states, holds |
| `session_protocol` | does every turn find a session, and has a resumed one seen the history? | 3 turns, 7 ids, all failures but failing saves | 733 974 states, holds |
| `conversation_store` | what can be undone by whom, and what is a fresh session told? | 2 conversations, 2 turns after 5, 3 edits, 2 at once, 1 restart | 1 072 453 states, holds |
| `persistent_pool` | has a turn its process to itself and one process for its answer, and does everything end? | 3 turns, 2 conversations, 2 signatures, a pool of 1, 1 event | 393 151 states, holds |
| `turn_watchdog` | is a turn stopped in time, not too early, and reported as what it was? | 1 turn, window 3, cap 4, 9 steps of time, 3 commands | 671 710 states, holds |
| `screen_calls` | is risky input approved, the screen not shared, and does every call end? | 2 calls in 2 processes, batches of 2, 2 answers, 1 fault | 400 870 states, holds |
| `task_fires_twice` | does a one-shot run once, as its test says? | 2 tasks, 3 commands, no crash | violated, finding |
| `summary_leak` | is a conversation's summary made of its own turns, as `types.go:226` says? | 1 web conversation, 2 turns after 4 | violated, finding |
| `yield_unbounded` | is the wait for the user bounded, as `screen_notify_windows.go:282` says? | 2 calls, no faults | violated, finding |

Why these bounds are enough to see the interesting cases:

- `lane_serial`: two slots and three lanes make one lane wait while two run; four messages in one
  lane allow a merged head of three followed by one that must not merge, and a head that grows
  while the lane waits. A limit that changes between 1 and 2 at any time gives lanes that run
  beyond a lowered limit.
- `lane_interactive`: the telegram message can hold the only slot while the web lane builds up a
  backlog of up to three, after which its turns are steered while the backlog remains.
- `scheduler`: three commands are enough for add, pause, resume and add, edit, delete in any
  order around an expired timer; a second task makes a dependency possible; one crash separates
  memory from disk. Three goroutines hold two timers and a tick. A repeat may tick at any time,
  so `MaxRoutines` is what keeps the model finite; a command is only taken while a number is free.
- `restart_handoff`: four instances allow three successive starts: a newcomer that fails, one that
  comes too late, one that takes over, and what each leaves behind for the next.
- `session_protocol`: three turns give one that creates a session, one that fails, overflows or
  crashes around it, and one that meets what is left; seven ids are enough for a reset, an
  overflow and a new thread in each. Failing saves are left to the theorems: with them this run
  has several million states.
- `conversation_store`: the past turns, with the constants for the tail of a summary and for its
  reuse at one, not the source's five and six, give every way in which `summaryForFreshSession` decides; a web
  turn and the telegram stream, a rename, a pin and a compaction overlap in pairs, which is all
  that reading and writing one record back takes. No two saves in a row fail.
- `persistent_pool`: a pool of one makes the second conversation retire the first one's process or
  exceed the cap; two turns of one conversation, with two signatures, give reuse, replacement and
  refusal; the third meets what two left behind. One event is one death, one turn of the CLI's
  own, one shutdown or one change of the option; cancellations and idle timers are not bounded. A
  process that was used, spoke and died is within reach with that one event. Conversations that
  the pool does not know yet, and the first arguments of one, are taken in order (`Known`), since
  only equality within a conversation matters.
- `turn_watchdog`: a cap that is not a multiple of the window, and time for more than two caps, so
  that extensions of every kind meet the window, the cap, and a callback that came too early. The
  turns of a lane do not touch each other's entries, and `!timeout` and `!cancel` treat each alike.
- `screen_calls`: two processes, since the lease, as the approval, is between one who has it and
  one who wants it; a batch of two allows an upset between its actions; two answers can cross.

Runs do not check for deadlock: messages, turns, commands and instances are bounded, and a system in
which all of them are used up may stop. What must not stop is stated as liveness.

### Fairness

- `LaneDispatch`: weak fairness of each turn's `Begin` and `Finish`. A goroutine gets to run, and
  its handler returns: the watchdog cancels the CLI's context at the absolute cap. None is
  assumed of arriving messages or settings.
- `TaskScheduler`: weak fairness of each goroutine's next step: timers expire, the lock is
  granted, the pre-check has a timeout of 30 seconds. None of cron ticks or commands.
- `RestartHandoff`: weak fairness of what each process does next. Nothing is assumed of the
  length of turns: a scheduled restart must conclude although a turn never ends.
- `PersistentPool`: weak fairness of the host's steps taken together (`HostStep`): as long as a
  goroutine, a timer or a kill can go on, one of them does; and of the total limit of a turn and
  the grace period of a process that is being retired (`LimitReached`), which no amount of output
  puts off: a CLI that never stops talking would keep the reading turn, and with it `HostStep`,
  busy for ever. (The user may put the limit off with `!timeout`, which is left to
  `TurnWatchdog`; not for ever.) Nothing is asked of the CLI, which may neither answer nor exit. That is enough,
  since there is a bounded number of turns and processes to end.
- `ScreenCalls`: weak fairness of each request's steps in the host and in the middleware, whose
  waits have timeouts, and of each screen process. None of the user or of answers:
  `CallsEndWhenQuiet` supposes only that the user leaves the mouse alone one day.
- `SessionProtocol`, `ConversationStore` and `TurnWatchdog`: none. Their properties are safety
  properties; that of the watchdog which is about time (`StoppedInTime`) is an action property of
  the step that lets time pass.

### Findings

1. `task_fires_twice`: editing a one-shot whose timer has just expired arms a second goroutine;
   the task is delivered twice.
2. `summary_leak`: finished summaries are kept by conversation id and no deletion clears them,
   whereas `nextConvID` gives the id of a deleted newest conversation to the next one: its first
   save adopts the deleted conversation's summary.
3. `yield_unbounded`: only the first of `beginSyntheticInput`'s two loops looks at the deadline.
   A user who moves the mouse now and then keeps a call in the second one for as long as they like.

Six more disagreements between the code and what is said of it are reproduced by properties of
the modules that no listed run checks; their configurations are kept and TLC reports the
violation in seconds:

- `MCLaneSteering.cfg`, `ConcurrentTurnsAreLive`: `HandleWebTarget` passes the stored flag
  `c.Interactive`, false until an explicit `!interactive on`, to `clientFor`, whereas the lane's
  mode comes from `IsInteractive`, true by default (`manager.go:153-161`). Steered turns then run
  two at once on the per-turn client.
- `MCLaneParallel.cfg`, `AlonePromptsRunConcurrently`: the prompts of `!parallel` share the
  telegram lane and run one by one (`bot.go:2673-2675`).
- `MCRestartKills.cfg`, `ScheduledRestartKillsNone`: messages are accepted while the newcomer
  starts; the exit kills their turns (`bot.go:1642-1645`).
- `MCRestartTwice.cfg`, `OneServer` with `Overlap`: `!restart` does not look at `restarting`; two
  newcomers end up serving.
- `MCSessionSwitch.cfg`, `SessionHoldsHistory`: after codex, claude (recovered under codex's id)
  and codex again, the thread is resumed without claude's turns, and the prompt inlines none of
  them (`manager.go:2030-2039`).
- `MCSessionCompact.cfg`, `CompactionLosesNothing`: a compaction looks at the CLI's exit only; the
  text of an expired login counts as the saved memory file, and the history is dropped
  (`manager.go:526-527`).

## 4. Proofs

`LaneDispatchProofs` proves, from `LaneAssumption` (the shapes of the constants) and
`LimitAssumption` (limits are positive numbers) only, for every set of lanes and messages:

| theorem | property |
|---|---|
| `TypeCorrect` | `TypeOK` |
| `OneTurn` | `OneTurnPerLane` |
| `SlotsExact` | `SlotAccounting` |
| `LimitKept` | `SlotLimit` |
| `InOrder` | `AnsweredInOrder` |

The argument is one chain of inductive invariants, each proved relative to those before it, with
one step per action and, below it, one per conjunct the action can disturb:

1. `TypeInv`: the types, and that `merged` stays within the queue. `TypeOK` alone is not
   inductive: without the bound on `merged`, the head of a queue would not be a sequence.
2. `TurnInv`: every turn's lane is in the map and runs; a queued turn carries exactly the head of
   its lane; a serial lane has no steered turn; a running lane has a turn. This is what makes
   `finishTurn` pop the entry that ran and not one that came later.
3. `SlotInv`: `runningLanes` is the number of running lanes and `inFlight` the number of the
   lane's turns. It needs `TurnInv` to know that the turn that ends was counted, and lemmas on
   the cardinality of the set of lanes that `scheduleLocked` promotes.
4. `OrderInv`: for a serial lane, accepted = done followed by the queue. `Finish` moves the head
   from the one to the other, which is where `TurnInv`'s equation is used.

`LimitKept` is an action property: only `StartNow` and `scheduleLocked` raise `runningLanes`, and
both look at the limit in the same critical section.

The second half of `LaneDispatchProofs` proves, from the same assumptions:

| theorem | property |
|---|---|
| `PromiseKept` | `KeepsPromise`, the refinement of `ConversationTurns` |
| `NothingLost` | `NothingLostInLane` |
| `NoIdleSlot` | `NoIdleSlotWhileWaiting` |
| `IdleLanes` | `IdleLanesWait`, which no run checks |

The refinement maps a message to "new", "waiting", "running" or "done" by where it is found. A step
of `Begin` or `Finish` is a step of the promise on one segment of what the lane accepted, and most
of the work is to find it (`TurnIsBatch`). `AllKept` (`KeptAt`) says that a lane's messages are
answered, queued or steered and nowhere else; `PlaceInv`, that these three are disjoint, so that no
two turns share a message and none runs twice; `FitInv`, that the queue of a lane that is not
interactive is the end of what it accepted, that the head of a queue holds only messages that may
share a prompt, and that an interactive lane never merges. `OrderInv` then gives the promise to a
serial lane, that everything before the segment is done. Settings and reloads are stutters.

`SessionProtocolProofs` proves, from `SessionAssumption` only, for every number of turns and ids
and every set of failures, failing saves included:

| theorem | property |
|---|---|
| `SessionTypeCorrect` | `TypeOK` |
| `NoTurnDeadEnds` | `NoDeadEnd` |
| `ContextIsKept` | `StaysInContext` |

Its inductive invariant `IInv` has four parts besides the types: `Records` (no id above the last
one minted, and a record that is Started or not empty has one: a compaction, which begins from
such a record, has a session to ask), `Sessions` (no CLI knows an id above the last
one minted, which is why a fresh id is never rejected), `Room` (what a turn may still mint), and
`PhaseInv` (what the phase of a turn says about its session: a turn that runs once more after a
rejection has an id the CLI takes). `NoDeadEnd` follows from `PhaseInv`; the parts about `Records`
are needed for the steps that read the turn's copy, the file or the CLI. `ContextIsKept` needs a second
invariant, `ContextInv`: while nothing upsets them, the session named by the record in memory, by
the one in the file (which a crash brings back) and by the copy of a turn that waits (which the
turn brings back) has seen that record's answers (`HoldsFor`); of two of these that name one
session the older has no answer more (`NoNewer`), so that what the run adds for one is enough for
the other; and the turn goes for the backend and the kind of session that the record says
(`SameSession`).

`TurnWatchdogProofs` proves, from `WatchdogAssumption` only, for every set of turns and commands and
every cap, window and bound on time:

| theorem | property |
|---|---|
| `TypeCorrect` | `TypeOK` |
| `ExtensionsHold` | `ExtensionHolds` |
| `StopsAreReported` | `StopIsReported` |
| `WatchdogIsPrompt` | `StoppedInTime` |

Its invariant says of every turn that it is `Watched` (its timer is armed for no later than the
turn may go on without another line, or a callback is on its way: this is what an early callback,
a line and each form of `!timeout` must restore), `Decided` (a flag that is set is followed by the
cancellation, and nothing else sets the watchdog's), `Promised` (no total that a user was told is
beyond the deadline in force) and `Reported`.

`ScreenCallsProofs` proves, from `CallsAssumption` only, for every number of requests, processes,
chats, clients, batches and faults:

| theorem | property |
|---|---|
| `OneAtTheControls` | `OneDriver` |
| `UserIsWarned` | `WarnedAfterYield` |
| `TypeCorrect` | `TypeOK` |
| `RiskyIsApproved` | `RiskyInputIsApproved` |
| `ButtonsAreLive` | `NoStaleButtons`, which no run checks: a button that is still shown finds its request pending |

It proves about the two components what the composition needs of them. `LeaseInv` is about the
screen alone: who sends input has a fresh lease of its own, or has outlived it, or went on without
one (`Guarded`), and who has yielded has lost its earlier notice (`Warned`). `Requests` is about
the approval alone: a verdict is the answer in the channel, and that is the first one (`Verdict`).
`CallInv` ties the two: a process whose remaining actions are gated is held, its call still asking,
or the call was approved (`AtWork`); that it is kept by the steps of either component alone is
where the lemmas about what those steps leave unchanged are used (`CallActs`, `HostKeepsCallers`,
`ProcessGoesOn`, `ApprovedForGood`).

`PersistentPoolProofs` proves, from `PoolAssumption` only, for every number of conversations,
signatures and turns, every cap and every number of deaths, own turns and switches:

| theorem | property |
|---|---|
| `TypeCorrect` | `TypeOK` |
| `OneTurnEach` | `OneTurnPerProcess` |
| `InUseIsKept` | `InUseIsLeftAlone` |
| `OutputStays` | `OutputIsFinal` |
| `AnswersAreOwn` | `AnswerIsOwn` |
| `CapIsKept` | `CapUnlessAllBusy` |
| `NoneIsForgotten` | `EveryProcessIsOwned`, which no run checks: a process that runs is pooled or a turn's |

`Inv` adds to the types what a turn's phase says about its process (`Working`: while the pool is
open the process is pooled and busy, a draining turn's is not pooled, a turn that may still spawn
never has) and that no process has two turns or two conversations (`Apart`). Most actions take a
set of processes out of the pool and move one turn; `Taken` shows once that such a step keeps
`Inv`, and each action is shown to be one (`Takes`, `Goes`). `EchoInv` carries `AnswerIsOwn`: in
the unread lines of a process the replay of a message, and each text about it, is followed by
another text about it or by its answer, or is the last line while the process works on that
message or is gone (`Echo`), and the same holds of a turn that has read its replay (`Heard`).
That no other turn drops or reads those lines is `Apart`. For `OutputStays`, `OutputInv` says that
only a turn that reads or drains has heard anything, so that whatever ends it meets the guard of
the retry with what was heard (`GivesUpOutput`), and that no step forgets it (`Outputs`).
For `CapIsKept`, `Ordered` says that the times of last use order the idle processes; of those that
need not make room the longest unused one (`LeastNumber`) is younger than none of its kind, so all
that are older make room, and they are enough (`MakesRoom`).

`TaskSchedulerProofs` proves, from `SchedulerAssumption` only, for every set of tasks and forms and
every number of commands, failing saves, restarts and goroutines:

| theorem | property |
|---|---|
| `TypeCorrect` | `TypeOK` |
| `OneShotsArmed` | `OneShotsAreArmed` |
| `StoppedStays` | `StoppedIsStopped` |
| `NoGhosts` | `NoGhostEntries`, which no run checks |
| `ConfirmedKept` | `ConfirmedTaskIsKept` |

The invariant says of each task that what is armed for it is what its state asks for (`Armed`).
The three properties do not hold by themselves: closing a stop channel ends the right goroutine
only if numbers are unique (`Numbered`) and every waiting goroutine of a task in the list is the
one the map names, and a task that is resumed is armed once only if nothing was left of it
(`Off`). Lemmas say what `Register`, `Deregister`, `Forgotten`, `Ended` and `Moved` do to a task and
that they leave the others alone (`SameBut`); a step on one task is then concluded once
(`Concludes`). `Kept` carries `ConfirmedKept`: a goroutine that is about to remove its task has seen
it run or be skipped.

`RestartHandoffProofs` proves, from `HandoffAssumption` only, for every number of instances and messages:

| theorem | property |
|---|---|
| `TypeCorrect` | `TypeOK` |
| `FlagReleased` | `FlagIsReleased`, which no run checks |
| `OneServes`, if restarts do not overlap | `OneServer` |
| `SomeoneServes`, if restarts do not overlap | `NeverWithout` |

Instances are born in order (`Born`), so that a handoff is between the last one and its parent.
`Handover` says at which stage it is: the last instance is alone, or has a parent that still
serves while it starts, or has taken over from a parent that is leaving; in each stage one of the
two, and only one, serves or is about to. With overlapping restarts the two theorems are false
(`MCRestartTwice.cfg`), the first two are not.

`ConversationStoreProofs` proves, from `StoreAssumption` only, for every number of conversations,
turns, edits, compactions and restarts, and every length of tails and summaries:

| theorem | property |
|---|---|
| `TypeCorrect` | `TypeOK` |
| `ChangesAreAtomic` | `AtomicUnlessOverlapped` |
| `PinIsKept` | `PinSetDuringRunIsKept` |
| `ConfirmedIsOnDisk` | `ConfirmedIsDurable`, which no run checks: while no save fails, the file lags by an unsaved answer at most |
| `NothingIsLeftOut` | `FreshContextIsComplete` |

Four invariants, each proved from those before it. `Inv` is about order: whatever is known of a
conversation, in memory, on disk, in a copy, in a summary finished or in the making, is older than
any turn that has yet to write its prompt there (`AllFine`, `Ahead`), so that histories ascend and
a time stamp separates what a summary covers from what follows; that only one turn of a
conversation is at work (`OneTurn`) is what the lane sees to. `SyncInv` says what an actor's marks
are worth: as long as nobody else wrote, the copy is the record (`SyncedTurn`, `SyncedEdit`);
`AtomicUnlessOverlapped` and `PinSetDuringRunIsKept` follow from it step by step. `Durable` compares memory
and file. `CoverInv` carries `NothingIsLeftOut`: every turn of a record, and of the copy of the turn at work,
that a summary claims by its time stamp is in that summary, be it the record's, the cached one or
the one in the making. A summary that is folded on covers what the last one covered and all up to
its own time stamp (`MadeOf`), which needs that histories ascend, and an id that is given again
starts with turns later than any summary left behind under it. An edit that puts back an overtaken
copy breaks it: the record then regains turns from between two summaries (`stale`).

Only model-checked: liveness (`EveryMessageAnswered`, `ReadyOneShotLeaves`, `RestartConcludes`,
`EverythingEnds`, `CallsEndWhenQuiet`) and everything that involves fairness, which is out of the
prover's reach. Every other property of a passing run is a theorem. No module declares a RECURSIVE
operator, and no theorem needs induction over data.

## 5. Not modelled, and why

- Texts, prompts, parsing, wording, logging: data that no property tells apart. That includes the
  text budgets of a summary and of a fresh prompt.
- Wall-clock times of schedules, and with them the notice about runs missed while the host was
  off (`missedRepeat`, `scheduler.go:125`); the tasks that `main.go:388` registers in a goroutine
  while commands already arrive.
- `max_workers` below one. The code only checks the upper bound; the models assume a positive
  limit (`LimitAssumption`), with zero every message waits for ever.
- Of the session protocol: the conversation's own backend override, opencode, and what edits or a
  scheduled turn do to the record during a turn (that is `ConversationStore`).
- Of the store: project conversations and their continuations, which share the pattern of reading
  and putting back, pruning by age, and lanes that steer, whose turns overwrite each other.
- A cancelled task that is resumed, by an explicit command, is pending again although `CancelTask`
  says "permanently"; `TaskScheduler` has the steps, no property forbids them.
- Of approvals: an answer that comes second, or too late, is reported as given; no property says
  otherwise. `web/approvalgate.go`, the same middleware for the browser tools.
- Of the lease: process ids that are used again, and `AGLINK_NO_CONTROL_LEASE`.
- `dispatchLoad`, a number for display (`bot.go:647`).
- The state files that the old and the new instance share during a handoff: `RestartHandoff` has
  processes without files, the store and the scheduler files of one process.
- The order in which inbound browser messages reach `dispatch` (a goroutine each).
- The ConPTY session: whose answer a piece of output is depends on what the terminal shows and on
  how long it has been quiet; a model would have to assume both, and would show what it assumed.
- Components listed as `not_modelled` in `PROJECT.json`: operating-system calls, a browser relay,
  user interfaces, packaging, and loops around processes and services that keep no state another
  part depends on. They are most of the repository's lines.

## 6. Plan

Done: `ConversationTurns`, `LaneDispatch`, `TaskScheduler`, `RestartHandoff`, `SessionProtocol`,
`ConversationStore`, `TurnWatchdog`, `PersistentPool`, `ToolApproval`, `ScreenLease`, `ScreenCalls`,
and the theorems of section 4.

Left, in this order:

1. The files that two instances share during a handoff: `RestartHandoff` composed with
   `TaskScheduler` and `ConversationStore`.
2. Project conversations and pruning in `ConversationStore`, and lanes that steer: `LaneDispatch`
   composed with it.
3. `PtySession`, if a fair model of the terminal's silences is found.
