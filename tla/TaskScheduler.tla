--------------------------- MODULE TaskScheduler ---------------------------
(***************************************************************************)
(* The scheduler of host/scheduler.go: reminders and jobs, kept in a list  *)
(* that is saved on every change, and what is armed for them: one entry of *)
(* the cron runner for a repeat, one goroutine with a timer for a          *)
(* one-shot.                                                               *)
(*                                                                         *)
(* Each action is one critical section of Scheduler.mu, or the unlocked    *)
(* part of fire, which runs the pre-check script for up to 30 seconds and  *)
(* then hands the task to its channel.  Times are not modelled: an armed   *)
(* timer may expire and a cron entry may tick at any moment.               *)
(***************************************************************************)
EXTENDS Integers, FiniteSets

CONSTANTS
    Task,           \* task ids; newTaskID never repeats one
    Form,           \* what users enter for a task: kind, script, deps
    SaveMayFail,    \* whether writing tasks.json can fail
    CountedRuns,    \* bound on the runs counted per task
    MaxCommands,    \* bound on user commands
    MaxCrashes,     \* bound on restarts of the host
    MaxRoutines     \* bound on goroutines alive at once

(* "bad" is a cron expression that does not parse; "unset" is neither a     *)
(* cron expression nor a time, which register accepts and never fires.      *)
Kind == {"once", "cron", "bad", "unset"}

ASSUME SchedulerAssumption ==
    /\ Form \subseteq [kind: Kind, script: BOOLEAN, deps: SUBSET Task]
    /\ SaveMayFail \in BOOLEAN
    /\ CountedRuns \in Nat \ {0}
    /\ MaxCommands \in Nat /\ MaxCrashes \in Nat /\ MaxRoutines \in Nat \ {0}

VARIABLES
    tasks,      \* Scheduler.tasks: id -> task
    disk,       \* tasks.json
    timers,     \* what is armed, see TimerState
    ran,        \* history: runs handed to a channel, counted up to CountedRuns
    skipped,    \* history: ids whose pre-check said not to run
    removed,    \* history: ids the user removed from the list
    acked,      \* history: ids whose creation returned without an error
    known,      \* ids given out so far
    commands,   \* number of commands so far
    crashes     \* number of restarts so far

history == <<ran, skipped, removed, acked, known>>
vars == <<tasks, disk, timers, history, commands, crashes>>

TaskState ==
    [kind: Kind, status: {"pending", "paused", "cancelled"},
     script: BOOLEAN, deps: SUBSET Task]

(* A goroutine: a timer's, from register, or a tick's, from the cron runner.*)
Routine ==
    [n: 1..MaxRoutines, task: Task, once: BOOLEAN, script: BOOLEAN,
     pc: {"waiting", "firing", "running", "ending"}]

(* entries and stopChs are the scheduler's maps cronEntries and stopChs;    *)
(* ticks counts what the cron runner really holds for an id; routines are   *)
(* the goroutines, of which stopChs names the ones a command can stop.      *)
NothingArmed ==
    [entries |-> {}, ticks |-> [id \in Task |-> 0],
     stopChs |-> [id \in Task |-> 0], routines |-> {}]

-----------------------------------------------------------------------------
FreeNumbers(T) ==
    (1..MaxRoutines) \ {r.n : r \in T.routines}

FreeNumber(T) == CHOOSE n \in FreeNumbers(T) : TRUE

TimerRoutine(id, n) ==
    [n |-> n, task |-> id, once |-> TRUE, script |-> FALSE,
     pc |-> "waiting"]

(* register of a task whose schedule is not "bad"; like the code, it does   *)
(* not look whether something is armed for the id already.                  *)
Register(T, id, kind) ==
    IF kind = "cron"
    THEN [T EXCEPT !.entries = @ \cup {id}, !.ticks[id] = @ + 1]
    ELSE IF kind = "once"
    THEN [T EXCEPT !.stopChs[id] = FreeNumber(T),
                   !.routines = @ \cup {TimerRoutine(id, FreeNumber(T))}]
    ELSE T

(* Faulty: an entry is taken from the runner even if the map has none.      *)
DeregisterUnchecked(T, id) ==
    [T EXCEPT
        !.entries = @ \ {id}, !.ticks[id] = @ - 1, !.stopChs[id] = 0,
        !.routines = {r \in @ : r.pc = "waiting" => r.n # T.stopChs[id]}]

(* Closing the channel ends a goroutine blocked in select; one whose timer  *)
(* has expired no longer looks at it.                                       *)
Deregister(T, id) ==
    [T EXCEPT
        !.entries = @ \ {id},
        !.ticks[id] = IF id \in T.entries THEN @ - 1 ELSE @,
        !.stopChs[id] = 0,
        !.routines = {r \in @ : r.pc = "waiting" => r.n # T.stopChs[id]}]

(* removeByID forgets the channel without closing it.                       *)
Forgotten(T, id) ==
    [T EXCEPT
        !.entries = @ \ {id},
        !.ticks[id] = IF id \in T.entries THEN @ - 1 ELSE @,
        !.stopChs[id] = 0]

Without(ts, ids) == [id \in DOMAIN ts \ ids |-> ts[id]]

With(ts, id, t) == [x \in DOMAIN ts \cup {id} |-> IF x = id THEN t ELSE ts[x]]

Filled(t, form) ==
    [kind |-> form.kind, status |-> t.status,
     script |-> form.script, deps |-> form.deps]

(* The outcomes of save: the error is returned to the user or ignored.  The *)
(* file is only read at a restart, so that a failure behind the last one    *)
(* that MaxCrashes allows would make no difference.                         *)
Save ==
    \/ disk' = tasks'
    \/ SaveMayFail /\ crashes < MaxCrashes /\ UNCHANGED disk

Command ==
    /\ commands < MaxCommands /\ commands' = commands + 1
    /\ FreeNumbers(timers) # {}
    /\ UNCHANGED crashes

-----------------------------------------------------------------------------
Init ==
    /\ tasks = [id \in {} |-> 0]
    /\ disk = tasks
    /\ timers = NothingArmed
    /\ ran = [id \in Task |-> 0]
    /\ skipped = {} /\ removed = {} /\ acked = {} /\ known = {}
    /\ commands = 0 /\ crashes = 0

(* AddTask, and UpsertTask without an id; a schedule that does not parse is *)
(* refused before anything changes.  A failed save leaves the task armed.   *)
AddTask(id, form) ==
    /\ Command
    /\ id \notin known /\ form.kind # "bad"
    /\ timers' = Register(timers, id, form.kind)
    /\ tasks' = With(tasks, id, Filled([status |-> "pending"], form))
    /\ Save
    /\ known' = known \cup {id}
    /\ acked' = IF disk' = tasks' THEN acked \cup {id} ELSE acked
    /\ UNCHANGED <<ran, skipped, removed>>

(* Faulty: a paused task keeps its timer.                                   *)
PauseStillArmed(id) ==
    /\ Command
    /\ id \in DOMAIN tasks
    /\ tasks' = [tasks EXCEPT ![id].status = "paused"]
    /\ Save
    /\ UNCHANGED <<timers, history>>

PauseTask(id) ==
    /\ Command
    /\ id \in DOMAIN tasks
    /\ timers' = Deregister(timers, id)
    /\ tasks' = [tasks EXCEPT ![id].status = "paused"]
    /\ Save
    /\ UNCHANGED history

(* Faulty: resuming only changes the status.                                *)
ResumeUnarmed(id) ==
    /\ Command
    /\ id \in DOMAIN tasks /\ tasks[id].status # "pending"
    /\ tasks' = [tasks EXCEPT ![id].status = "pending"]
    /\ Save
    /\ UNCHANGED <<timers, history>>

(* A schedule that does not parse any more leaves the task paused, unsaved. *)
ResumeTask(id) ==
    /\ Command
    /\ id \in DOMAIN tasks /\ tasks[id].status # "pending"
    /\ IF tasks[id].kind = "bad"
       THEN /\ tasks' = [tasks EXCEPT ![id].status = "paused"]
            /\ UNCHANGED <<timers, disk>>
       ELSE /\ tasks' = [tasks EXCEPT ![id].status = "pending"]
            /\ timers' = Register(timers, id, tasks[id].kind)
            /\ Save
    /\ UNCHANGED history

CancelTask(id) ==
    /\ Command
    /\ id \in DOMAIN tasks
    /\ timers' = Deregister(timers, id)
    /\ tasks' = [tasks EXCEPT ![id].status = "cancelled"]
    /\ Save
    /\ UNCHANGED history

(* UpdateTask can only give a task a new cron expression, never a new time; *)
(* "unset" stands for leaving the schedule as it is.  A script or a list of *)
(* dependencies that the command leaves alone is a form that repeats it.    *)
UpdateTask(id, form) ==
    LET t   == tasks[id]
        new == [Filled(t, form) EXCEPT
                    !.kind = IF form.kind = "unset" THEN t.kind ELSE @]
    IN
    /\ Command
    /\ id \in DOMAIN tasks /\ form.kind # "once"
    /\ IF t.status # "pending"
       THEN tasks' = [tasks EXCEPT ![id] = new] /\ UNCHANGED timers
       ELSE IF new.kind = "bad"
       THEN /\ tasks' = [tasks EXCEPT ![id].status = "paused"]
            /\ timers' = Deregister(timers, id)
       ELSE /\ tasks' = [tasks EXCEPT ![id] = new]
            /\ timers' = Register(Deregister(timers, id), id, new.kind)
    /\ Save
    /\ UNCHANGED history

(* UpsertTask of a task that exists: on a schedule that does not parse, the *)
(* old task is put back and armed again.                                    *)
EditTask(id, form) ==
    LET t   == tasks[id]
        new == Filled(t, form)
    IN
    /\ Command
    /\ id \in DOMAIN tasks
    /\ IF t.status # "pending"
       THEN tasks' = [tasks EXCEPT ![id] = new] /\ UNCHANGED timers /\ Save
       ELSE IF form.kind = "bad"
       THEN /\ timers' = Register(Deregister(timers, id), id, t.kind)
            /\ UNCHANGED <<tasks, disk>>
       ELSE /\ tasks' = [tasks EXCEPT ![id] = new]
            /\ timers' = Register(Deregister(timers, id), id, form.kind)
            /\ Save
    /\ UNCHANGED history

DeleteTask(id) ==
    /\ Command
    /\ id \in DOMAIN tasks
    /\ tasks' = Without(tasks, {id})
    /\ timers' = Forgotten(timers, id)
    /\ Save
    /\ removed' = removed \cup {id}
    /\ UNCHANGED <<ran, skipped, acked, known>>

(* The tasks of a deleted routine; any of them may name it.                 *)
DeleteTasksForPlaybook(ids) ==
    /\ Command
    /\ ids # {} /\ ids \subseteq DOMAIN tasks
    /\ tasks' = Without(tasks, ids)
    /\ timers' =
          [entries  |-> timers.entries \ ids,
           ticks    |-> [id \in Task |-> IF id \in ids \cap timers.entries
                                         THEN timers.ticks[id] - 1
                                         ELSE timers.ticks[id]],
           stopChs  |-> [id \in Task |-> IF id \in ids THEN 0
                                         ELSE timers.stopChs[id]],
           routines |-> {r \in timers.routines :
                             r.pc = "waiting" =>
                                 \A id \in ids : r.n # timers.stopChs[id]}]
    /\ Save
    /\ removed' = removed \cup ids
    /\ UNCHANGED <<ran, skipped, acked, known>>

-----------------------------------------------------------------------------
(* The goroutines.                                                          *)

Quiet == UNCHANGED <<commands, crashes>>

Ended(T, r) == [T EXCEPT !.routines = @ \ {r}]

Moved(T, r, pc, script) ==
    [T EXCEPT !.routines = (@ \ {r}) \cup
                           {[r EXCEPT !.pc = pc, !.script = script]}]

(* The timer expires.                                                       *)
Wake(r) ==
    /\ r.pc = "waiting"
    /\ timers' = Moved(timers, r, "firing", FALSE)
    /\ UNCHANGED <<tasks, disk, history>> /\ Quiet

(* The cron runner starts a goroutine for one of the entries it holds.      *)
Tick(id) ==
    /\ timers.ticks[id] > 0 /\ FreeNumbers(timers) # {}
    /\ timers' = [timers EXCEPT !.routines = @ \cup
          {[TimerRoutine(id, FreeNumber(timers)) EXCEPT !.once = FALSE, !.pc = "firing"]}]
    /\ UNCHANGED <<tasks, disk, history>> /\ Quiet

DepsMet(id) ==
    \A dep \in tasks[id].deps \cap DOMAIN tasks :
        tasks[dep].status = "cancelled"

Fireable(id) == id \in DOMAIN tasks /\ tasks[id].status = "pending"

(* The locked part of fire.                                                 *)
FireRefused(r) ==
    /\ ~Fireable(r.task)
    /\ timers' = Ended(timers, r)
    /\ UNCHANGED <<tasks, disk>>

(* Faulty: a deferred one-shot is not armed again.                          *)
DeferredUnarmed(r) ==
    /\ Fireable(r.task) /\ ~DepsMet(r.task)
    /\ timers' = Ended(timers, r)
    /\ UNCHANGED <<tasks, disk>>

(* Faulty: a deferred one-shot is removed as if it had run.                 *)
DeferredRemoved(r) ==
    /\ Fireable(r.task) /\ ~DepsMet(r.task)
    /\ timers' = Moved(timers, r, IF r.once THEN "ending" ELSE "firing", FALSE)
    /\ UNCHANGED <<tasks, disk>>

FireDeferred(r) ==
    /\ Fireable(r.task) /\ ~DepsMet(r.task)
    /\ UNCHANGED tasks
    /\ IF tasks[r.task].kind = "once"
       THEN /\ timers' = Register(Deregister(Ended(timers, r), r.task),
                                  r.task, "once")
            /\ Save
       ELSE timers' = Ended(timers, r) /\ UNCHANGED disk

FireGranted(r) ==
    /\ Fireable(r.task) /\ DepsMet(r.task)
    /\ timers' = Moved(timers, r, "running", tasks[r.task].script)
    /\ UNCHANGED tasks
    /\ Save

Fire(r) ==
    /\ r.pc = "firing"
    /\ FireRefused(r) \/ FireDeferred(r) \/ FireGranted(r)
    /\ UNCHANGED history /\ Quiet

(* The unlocked part of fire: a script may say not to run.                  *)
Deliver(r) ==
    /\ r.pc = "running"
    /\ \/ /\ ran' = [ran EXCEPT ![r.task] = IF @ < CountedRuns THEN @ + 1 ELSE @]
          /\ UNCHANGED skipped
       \/ /\ r.script
          /\ skipped' = skipped \cup {r.task}
          /\ UNCHANGED ran
    /\ timers' = IF r.once THEN Moved(timers, r, "ending", FALSE)
                           ELSE Ended(timers, r)
    /\ UNCHANGED <<tasks, disk, removed, acked, known>> /\ Quiet

(* fire returned true: the one-shot's goroutine drops the task, whatever it *)
(* has become meanwhile.                                                    *)
Remove(r) ==
    /\ r.pc = "ending"
    /\ tasks' = Without(tasks, {r.task})
    /\ timers' = Ended(Forgotten(timers, r.task), r)
    /\ Save
    /\ UNCHANGED history /\ Quiet

Step(r) == Wake(r) \/ Fire(r) \/ Deliver(r) \/ Remove(r)

(* The host dies; the next one loads tasks.json and registers what is       *)
(* pending before any channel is connected.                                 *)
Restart ==
    LET armed(k) == {id \in DOMAIN disk :
                        disk[id].status = "pending" /\ disk[id].kind = k}
        numbers  == {f \in [armed("once") -> 1..MaxRoutines] :
                        \A x, y \in armed("once") : x # y => f[x] # f[y]}
        number   == CHOOSE f \in numbers : TRUE
    IN
    /\ crashes < MaxCrashes /\ crashes' = crashes + 1
    /\ numbers # {}
    /\ tasks' = disk
    /\ timers' =
          [entries  |-> armed("cron"),
           ticks    |-> [id \in Task |-> IF id \in armed("cron") THEN 1 ELSE 0],
           stopChs  |-> [id \in Task |->
                            IF id \in armed("once") THEN number[id] ELSE 0],
           routines |-> {TimerRoutine(id, number[id]) : id \in armed("once")}]
    /\ UNCHANGED <<disk, history, commands>>

RoutineStep(n) == \E r \in timers.routines : r.n = n /\ Step(r)

Edit(id) ==
    \E form \in Form :
        AddTask(id, form) \/ UpdateTask(id, form) \/ EditTask(id, form)

Next ==
    \/ \E id \in Task :
          \/ Edit(id)
          \/ PauseTask(id) \/ ResumeTask(id) \/ CancelTask(id)
          \/ DeleteTask(id)
          \/ Tick(id)
    \/ \E ids \in SUBSET Task : DeleteTasksForPlaybook(ids)
    \/ \E n \in 1..MaxRoutines : RoutineStep(n)
    \/ Restart

Spec == Init /\ [][Next]_vars

(* Timers expire, and a goroutine that waits for the lock gets it.          *)
FairSpec == Spec /\ \A n \in 1..MaxRoutines : WF_vars(RoutineStep(n))

-----------------------------------------------------------------------------
(* Properties.                                                              *)

Pending(id, kind) ==
    id \in DOMAIN tasks /\ tasks[id].status = "pending" /\ tasks[id].kind = kind

RoutinesOf(id) == {r \in timers.routines : r.task = id /\ r.once}

(* The types of the scheduler's state (scheduler.go:21-35, types.go:359).   *)
TypeOK ==
    /\ DOMAIN tasks \subseteq known
    /\ tasks \in [DOMAIN tasks -> TaskState]
    /\ disk \in [DOMAIN disk -> TaskState]
    /\ timers \in [entries: SUBSET Task, ticks: [Task -> Nat],
                   stopChs: [Task -> 0..MaxRoutines],
                   routines: SUBSET Routine]

(* The cron runner holds exactly one entry per pending repeat: none outlives*)
(* its task's pause, cancellation, edit or removal and goes on firing, and  *)
(* none is missing (ResumeTask's comment, scheduler.go:445-448).            *)
NoGhostEntries ==
    \A id \in Task :
        /\ id \in timers.entries <=> Pending(id, "cron")
        /\ timers.ticks[id] = IF id \in timers.entries THEN 1 ELSE 0

(* Every pending one-shot has a goroutine that will fire it, and a stop     *)
(* channel in the map belongs to a goroutine of a pending one-shot, so that *)
(* pausing or cancelling reaches it (scheduler.go:144-203).                 *)
OneShotsAreArmed ==
    \A id \in Task :
        /\ Pending(id, "once") =>
              RoutinesOf(id) # {}
        /\ timers.stopChs[id] # 0 =>
              /\ Pending(id, "once")
              /\ \E r \in RoutinesOf(id) : r.n = timers.stopChs[id]

(* No goroutine still waits for the time of a task that was paused or       *)
(* cancelled, or has become a repeat, so that only resuming it starts it    *)
(* again.  Those of tasks that were removed find nothing when they wake.    *)
StoppedIsStopped ==
    \A r \in timers.routines :
        r.pc = "waiting" =>
            Pending(r.task, "once") \/ r.task \notin DOMAIN tasks

(* A task whose creation was confirmed is on disk until it ran, was skipped *)
(* by its own script or was removed by the user, across restarts.           *)
ConfirmedTaskIsKept ==
    \A id \in acked \ (skipped \cup removed) :
        ran[id] > 0 \/ id \in DOMAIN disk

(* A one-shot whose dependencies stay done does not stay pending.           *)
ReadyOneShotLeaves ==
    \A id \in Task :
        []<>~(Pending(id, "once") /\ DepsMet(id))

(* What the test at scheduler_fire_test.go:34 says of a one-shot.           *)
OneShotRunsOnce == \A id \in Task : ran[id] <= 1
=============================================================================
