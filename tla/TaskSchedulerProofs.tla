------------------------- MODULE TaskSchedulerProofs -------------------------
(***************************************************************************)
(* Theorems about the scheduler, for any tasks, forms and bounds.          *)
(***************************************************************************)
EXTENDS TaskScheduler, TLAPS

TimersState ==
    [entries: SUBSET Task, ticks: [Task -> Nat], stopChs: [Task -> 0..MaxRoutines],
     routines: SUBSET Routine]

PendingIn(ts, id, kind) == id \in DOMAIN ts /\ ts[id].status = "pending" /\ ts[id].kind = kind

(* What is armed for a task is what its state asks for.  A goroutine that   *)
(* still waits can be stopped, unless its task is gone.                     *)
Armed(T, ts, id) ==
    /\ id \in T.entries <=> PendingIn(ts, id, "cron")
    /\ T.ticks[id] = IF id \in T.entries THEN 1 ELSE 0
    /\ PendingIn(ts, id, "once") => \E r \in T.routines : r.task = id /\ r.once
    /\ T.stopChs[id] # 0 => /\ PendingIn(ts, id, "once")
                            /\ \E r \in T.routines :
                                 r.task = id /\ r.once /\ r.n = T.stopChs[id]
    /\ \A r \in T.routines : r.task = id /\ r.pc = "waiting" =>
          r.n = T.stopChs[id] \/ id \notin DOMAIN ts

Numbered(T) == \A r, s \in T.routines : r.n = s.n => r = s

Consistent(T, ts, d, kn) ==
    /\ T \in TimersState /\ Numbered(T)
    /\ ts \in [DOMAIN ts -> TaskState] /\ d \in [DOMAIN d -> TaskState]
    /\ DOMAIN ts \subseteq kn /\ DOMAIN d \subseteq kn /\ kn \subseteq Task
    /\ \A r \in T.routines : r.task \in kn
    /\ \A id \in Task : Armed(T, ts, id)

Inv == Consistent(timers, tasks, disk, known)

(* A confirmed task stays in the list and on disk until it has run, and a   *)
(* goroutine about to remove its task has seen it run or be skipped.        *)
Kept ==
    /\ ran \in [Task -> Nat] /\ acked \subseteq known
    /\ \A id \in acked \ (skipped \cup removed) :
          ran[id] > 0 \/ (id \in DOMAIN disk /\ id \in DOMAIN tasks)
    /\ \A r \in timers.routines : r.pc = "ending" => ran[r.task] > 0 \/ r.task \in skipped

-----------------------------------------------------------------------------
(* What the operations on the timers do.                                    *)

Off(T, id) ==
    /\ id \notin T.entries /\ T.ticks[id] = 0 /\ T.stopChs[id] = 0
    /\ \A r \in T.routines : r.task = id => r.pc # "waiting"

SameBut(T, U, id) ==
    \A x \in Task \ {id} :
        /\ x \in U.entries <=> x \in T.entries
        /\ U.ticks[x] = T.ticks[x] /\ U.stopChs[x] = T.stopChs[x]
        /\ \A r \in Routine : r.task = x => (r \in U.routines <=> r \in T.routines)

(* The entry and the goroutines of a task can be found in the maps.         *)
Stoppable(T, id) ==
    /\ T.ticks[id] = IF id \in T.entries THEN 1 ELSE 0
    /\ \A r \in T.routines : r.task = id /\ r.pc = "waiting" => r.n = T.stopChs[id]
    /\ \A r \in T.routines : r.n = T.stopChs[id] => r.task = id

LEMMA Elsewhere ==
  ASSUME NEW T \in TimersState, NEW U \in TimersState, NEW id, SameBut(T, U, id),
         NEW x \in Task \ {id}, NEW ts, NEW us, Armed(T, ts, x),
         x \in DOMAIN us <=> x \in DOMAIN ts, x \in DOMAIN ts => us[x] = ts[x]
  PROVE  Armed(U, us, x)
<1>1. T.routines \subseteq Routine /\ U.routines \subseteq Routine
  BY DEF TimersState
<1>2. /\ x \in U.entries <=> x \in T.entries
      /\ U.ticks[x] = T.ticks[x] /\ U.stopChs[x] = T.stopChs[x]
      /\ \A r \in Routine : r.task = x => (r \in U.routines <=> r \in T.routines)
  BY DEF SameBut
<1>. QED
  BY <1>1, <1>2 DEF Armed, PendingIn

LEMMA CanStop ==
  ASSUME NEW T \in TimersState, Numbered(T), NEW id \in Task, NEW ts, id \in DOMAIN ts,
         Armed(T, ts, id)
  PROVE  Stoppable(T, id)
<1>1. \A r \in T.routines : r.n # 0
  BY DEF TimersState, Routine
<1>. QED
  BY <1>1 DEF Armed, Numbered, Stoppable

LEMMA FreeOne ==
  ASSUME NEW T \in TimersState, FreeNumbers(T) # {}
  PROVE  /\ FreeNumber(T) \in 1..MaxRoutines
         /\ \A r \in T.routines : r.n # FreeNumber(T)
BY DEF FreeNumber, FreeNumbers

LEMMA Registered ==
  ASSUME NEW T \in TimersState, Numbered(T), NEW id \in Task, FreeNumbers(T) # {},
         NEW kind
  PROVE  LET R == Register(T, id, kind) IN
         /\ R \in TimersState /\ Numbered(R) /\ SameBut(T, R, id)
         /\ \A r \in R.routines : r \in T.routines \/ (r.task = id /\ r.pc = "waiting")
         /\ Off(T, id) => \A ts : /\ id \in DOMAIN ts
                                  /\ ts[id].status = "pending" /\ ts[id].kind = kind
                                  => Armed(R, ts, id)
<1>. DEFINE R == Register(T, id, kind)
<1>0. /\ T.entries \in SUBSET Task /\ T.ticks \in [Task -> Nat]
      /\ T.stopChs \in [Task -> 0..MaxRoutines] /\ T.routines \in SUBSET Routine
  BY DEF TimersState
<1>1. CASE kind = "cron"
  <2>. DEFINE more == T.ticks[id] + 1
  <2>1. R = [T EXCEPT !.entries = T.entries \cup {id}, !.ticks[id] = more]
    BY <1>1 DEF Register
  <2>a. more \in Nat /\ (T.ticks[id] = 0 => more = 1)
    BY <1>0
  <2>. HIDE DEF R, more
  <2>2. /\ R.entries = T.entries \cup {id} /\ R.ticks = [T.ticks EXCEPT ![id] = more]
        /\ R.stopChs = T.stopChs /\ R.routines = T.routines /\ R \in TimersState
    BY <1>0, <2>1, <2>a DEF TimersState
  <2>3. Numbered(R) /\ SameBut(T, R, id)
    BY <1>0, <2>2 DEF Numbered, SameBut
  <2>4. Off(T, id) => \A ts : /\ id \in DOMAIN ts
                              /\ ts[id].status = "pending" /\ ts[id].kind = kind
                              => Armed(R, ts, id)
    BY <1>0, <1>1, <2>a, <2>2 DEF Off, Armed, PendingIn
  <2>. QED
    BY <2>2, <2>3, <2>4 DEF R
<1>2. CASE kind = "once"
  <2>. DEFINE n == FreeNumber(T)
              q == TimerRoutine(id, n)
  <2>0. n \in 1..MaxRoutines /\ \A r \in T.routines : r.n # n
    BY FreeOne
  <2>1. R = [T EXCEPT !.stopChs[id] = n, !.routines = @ \cup {q}]
    BY <1>2 DEF Register
  <2>. HIDE DEF R, n
  <2>2. q \in Routine /\ q.n = n /\ q.task = id /\ q.once = TRUE /\ q.pc = "waiting"
    BY <2>0 DEF TimerRoutine, Routine
  <2>3. n \in 0..MaxRoutines /\ n # 0
    BY <2>0, SchedulerAssumption
  <2>. HIDE DEF q
  <2>4. /\ R.entries = T.entries /\ R.ticks = T.ticks
        /\ R.stopChs = [T.stopChs EXCEPT ![id] = n] /\ R.routines = T.routines \cup {q}
        /\ R \in TimersState
    BY <1>0, <2>1, <2>2, <2>3 DEF TimersState
  <2>5. Numbered(R) /\ SameBut(T, R, id)
    BY <1>0, <2>0, <2>2, <2>4 DEF Numbered, SameBut
  <2>6. Off(T, id) => \A ts : /\ id \in DOMAIN ts
                              /\ ts[id].status = "pending" /\ ts[id].kind = kind
                              => Armed(R, ts, id)
    BY <1>0, <1>2, <2>2, <2>3, <2>4 DEF Off, Armed, PendingIn
  <2>. QED
    BY <2>2, <2>4, <2>5, <2>6 DEF R
<1>3. CASE kind \notin {"cron", "once"}
  <2>1. R = T
    BY <1>3 DEF Register
  <2>. HIDE DEF R
  <2>3. Numbered(R) /\ SameBut(T, R, id)
    BY <2>1 DEF SameBut
  <2>4. Off(T, id) => \A ts : /\ id \in DOMAIN ts
                              /\ ts[id].status = "pending" /\ ts[id].kind = kind
                              => Armed(R, ts, id)
    BY <1>0, <1>3, <2>1 DEF Off, Armed, PendingIn
  <2>. QED
    BY <2>1, <2>3, <2>4 DEF R
<1>. QED
  BY <1>1, <1>2, <1>3

LEMMA Deregistered ==
  ASSUME NEW T \in TimersState, Numbered(T), NEW id \in Task, Stoppable(T, id)
  PROVE  LET D == Deregister(T, id) IN
         /\ D \in TimersState /\ Numbered(D) /\ SameBut(T, D, id) /\ Off(D, id)
         /\ D.routines \subseteq T.routines
         /\ FreeNumbers(T) \subseteq FreeNumbers(D)
<1>. DEFINE D == Deregister(T, id)
            kept == {r \in T.routines : r.pc = "waiting" => r.n # T.stopChs[id]}
            less == IF id \in T.entries THEN T.ticks[id] - 1 ELSE T.ticks[id]
<1>0. /\ T.entries \in SUBSET Task /\ T.ticks \in [Task -> Nat]
      /\ T.stopChs \in [Task -> 0..MaxRoutines] /\ T.routines \in SUBSET Routine
      /\ 0 \in 0..MaxRoutines
  BY SchedulerAssumption DEF TimersState
<1>1. D = [T EXCEPT !.entries = T.entries \ {id}, !.ticks[id] = less, !.stopChs[id] = 0,
                    !.routines = kept]
  BY DEF Deregister
<1>2. less = 0 /\ kept \subseteq T.routines
  BY <1>0 DEF Stoppable
<1>3. \A r \in T.routines : (r.task # id \/ r.pc # "waiting") => r \in kept
  BY DEF Stoppable
<1>4. \A r \in kept : r.task = id => r.pc # "waiting"
  BY DEF Stoppable
<1>. HIDE DEF D, kept, less
<1>5. /\ D.entries = T.entries \ {id} /\ D.ticks = [T.ticks EXCEPT ![id] = 0]
      /\ D.stopChs = [T.stopChs EXCEPT ![id] = 0] /\ D.routines = kept
      /\ D \in TimersState
  BY <1>0, <1>1, <1>2 DEF TimersState
<1>6. Numbered(D) /\ Off(D, id)
  BY <1>0, <1>2, <1>4, <1>5 DEF Numbered, Off
<1>7. SameBut(T, D, id)
  BY <1>0, <1>2, <1>3, <1>5 DEF SameBut
<1>8. FreeNumbers(T) \subseteq FreeNumbers(D)
  BY <1>2, <1>5 DEF FreeNumbers
<1>. QED
  BY <1>2, <1>5, <1>6, <1>7, <1>8 DEF D

LEMMA Forgot ==
  ASSUME NEW T \in TimersState, Numbered(T), NEW id \in Task, NEW ts, Armed(T, ts, id)
  PROVE  LET F == Forgotten(T, id) IN
         /\ F \in TimersState /\ Numbered(F) /\ SameBut(T, F, id)
         /\ F.routines = T.routines
         /\ \A us : id \notin DOMAIN us => Armed(F, us, id)
<1>. DEFINE F == Forgotten(T, id)
            less == IF id \in T.entries THEN T.ticks[id] - 1 ELSE T.ticks[id]
<1>0. /\ T.entries \in SUBSET Task /\ T.ticks \in [Task -> Nat]
      /\ T.stopChs \in [Task -> 0..MaxRoutines] /\ T.routines \in SUBSET Routine
      /\ 0 \in 0..MaxRoutines
  BY SchedulerAssumption DEF TimersState
<1>1. F = [T EXCEPT !.entries = T.entries \ {id}, !.ticks[id] = less, !.stopChs[id] = 0]
  BY DEF Forgotten
<1>2. less = 0
  BY <1>0 DEF Armed
<1>. HIDE DEF F, less
<1>5. /\ F.entries = T.entries \ {id} /\ F.ticks = [T.ticks EXCEPT ![id] = 0]
      /\ F.stopChs = [T.stopChs EXCEPT ![id] = 0] /\ F.routines = T.routines
      /\ F \in TimersState
  BY <1>0, <1>1, <1>2 DEF TimersState
<1>6. Numbered(F) /\ SameBut(T, F, id)
  BY <1>0, <1>5 DEF Numbered, SameBut
<1>7. \A us : id \notin DOMAIN us => Armed(F, us, id)
  BY <1>0, <1>5 DEF Armed, PendingIn
<1>. QED
  BY <1>5, <1>6, <1>7 DEF F

(* A goroutine that ends is missed by nobody if its task needs none.        *)
LEMMA EndedIs ==
  ASSUME NEW T \in TimersState, Numbered(T), NEW r \in T.routines
  PROVE  LET E == Ended(T, r) IN
         /\ E \in TimersState /\ Numbered(E)
         /\ E.routines = T.routines \ {r} /\ r.n \in FreeNumbers(E)
         /\ \A id \in Task : Stoppable(T, id) => Stoppable(E, id)
         /\ SameBut(T, E, r.task)
         /\ \A ts, x : Armed(T, ts, x) /\ (x = r.task => ~PendingIn(ts, x, "once") \/ ~r.once)
               => Armed(E, ts, x)
<1>. DEFINE E == Ended(T, r)
<1>0. /\ T.routines \in SUBSET Routine /\ r \in Routine /\ r.n \in 1..MaxRoutines
  BY DEF TimersState, Routine
<1>1. E = [T EXCEPT !.routines = @ \ {r}]
  BY DEF Ended
<1>. HIDE DEF E
<1>2. /\ E.entries = T.entries /\ E.ticks = T.ticks /\ E.stopChs = T.stopChs
      /\ E.routines = T.routines \ {r} /\ E \in TimersState
  BY <1>0, <1>1 DEF TimersState
<1>3. Numbered(E) /\ r.n \in FreeNumbers(E)
  BY <1>0, <1>2 DEF Numbered, FreeNumbers
<1>4. \A id \in Task : Stoppable(T, id) => Stoppable(E, id)
  BY <1>2 DEF Stoppable
<1>5. SameBut(T, E, r.task)
  BY <1>2 DEF SameBut
<1>6. ASSUME NEW ts, NEW x, Armed(T, ts, x), x = r.task => ~PendingIn(ts, x, "once") \/ ~r.once
      PROVE  Armed(E, ts, x)
  BY <1>2, <1>6 DEF Armed
<1>. QED
  BY <1>2, <1>3, <1>4, <1>5, <1>6 DEF E

LEMMA MovedIs ==
  ASSUME NEW T \in TimersState, Numbered(T), NEW r \in T.routines,
         NEW pc \in {"firing", "running", "ending"}, NEW script \in BOOLEAN
  PROVE  LET M == Moved(T, r, pc, script)
             q == [r EXCEPT !.pc = pc, !.script = script]
         IN /\ M \in TimersState /\ Numbered(M)
            /\ M.routines = (T.routines \ {r}) \cup {q}
            /\ q.task = r.task /\ q.pc = pc
            /\ \A ts, x : Armed(T, ts, x) => Armed(M, ts, x)
<1>. DEFINE M == Moved(T, r, pc, script)
            q == [r EXCEPT !.pc = pc, !.script = script]
<1>0. /\ T.routines \in SUBSET Routine /\ r \in Routine
  BY DEF TimersState
<1>1. /\ q \in Routine /\ q.n = r.n /\ q.task = r.task /\ q.once = r.once
      /\ q.pc = pc /\ q.pc # "waiting"
  BY <1>0 DEF Routine
<1>2. M = [T EXCEPT !.routines = (@ \ {r}) \cup {q}]
  BY DEF Moved
<1>. HIDE DEF M, q
<1>3. /\ M.entries = T.entries /\ M.ticks = T.ticks /\ M.stopChs = T.stopChs
      /\ M.routines = (T.routines \ {r}) \cup {q} /\ M \in TimersState
  BY <1>0, <1>1, <1>2 DEF TimersState
<1>4. Numbered(M)
  BY <1>1, <1>3 DEF Numbered
<1>5. ASSUME NEW ts, NEW x, Armed(T, ts, x) PROVE Armed(M, ts, x)
  <2>1. \A n : (\E s \in T.routines : s.task = x /\ s.once /\ s.n = n)
                 => \E s \in M.routines : s.task = x /\ s.once /\ s.n = n
    BY <1>1, <1>3
  <2>2. (\E s \in T.routines : s.task = x /\ s.once)
           => \E s \in M.routines : s.task = x /\ s.once
    BY <1>1, <1>3
  <2>3. \A s \in M.routines : s.pc = "waiting" => s \in T.routines
    BY <1>1, <1>3
  <2>. QED
    BY <1>3, <1>5, <2>1, <2>2, <2>3 DEF Armed
<1>. QED
  BY <1>1, <1>3, <1>4, <1>5 DEF M, q

LEMMA OffIsArmed ==
  ASSUME NEW T, NEW id, NEW ts, Off(T, id),
         ~PendingIn(ts, id, "cron"), ~PendingIn(ts, id, "once")
  PROVE  Armed(T, ts, id)
BY DEF Off, Armed

LEMMA ArmedIsOff ==
  ASSUME NEW T \in TimersState, NEW id \in Task, NEW ts, Armed(T, ts, id),
         id \in DOMAIN ts \/ \A r \in T.routines : r.task # id,
         ~PendingIn(ts, id, "cron"), ~PendingIn(ts, id, "once")
  PROVE  Off(T, id)
<1>1. \A r \in T.routines : r.n # 0
  BY DEF TimersState, Routine
<1>. QED
  BY <1>1 DEF Off, Armed

LEMMA SameButTwice ==
  ASSUME NEW T, NEW U, NEW V, NEW id, SameBut(T, U, id), SameBut(U, V, id)
  PROVE  SameBut(T, V, id)
BY DEF SameBut

(* Taking a task off the timers and putting it on again.                    *)
LEMMA Rearmed ==
  ASSUME NEW T \in TimersState, Numbered(T), NEW id \in Task, FreeNumbers(T) # {},
         Stoppable(T, id), NEW kind
  PROVE  LET R == Register(Deregister(T, id), id, kind) IN
         /\ R \in TimersState /\ Numbered(R) /\ SameBut(T, R, id)
         /\ \A r \in R.routines : r \in T.routines \/ (r.task = id /\ r.pc = "waiting")
         /\ \A ts : id \in DOMAIN ts /\ ts[id].status = "pending" /\ ts[id].kind = kind
                       => Armed(R, ts, id)
<1>. DEFINE D == Deregister(T, id)
            R == Register(D, id, kind)
<1>1. /\ D \in TimersState /\ Numbered(D) /\ SameBut(T, D, id) /\ Off(D, id)
      /\ D.routines \subseteq T.routines /\ FreeNumbers(D) # {}
  BY Deregistered
<1>. HIDE DEF D
<1>2. /\ R \in TimersState /\ Numbered(R) /\ SameBut(D, R, id)
      /\ \A r \in R.routines : r \in D.routines \/ (r.task = id /\ r.pc = "waiting")
      /\ \A ts : id \in DOMAIN ts /\ ts[id].status = "pending" /\ ts[id].kind = kind
                    => Armed(R, ts, id)
  BY <1>1, Registered
<1>. HIDE DEF R
<1>3. SameBut(T, R, id)
  BY <1>1, <1>2, SameButTwice
<1>. QED
  BY <1>1, <1>2, <1>3 DEF R, D

-----------------------------------------------------------------------------
(* What a step on one task has to show.                                     *)

OnlyTask(ts, us, id) ==
    \A x \in Task \ {id} : /\ x \in DOMAIN us <=> x \in DOMAIN ts
                           /\ x \in DOMAIN ts => us[x] = ts[x]

LEMMA Concludes ==
  ASSUME NEW T, NEW ts, NEW d, NEW kn, Consistent(T, ts, d, kn), NEW id \in Task,
         NEW U \in TimersState, NEW us, NEW e, NEW kn2 \in SUBSET Task,
         kn \subseteq kn2, id \in kn2,
         Numbered(U), SameBut(T, U, id),
         \A r \in U.routines : r \in T.routines \/ r.task = id,
         us \in [DOMAIN us -> TaskState], DOMAIN us \subseteq DOMAIN ts \cup {id},
         OnlyTask(ts, us, id), e = us \/ e = d,
         Armed(U, us, id)
  PROVE  Consistent(U, us, e, kn2)
<1>1. /\ T \in TimersState /\ \A x \in Task : Armed(T, ts, x)
      /\ d \in [DOMAIN d -> TaskState] /\ DOMAIN ts \subseteq kn /\ DOMAIN d \subseteq kn
      /\ \A r \in T.routines : r.task \in kn
  BY DEF Consistent
<1>2. ASSUME NEW x \in Task PROVE Armed(U, us, x)
  <2>1. CASE x = id
    BY <2>1
  <2>2. CASE x # id
    <3>1. x \in Task \ {id} /\ Armed(T, ts, x)
      BY <1>1, <2>2
    <3>2. (x \in DOMAIN us <=> x \in DOMAIN ts) /\ (x \in DOMAIN ts => us[x] = ts[x])
      BY <3>1 DEF OnlyTask
    <3>. QED
      BY <1>1, <3>1, <3>2, Elsewhere
  <2>. QED
    BY <2>1, <2>2
<1>3. e \in [DOMAIN e -> TaskState] /\ DOMAIN e \subseteq kn2 /\ DOMAIN us \subseteq kn2
  BY <1>1
<1>4. \A r \in U.routines : r.task \in kn2
  BY <1>1
<1>. QED
  BY <1>2, <1>3, <1>4 DEF Consistent

LEMMA Edited ==
  ASSUME NEW ts, ts \in [DOMAIN ts -> TaskState], NEW id \in DOMAIN ts, NEW t \in TaskState
  PROVE  LET us == [ts EXCEPT ![id] = t] IN
         /\ us \in [DOMAIN us -> TaskState] /\ DOMAIN us = DOMAIN ts
         /\ us[id] = t /\ OnlyTask(ts, us, id)
BY DEF OnlyTask

LEMMA Stamped ==
  ASSUME NEW ts, ts \in [DOMAIN ts -> TaskState], NEW id \in DOMAIN ts,
         NEW s \in {"pending", "paused", "cancelled"}
  PROVE  LET us == [ts EXCEPT ![id].status = s] IN
         /\ us \in [DOMAIN us -> TaskState] /\ DOMAIN us = DOMAIN ts
         /\ us[id].status = s /\ us[id].kind = ts[id].kind /\ OnlyTask(ts, us, id)
<1>1. ts[id] \in TaskState
  OBVIOUS
<1>2. [ts[id] EXCEPT !.status = s] \in TaskState
  BY <1>1 DEF TaskState
<1>. QED
  BY <1>1, <1>2 DEF OnlyTask, TaskState

-----------------------------------------------------------------------------
(* The steps.                                                               *)

LEMMA FormTyped ==
  ASSUME NEW form \in Form
  PROVE  form.kind \in Kind /\ form.script \in BOOLEAN /\ form.deps \in SUBSET Task
BY SchedulerAssumption

LEMMA SaveIs == Save => disk' = tasks' \/ disk' = disk
BY DEF Save

LEMMA AddTaskStep ==
  ASSUME Inv, NEW id \in Task, NEW form \in Form, AddTask(id, form)
  PROVE  Consistent(timers', tasks', disk', known')
<1>. DEFINE t == Filled([status |-> "pending"], form)
<1>1. /\ timers \in TimersState /\ Numbered(timers) /\ Armed(timers, tasks, id)
      /\ tasks \in [DOMAIN tasks -> TaskState] /\ DOMAIN tasks \subseteq known
      /\ known \subseteq Task /\ \A r \in timers.routines : r.task \in known
  BY DEF Inv, Consistent
<1>2. /\ id \notin known /\ FreeNumbers(timers) # {}
      /\ timers' = Register(timers, id, form.kind) /\ tasks' = With(tasks, id, t)
      /\ known' = known \cup {id} /\ Save
  BY DEF AddTask, Command
<1>3. Off(timers, id)
  BY <1>1, <1>2, ArmedIsOff DEF PendingIn
<1>4. t \in TaskState /\ t.status = "pending" /\ t.kind = form.kind
  BY FormTyped DEF Filled, TaskState
<1>. HIDE DEF t
<1>5. /\ tasks' \in [DOMAIN tasks' -> TaskState] /\ DOMAIN tasks' = DOMAIN tasks \cup {id}
      /\ tasks'[id] = t /\ OnlyTask(tasks, tasks', id)
  BY <1>1, <1>2, <1>4 DEF With, OnlyTask
<1>6. /\ timers' \in TimersState /\ Numbered(timers') /\ SameBut(timers, timers', id)
      /\ \A r \in timers'.routines : r \in timers.routines \/ r.task = id
      /\ \A ts : id \in DOMAIN ts /\ ts[id].status = "pending" /\ ts[id].kind = form.kind
                    => Armed(timers', ts, id)
  BY <1>1, <1>2, <1>3, Registered
<1>7. Armed(timers', tasks', id)
  BY <1>4, <1>5, <1>6
<1>. QED
  BY <1>1, <1>2, <1>5, <1>6, <1>7, SaveIs, Concludes DEF Inv

(* What every command on a task of the list starts from.                    *)
LEMMA Known ==
  ASSUME Inv, NEW id \in DOMAIN tasks
  PROVE  /\ timers \in TimersState /\ Numbered(timers) /\ Armed(timers, tasks, id)
         /\ tasks \in [DOMAIN tasks -> TaskState] /\ tasks[id] \in TaskState
         /\ id \in known /\ id \in Task /\ known \in SUBSET Task
         /\ Stoppable(timers, id)
<1>1. /\ timers \in TimersState /\ Numbered(timers) /\ id \in known /\ id \in Task
      /\ tasks \in [DOMAIN tasks -> TaskState] /\ known \in SUBSET Task
  BY DEF Inv, Consistent
<1>2. Armed(timers, tasks, id)
  BY <1>1 DEF Inv, Consistent
<1>3. Stoppable(timers, id)
  BY <1>1, <1>2, CanStop
<1>. QED
  BY <1>1, <1>2, <1>3

(* The list's entry for a task that is not pending changes, its timers not. *)
LEMMA Unarmed ==
  ASSUME Inv, NEW id \in DOMAIN tasks, tasks[id].status # "pending",
         tasks' \in [DOMAIN tasks' -> TaskState], DOMAIN tasks' = DOMAIN tasks,
         OnlyTask(tasks, tasks', id), tasks'[id].status # "pending",
         timers' = timers, disk' = tasks' \/ disk' = disk, known' = known
  PROVE  Consistent(timers', tasks', disk', known')
<1>1. /\ timers \in TimersState /\ Numbered(timers) /\ Armed(timers, tasks, id)
      /\ id \in known /\ id \in Task /\ known \in SUBSET Task
  BY Known
<1>2. Off(timers, id)
  BY <1>1, ArmedIsOff DEF PendingIn
<1>3. Armed(timers', tasks', id)
  BY <1>2, OffIsArmed DEF PendingIn
<1>4. SameBut(timers, timers', id)
  BY DEF SameBut
<1>. QED
  BY <1>1, <1>3, <1>4, Concludes DEF Inv

(* A task is taken off the timers and is no longer pending.                 *)
LEMMA Stopped ==
  ASSUME Inv, NEW id \in DOMAIN tasks,
         tasks' \in [DOMAIN tasks' -> TaskState], DOMAIN tasks' = DOMAIN tasks,
         OnlyTask(tasks, tasks', id), tasks'[id].status # "pending",
         timers' = Deregister(timers, id), disk' = tasks' \/ disk' = disk, known' = known
  PROVE  Consistent(timers', tasks', disk', known')
<1>1. /\ timers \in TimersState /\ Numbered(timers) /\ Stoppable(timers, id)
      /\ id \in known /\ id \in Task /\ known \in SUBSET Task
  BY Known
<1>2. /\ timers' \in TimersState /\ Numbered(timers') /\ SameBut(timers, timers', id)
      /\ Off(timers', id) /\ timers'.routines \subseteq timers.routines
  BY <1>1, Deregistered
<1>3. Armed(timers', tasks', id)
  BY <1>2, OffIsArmed DEF PendingIn
<1>. QED
  BY <1>1, <1>2, <1>3, Concludes DEF Inv

(* A task is taken off the timers and put on again as the list says.        *)
LEMMA Again ==
  ASSUME Inv, NEW id \in DOMAIN tasks, NEW kind, FreeNumbers(timers) # {},
         tasks' \in [DOMAIN tasks' -> TaskState], DOMAIN tasks' = DOMAIN tasks,
         OnlyTask(tasks, tasks', id), tasks'[id].status = "pending", tasks'[id].kind = kind,
         timers' = Register(Deregister(timers, id), id, kind),
         disk' = tasks' \/ disk' = disk, known' = known
  PROVE  Consistent(timers', tasks', disk', known')
<1>1. /\ timers \in TimersState /\ Numbered(timers) /\ Stoppable(timers, id)
      /\ id \in known /\ id \in Task /\ known \in SUBSET Task
  BY Known
<1>2. /\ timers' \in TimersState /\ Numbered(timers') /\ SameBut(timers, timers', id)
      /\ \A r \in timers'.routines : r \in timers.routines \/ r.task = id
      /\ \A ts : id \in DOMAIN ts /\ ts[id].status = "pending" /\ ts[id].kind = kind
                    => Armed(timers', ts, id)
  BY <1>1, Rearmed
<1>3. Armed(timers', tasks', id)
  BY <1>2
<1>. QED
  BY <1>1, <1>2, <1>3, Concludes DEF Inv

(* A task that was not pending becomes so and is put on the timers.         *)
LEMMA On ==
  ASSUME Inv, NEW id \in DOMAIN tasks, NEW kind, FreeNumbers(timers) # {},
         tasks[id].status # "pending",
         tasks' \in [DOMAIN tasks' -> TaskState], DOMAIN tasks' = DOMAIN tasks,
         OnlyTask(tasks, tasks', id), tasks'[id].status = "pending", tasks'[id].kind = kind,
         timers' = Register(timers, id, kind),
         disk' = tasks' \/ disk' = disk, known' = known
  PROVE  Consistent(timers', tasks', disk', known')
<1>1. /\ timers \in TimersState /\ Numbered(timers) /\ Armed(timers, tasks, id)
      /\ id \in known /\ id \in Task /\ known \in SUBSET Task
  BY Known
<1>2. Off(timers, id)
  BY <1>1, ArmedIsOff DEF PendingIn
<1>3. /\ timers' \in TimersState /\ Numbered(timers') /\ SameBut(timers, timers', id)
      /\ \A r \in timers'.routines : r \in timers.routines \/ r.task = id
      /\ \A ts : id \in DOMAIN ts /\ ts[id].status = "pending" /\ ts[id].kind = kind
                    => Armed(timers', ts, id)
  BY <1>1, <1>2, Registered
<1>4. Armed(timers', tasks', id)
  BY <1>3
<1>. QED
  BY <1>1, <1>3, <1>4, Concludes DEF Inv

LEMMA PauseTaskStep ==
  ASSUME Inv, NEW id \in Task, PauseTask(id)
  PROVE  Consistent(timers', tasks', disk', known')
<1>1. /\ id \in DOMAIN tasks /\ timers' = Deregister(timers, id) /\ Save /\ known' = known
      /\ tasks' = [tasks EXCEPT ![id].status = "paused"]
  BY DEF PauseTask, history
<1>2. tasks \in [DOMAIN tasks -> TaskState]
  BY <1>1, Known
<1>3. /\ tasks' \in [DOMAIN tasks' -> TaskState] /\ DOMAIN tasks' = DOMAIN tasks
      /\ OnlyTask(tasks, tasks', id) /\ tasks'[id].status = "paused"
  BY <1>1, <1>2, Stamped
<1>. QED
  BY <1>1, <1>3, SaveIs, Stopped

LEMMA CancelTaskStep ==
  ASSUME Inv, NEW id \in Task, CancelTask(id)
  PROVE  Consistent(timers', tasks', disk', known')
<1>1. /\ id \in DOMAIN tasks /\ timers' = Deregister(timers, id) /\ Save /\ known' = known
      /\ tasks' = [tasks EXCEPT ![id].status = "cancelled"]
  BY DEF CancelTask, history
<1>2. tasks \in [DOMAIN tasks -> TaskState]
  BY <1>1, Known
<1>3. /\ tasks' \in [DOMAIN tasks' -> TaskState] /\ DOMAIN tasks' = DOMAIN tasks
      /\ OnlyTask(tasks, tasks', id) /\ tasks'[id].status = "cancelled"
  BY <1>1, <1>2, Stamped
<1>. QED
  BY <1>1, <1>3, SaveIs, Stopped

LEMMA ResumeTaskStep ==
  ASSUME Inv, NEW id \in Task, ResumeTask(id)
  PROVE  Consistent(timers', tasks', disk', known')
<1>1. /\ id \in DOMAIN tasks /\ tasks[id].status # "pending" /\ known' = known
      /\ FreeNumbers(timers) # {}
  BY DEF ResumeTask, Command, history
<1>2. /\ timers \in TimersState /\ Numbered(timers) /\ Armed(timers, tasks, id)
      /\ tasks \in [DOMAIN tasks -> TaskState]
      /\ id \in known /\ id \in Task /\ known \in SUBSET Task
  BY <1>1, Known
<1>3. CASE tasks[id].kind = "bad"
  <2>1. /\ tasks' = [tasks EXCEPT ![id].status = "paused"]
        /\ timers' = timers /\ disk' = disk
    BY <1>3 DEF ResumeTask
  <2>2. /\ tasks' \in [DOMAIN tasks' -> TaskState] /\ DOMAIN tasks' = DOMAIN tasks
        /\ OnlyTask(tasks, tasks', id) /\ tasks'[id].status = "paused"
    BY <1>1, <1>2, <2>1, Stamped
  <2>. QED
    BY <1>1, <2>1, <2>2, Unarmed
<1>4. CASE tasks[id].kind # "bad"
  <2>1. /\ tasks' = [tasks EXCEPT ![id].status = "pending"]
        /\ timers' = Register(timers, id, tasks[id].kind) /\ Save
    BY <1>4 DEF ResumeTask
  <2>2. /\ tasks' \in [DOMAIN tasks' -> TaskState] /\ DOMAIN tasks' = DOMAIN tasks
        /\ OnlyTask(tasks, tasks', id)
        /\ tasks'[id].status = "pending" /\ tasks'[id].kind = tasks[id].kind
    BY <1>1, <1>2, <2>1, Stamped
  <2>. QED
    BY <1>1, <2>1, <2>2, SaveIs, On
<1>. QED
  BY <1>3, <1>4

LEMMA UpdateTaskStep ==
  ASSUME Inv, NEW id \in Task, NEW form \in Form, UpdateTask(id, form)
  PROVE  Consistent(timers', tasks', disk', known')
<1>. DEFINE t   == tasks[id]
            new == [Filled(t, form) EXCEPT
                        !.kind = IF form.kind = "unset" THEN t.kind ELSE @]
<1>1. /\ id \in DOMAIN tasks /\ known' = known /\ FreeNumbers(timers) # {} /\ Save
  BY DEF UpdateTask, Command, history
<1>2. tasks \in [DOMAIN tasks -> TaskState] /\ t \in TaskState
  BY <1>1, Known
<1>3. new \in TaskState /\ new.status = t.status
  BY <1>2, FormTyped DEF Filled, TaskState
<1>4. CASE t.status # "pending"
  <2>1. tasks' = [tasks EXCEPT ![id] = new] /\ timers' = timers
    BY <1>4 DEF UpdateTask
  <2>. HIDE DEF new
  <2>2. /\ tasks' \in [DOMAIN tasks' -> TaskState] /\ DOMAIN tasks' = DOMAIN tasks
        /\ OnlyTask(tasks, tasks', id) /\ tasks'[id] = new
    BY <1>1, <1>2, <1>3, <2>1, Edited
  <2>. QED
    BY <1>1, <1>3, <1>4, <2>1, <2>2, SaveIs, Unarmed
<1>5. CASE t.status = "pending" /\ new.kind = "bad"
  <2>1. tasks' = [tasks EXCEPT ![id].status = "paused"] /\ timers' = Deregister(timers, id)
    BY <1>5 DEF UpdateTask
  <2>2. /\ tasks' \in [DOMAIN tasks' -> TaskState] /\ DOMAIN tasks' = DOMAIN tasks
        /\ OnlyTask(tasks, tasks', id) /\ tasks'[id].status = "paused"
    BY <1>1, <1>2, <2>1, Stamped
  <2>. QED
    BY <1>1, <2>1, <2>2, SaveIs, Stopped
<1>6. CASE t.status = "pending" /\ new.kind # "bad"
  <2>1. /\ tasks' = [tasks EXCEPT ![id] = new]
        /\ timers' = Register(Deregister(timers, id), id, new.kind)
    BY <1>6 DEF UpdateTask
  <2>. HIDE DEF new
  <2>2. /\ tasks' \in [DOMAIN tasks' -> TaskState] /\ DOMAIN tasks' = DOMAIN tasks
        /\ OnlyTask(tasks, tasks', id) /\ tasks'[id] = new
    BY <1>1, <1>2, <1>3, <2>1, Edited
  <2>. QED
    BY <1>1, <1>3, <1>6, <2>1, <2>2, SaveIs, Again
<1>. QED
  BY <1>4, <1>5, <1>6

LEMMA EditTaskStep ==
  ASSUME Inv, NEW id \in Task, NEW form \in Form, EditTask(id, form)
  PROVE  Consistent(timers', tasks', disk', known')
<1>. DEFINE t   == tasks[id]
            new == Filled(t, form)
<1>1. /\ id \in DOMAIN tasks /\ known' = known /\ FreeNumbers(timers) # {}
  BY DEF EditTask, Command, history
<1>2. tasks \in [DOMAIN tasks -> TaskState] /\ t \in TaskState
  BY <1>1, Known
<1>3. new \in TaskState /\ new.status = t.status /\ new.kind = form.kind
  BY <1>2, FormTyped DEF Filled, TaskState
<1>4. CASE t.status # "pending"
  <2>1. tasks' = [tasks EXCEPT ![id] = new] /\ timers' = timers /\ Save
    BY <1>4 DEF EditTask
  <2>. HIDE DEF new
  <2>2. /\ tasks' \in [DOMAIN tasks' -> TaskState] /\ DOMAIN tasks' = DOMAIN tasks
        /\ OnlyTask(tasks, tasks', id) /\ tasks'[id] = new
    BY <1>1, <1>2, <1>3, <2>1, Edited
  <2>. QED
    BY <1>1, <1>3, <1>4, <2>1, <2>2, SaveIs, Unarmed
<1>5. CASE t.status = "pending" /\ form.kind = "bad"
  <2>1. /\ timers' = Register(Deregister(timers, id), id, t.kind)
        /\ tasks' = tasks /\ disk' = disk
    BY <1>5 DEF EditTask
  <2>2. OnlyTask(tasks, tasks', id)
    BY <2>1 DEF OnlyTask
  <2>. QED
    BY <1>1, <1>2, <1>5, <2>1, <2>2, Again
<1>6. CASE t.status = "pending" /\ form.kind # "bad"
  <2>1. /\ tasks' = [tasks EXCEPT ![id] = new] /\ Save
        /\ timers' = Register(Deregister(timers, id), id, form.kind)
    BY <1>6 DEF EditTask
  <2>. HIDE DEF new
  <2>2. /\ tasks' \in [DOMAIN tasks' -> TaskState] /\ DOMAIN tasks' = DOMAIN tasks
        /\ OnlyTask(tasks, tasks', id) /\ tasks'[id] = new
    BY <1>1, <1>2, <1>3, <2>1, Edited
  <2>. QED
    BY <1>1, <1>3, <1>6, <2>1, <2>2, SaveIs, Again
<1>. QED
  BY <1>4, <1>5, <1>6

LEMMA DeleteTaskStep ==
  ASSUME Inv, NEW id \in Task, DeleteTask(id)
  PROVE  Consistent(timers', tasks', disk', known')
<1>1. /\ id \in DOMAIN tasks /\ known' = known /\ Save
      /\ tasks' = Without(tasks, {id}) /\ timers' = Forgotten(timers, id)
  BY DEF DeleteTask
<1>2. /\ timers \in TimersState /\ Numbered(timers) /\ Armed(timers, tasks, id)
      /\ tasks \in [DOMAIN tasks -> TaskState]
      /\ id \in known /\ id \in Task /\ known \in SUBSET Task
  BY <1>1, Known
<1>3. /\ tasks' \in [DOMAIN tasks' -> TaskState] /\ DOMAIN tasks' = DOMAIN tasks \ {id}
      /\ \A x \in DOMAIN tasks' : tasks'[x] = tasks[x]
  BY <1>1, <1>2 DEF Without
<1>4. OnlyTask(tasks, tasks', id)
  BY <1>3 DEF OnlyTask
<1>5. /\ timers' \in TimersState /\ Numbered(timers') /\ SameBut(timers, timers', id)
      /\ timers'.routines = timers.routines /\ Armed(timers', tasks', id)
  BY <1>1, <1>2, <1>3, Forgot
<1>. QED
  BY <1>1, <1>2, <1>3, <1>4, <1>5, SaveIs, Concludes DEF Inv

LEMMA DeleteTasksForPlaybookStep ==
  ASSUME Inv, NEW ids \in SUBSET Task, DeleteTasksForPlaybook(ids)
  PROVE  Consistent(timers', tasks', disk', known')
<1>. DEFINE less == [id \in Task |-> IF id \in ids \cap timers.entries
                                     THEN timers.ticks[id] - 1 ELSE timers.ticks[id]]
            stop == [id \in Task |-> IF id \in ids THEN 0 ELSE timers.stopChs[id]]
            kept == {r \in timers.routines :
                       r.pc = "waiting" => \A id \in ids : r.n # timers.stopChs[id]}
<1>1. /\ ids \subseteq DOMAIN tasks /\ known' = known /\ Save
      /\ tasks' = Without(tasks, ids)
      /\ timers' = [entries |-> timers.entries \ ids, ticks |-> less,
                    stopChs |-> stop, routines |-> kept]
  BY DEF DeleteTasksForPlaybook
<1>2. /\ timers \in TimersState /\ Numbered(timers)
      /\ \A id \in Task : Armed(timers, tasks, id)
      /\ tasks \in [DOMAIN tasks -> TaskState] /\ disk \in [DOMAIN disk -> TaskState]
      /\ DOMAIN tasks \subseteq known /\ DOMAIN disk \subseteq known /\ known \subseteq Task
      /\ \A r \in timers.routines : r.task \in known
  BY DEF Inv, Consistent
<1>3. /\ timers.entries \in SUBSET Task /\ timers.ticks \in [Task -> Nat]
      /\ timers.stopChs \in [Task -> 0..MaxRoutines] /\ timers.routines \in SUBSET Routine
      /\ 0 \in 0..MaxRoutines
  BY <1>2, SchedulerAssumption DEF TimersState
<1>4. /\ tasks' \in [DOMAIN tasks' -> TaskState] /\ DOMAIN tasks' = DOMAIN tasks \ ids
      /\ \A x \in DOMAIN tasks' : tasks'[x] = tasks[x]
  BY <1>1, <1>2 DEF Without
<1>5. \A id \in Task : timers.ticks[id] = IF id \in timers.entries THEN 1 ELSE 0
  BY <1>2 DEF Armed
<1>6. \A id \in Task : less[id] = IF id \in timers.entries \ ids THEN 1 ELSE 0
  BY <1>5
<1>7. less \in [Task -> Nat]
  <2>1. \A id \in Task : less[id] \in Nat
    BY <1>6
  <2>. QED
    BY <2>1
<1>8. stop \in [Task -> 0..MaxRoutines]
  BY <1>3
<1>9. \A r \in timers.routines : r.task \notin ids => r \in kept
  <2>1. SUFFICES ASSUME NEW r \in timers.routines, r.task \notin ids, NEW id \in ids,
                        r.n = timers.stopChs[id]
                 PROVE  FALSE
    OBVIOUS
  <2>2. r.n # 0
    BY <1>3 DEF Routine
  <2>3. PICK s \in timers.routines : s.task = id /\ s.n = timers.stopChs[id]
    BY <1>2, <2>1, <2>2 DEF Armed
  <2>. QED
    BY <1>2, <2>1, <2>3 DEF Numbered
<1>10. kept \subseteq timers.routines
  OBVIOUS
<1>11. \A id \in Task \ ids : stop[id] = timers.stopChs[id]
  OBVIOUS
<1>12. \A id \in ids : stop[id] = 0
  OBVIOUS
<1>. HIDE DEF less, stop, kept
<1>13. /\ timers'.entries = timers.entries \ ids /\ timers'.ticks = less
       /\ timers'.stopChs = stop /\ timers'.routines = kept
  BY <1>1
<1>14. timers' \in TimersState
  BY <1>1, <1>3, <1>7, <1>8, <1>10 DEF TimersState
<1>15. Numbered(timers')
  BY <1>2, <1>10, <1>13 DEF Numbered
<1>16. ASSUME NEW x \in Task PROVE Armed(timers', tasks', x)
  <2>1. CASE x \in ids
    BY <1>4, <1>6, <1>12, <1>13, <2>1 DEF Armed, PendingIn
  <2>2. CASE x \notin ids
    <3>1. Armed(timers, tasks, x)
      BY <1>2
    <3>2. /\ x \in timers'.entries <=> x \in timers.entries
          /\ timers'.stopChs[x] = timers.stopChs[x] /\ timers'.ticks[x] = timers.ticks[x]
          /\ \A r \in timers.routines : r.task = x => r \in timers'.routines
          /\ timers'.routines \subseteq timers.routines
      BY <1>5, <1>6, <1>9, <1>10, <1>11, <1>13, <2>2
    <3>3. \A kind : PendingIn(tasks', x, kind) <=> PendingIn(tasks, x, kind)
      BY <1>4, <2>2 DEF PendingIn
    <3>4. x \in DOMAIN tasks' <=> x \in DOMAIN tasks
      BY <1>4, <2>2
    <3>. QED
      BY <3>1, <3>2, <3>3, <3>4 DEF Armed
  <2>. QED
    BY <2>1, <2>2
<1>17. disk' \in [DOMAIN disk' -> TaskState] /\ DOMAIN disk' \subseteq known
  BY <1>1, <1>2, <1>4, SaveIs
<1>. QED
  BY <1>1, <1>2, <1>4, <1>10, <1>13, <1>14, <1>15, <1>16, <1>17 DEF Consistent

(* Goroutines come and go, the list stays.                                  *)
LEMMA OnlyTimers ==
  ASSUME Inv, timers' \in TimersState, Numbered(timers'),
         \A r \in timers'.routines : r.task \in known,
         \A id \in Task : Armed(timers', tasks, id),
         tasks' = tasks, disk' = tasks \/ disk' = disk, known' = known
  PROVE  Consistent(timers', tasks', disk', known')
<1>1. /\ tasks \in [DOMAIN tasks -> TaskState] /\ disk \in [DOMAIN disk -> TaskState]
      /\ DOMAIN tasks \subseteq known /\ DOMAIN disk \subseteq known /\ known \subseteq Task
  BY DEF Inv, Consistent
<1>. QED
  BY <1>1 DEF Consistent

LEMMA TickStep ==
  ASSUME Inv, NEW id \in Task, Tick(id)
  PROVE  Consistent(timers', tasks', disk', known')
<1>. DEFINE n == FreeNumber(timers)
            q == [TimerRoutine(id, n) EXCEPT !.once = FALSE, !.pc = "firing"]
<1>1. /\ timers \in TimersState /\ Numbered(timers) /\ DOMAIN tasks \subseteq known
      /\ \A r \in timers.routines : r.task \in known
      /\ \A x \in Task : Armed(timers, tasks, x)
  BY DEF Inv, Consistent
<1>2. /\ timers.ticks[id] > 0 /\ FreeNumbers(timers) # {}
      /\ timers' = [timers EXCEPT !.routines = @ \cup {q}]
      /\ tasks' = tasks /\ disk' = disk /\ known' = known
  BY DEF Tick, history
<1>3. n \in 1..MaxRoutines /\ \A r \in timers.routines : r.n # n
  BY <1>1, <1>2, FreeOne
<1>. HIDE DEF n
<1>4. q \in Routine /\ q.n = n /\ q.task = id /\ q.pc = "firing"
  BY <1>3 DEF TimerRoutine, Routine
<1>. HIDE DEF q
<1>5. id \in known
  <2>1. Armed(timers, tasks, id)
    BY <1>1
  <2>2. id \in timers.entries
    BY <1>2, <2>1 DEF Armed
  <2>. QED
    BY <1>1, <2>1, <2>2 DEF Armed, PendingIn
<1>6. /\ timers'.entries = timers.entries /\ timers'.ticks = timers.ticks
      /\ timers'.stopChs = timers.stopChs /\ timers'.routines = timers.routines \cup {q}
      /\ timers' \in TimersState
  BY <1>1, <1>2, <1>4 DEF TimersState
<1>7. Numbered(timers')
  BY <1>1, <1>3, <1>4, <1>6 DEF Numbered
<1>8. ASSUME NEW x \in Task PROVE Armed(timers', tasks, x)
  <2>1. Armed(timers, tasks, x)
    BY <1>1
  <2>. QED
    BY <1>4, <1>6, <2>1 DEF Armed
<1>. QED
  BY <1>1, <1>2, <1>4, <1>5, <1>6, <1>7, <1>8, OnlyTimers

(* What every step of a goroutine starts from.                              *)
LEMMA Running ==
  ASSUME Inv, NEW r \in timers.routines
  PROVE  /\ timers \in TimersState /\ Numbered(timers)
         /\ r \in Routine /\ r.task \in known /\ r.task \in Task
         /\ known \in SUBSET Task /\ tasks \in [DOMAIN tasks -> TaskState]
         /\ \A s \in timers.routines : s.task \in known
         /\ \A id \in Task : Armed(timers, tasks, id)
BY DEF Inv, Consistent, TimersState

LEMMA MovedStep ==
  ASSUME Inv, NEW r \in timers.routines,
         NEW pc \in {"firing", "running", "ending"}, NEW script \in BOOLEAN,
         timers' = Moved(timers, r, pc, script),
         tasks' = tasks, disk' = tasks \/ disk' = disk, known' = known
  PROVE  Consistent(timers', tasks', disk', known')
<1>1. /\ timers \in TimersState /\ Numbered(timers)
      /\ r.task \in known /\ \A s \in timers.routines : s.task \in known
      /\ \A id \in Task : Armed(timers, tasks, id)
  BY Running
<1>. DEFINE q == [r EXCEPT !.pc = pc, !.script = script]
<1>2. /\ timers' \in TimersState /\ Numbered(timers')
  BY <1>1, MovedIs
<1>6. timers'.routines = (timers.routines \ {r}) \cup {q}
  BY <1>1 DEF Moved, TimersState
<1>7. q.task = r.task
  BY Running DEF Routine
<1>5. \A ts, x : Armed(timers, ts, x) => Armed(timers', ts, x)
  BY <1>1, MovedIs
<1>. HIDE DEF q
<1>3. \A s \in timers'.routines : s.task \in known
  BY <1>1, <1>6, <1>7
<1>4. \A id \in Task : Armed(timers', tasks, id)
  BY <1>1, <1>5
<1>. QED
  BY <1>2, <1>3, <1>4, OnlyTimers

LEMMA EndedStep ==
  ASSUME Inv, NEW r \in timers.routines, timers' = Ended(timers, r),
         ~PendingIn(tasks, r.task, "once") \/ ~r.once,
         tasks' = tasks, disk' = disk, known' = known
  PROVE  Consistent(timers', tasks', disk', known')
<1>1. /\ timers \in TimersState /\ Numbered(timers)
      /\ \A s \in timers.routines : s.task \in known
      /\ \A id \in Task : Armed(timers, tasks, id)
  BY Running
<1>2. /\ timers' \in TimersState /\ Numbered(timers')
      /\ timers'.routines = timers.routines \ {r}
      /\ \A ts, x : /\ Armed(timers, ts, x)
                    /\ x = r.task => ~PendingIn(ts, x, "once") \/ ~r.once
                    => Armed(timers', ts, x)
  BY <1>1, EndedIs
<1>3. \A id \in Task : Armed(timers', tasks, id)
  BY <1>1, <1>2
<1>. QED
  BY <1>1, <1>2, <1>3, OnlyTimers

LEMMA FireDeferredStep ==
  ASSUME Inv, NEW r \in timers.routines, FireDeferred(r), known' = known
  PROVE  Consistent(timers', tasks', disk', known')
<1>. DEFINE id == r.task
            E  == Ended(timers, r)
<1>1. tasks' = tasks /\ id \in DOMAIN tasks /\ tasks[id].status = "pending"
  BY DEF FireDeferred, Fireable
<1>2. CASE tasks[id].kind = "once"
  <2>1. timers' = Register(Deregister(E, id), id, "once") /\ Save
    BY <1>2 DEF FireDeferred
  <2>2. /\ timers \in TimersState /\ Numbered(timers) /\ Stoppable(timers, id)
        /\ id \in known /\ id \in Task /\ known \in SUBSET Task
        /\ tasks \in [DOMAIN tasks -> TaskState]
    BY <1>1, Known
  <2>3. /\ E \in TimersState /\ Numbered(E) /\ E.routines = timers.routines \ {r}
        /\ r.n \in FreeNumbers(E) /\ Stoppable(E, id) /\ SameBut(timers, E, id)
    BY <2>2, EndedIs
  <2>. HIDE DEF E
  <2>4. /\ timers' \in TimersState /\ Numbered(timers') /\ SameBut(E, timers', id)
        /\ \A s \in timers'.routines : s \in E.routines \/ s.task = id
        /\ \A ts : id \in DOMAIN ts /\ ts[id].status = "pending" /\ ts[id].kind = "once"
                      => Armed(timers', ts, id)
    BY <2>1, <2>2, <2>3, Rearmed
  <2>5. Armed(timers', tasks', id) /\ OnlyTask(tasks, tasks', id)
    BY <1>1, <1>2, <2>4 DEF OnlyTask
  <2>6. /\ SameBut(timers, timers', id) /\ timers' \in TimersState /\ Numbered(timers')
        /\ \A s \in timers'.routines : s \in timers.routines \/ s.task = id
    BY <2>3, <2>4, SameButTwice
  <2>7. /\ tasks' \in [DOMAIN tasks' -> TaskState] /\ DOMAIN tasks' \subseteq DOMAIN tasks \cup {id}
        /\ known' \in SUBSET Task /\ known \subseteq known' /\ id \in known'
        /\ disk' = tasks' \/ disk' = disk
    BY <1>1, <2>1, <2>2, SaveIs
  <2>. HIDE DEF id
  <2>. QED
    BY <2>2, <2>5, <2>6, <2>7, Concludes DEF Inv
<1>3. CASE tasks[id].kind # "once"
  <2>1. timers' = E /\ disk' = disk
    BY <1>3 DEF FireDeferred
  <2>. QED
    BY <1>1, <1>3, <2>1, EndedStep DEF PendingIn
<1>. QED
  BY <1>2, <1>3

LEMMA FireStep ==
  ASSUME Inv, NEW r \in timers.routines, Fire(r)
  PROVE  Consistent(timers', tasks', disk', known')
<1>1. known' = known
  BY DEF Fire, history
<1>2. CASE FireRefused(r)
  BY <1>1, <1>2, EndedStep DEF FireRefused, Fireable, PendingIn
<1>3. CASE FireDeferred(r)
  BY <1>1, <1>3, FireDeferredStep
<1>4. CASE FireGranted(r)
  <2>1. /\ r.task \in DOMAIN tasks /\ tasks' = tasks /\ Save
        /\ timers' = Moved(timers, r, "running", tasks[r.task].script)
    BY <1>4 DEF FireGranted, Fireable
  <2>2. tasks[r.task].script \in BOOLEAN
    BY <2>1, Known DEF TaskState
  <2>. QED
    BY <1>1, <2>1, <2>2, SaveIs, MovedStep
<1>. QED
  BY <1>2, <1>3, <1>4 DEF Fire

LEMMA DeliverStep ==
  ASSUME Inv, NEW r \in timers.routines, Deliver(r)
  PROVE  Consistent(timers', tasks', disk', known')
<1>1. tasks' = tasks /\ disk' = disk /\ known' = known
  BY DEF Deliver
<1>2. CASE r.once
  BY <1>1, <1>2, MovedStep DEF Deliver
<1>3. CASE ~r.once
  BY <1>1, <1>3, EndedStep DEF Deliver
<1>. QED
  BY <1>2, <1>3

LEMMA RemoveStep ==
  ASSUME Inv, NEW r \in timers.routines, Remove(r)
  PROVE  Consistent(timers', tasks', disk', known')
<1>. DEFINE id == r.task
            F  == Forgotten(timers, id)
<1>1. /\ tasks' = Without(tasks, {id}) /\ timers' = Ended(F, r) /\ Save /\ known' = known
  BY DEF Remove, history
<1>2. /\ timers \in TimersState /\ Numbered(timers) /\ Armed(timers, tasks, id)
      /\ tasks \in [DOMAIN tasks -> TaskState]
      /\ id \in known /\ id \in Task /\ known \in SUBSET Task
  BY Running
<1>3. /\ tasks' \in [DOMAIN tasks' -> TaskState] /\ DOMAIN tasks' = DOMAIN tasks \ {id}
      /\ \A x \in DOMAIN tasks' : tasks'[x] = tasks[x]
  BY <1>1, <1>2 DEF Without
<1>4. OnlyTask(tasks, tasks', id)
  BY <1>3 DEF OnlyTask
<1>5. /\ F \in TimersState /\ Numbered(F) /\ SameBut(timers, F, id)
      /\ F.routines = timers.routines /\ Armed(F, tasks', id)
  BY <1>2, <1>3, Forgot
<1>. HIDE DEF F
<1>6. /\ timers' \in TimersState /\ Numbered(timers') /\ SameBut(F, timers', id)
      /\ timers'.routines = F.routines \ {r}
      /\ \A ts, x : /\ Armed(F, ts, x)
                    /\ x = r.task => ~PendingIn(ts, x, "once") \/ ~r.once
                    => Armed(timers', ts, x)
  BY <1>1, <1>5, EndedIs
<1>7. Armed(timers', tasks', id)
  BY <1>3, <1>5, <1>6 DEF PendingIn
<1>8. /\ SameBut(timers, timers', id)
      /\ \A s \in timers'.routines : s \in timers.routines \/ s.task = id
  BY <1>5, <1>6, SameButTwice
<1>. HIDE DEF id
<1>. QED
  BY <1>1, <1>2, <1>3, <1>4, <1>6, <1>7, <1>8, SaveIs, Concludes DEF Inv

LEMMA StepStep ==
  ASSUME Inv, NEW r \in timers.routines, Step(r)
  PROVE  Consistent(timers', tasks', disk', known')
<1>1. CASE Wake(r)
  <2>1. /\ timers' = Moved(timers, r, "firing", FALSE)
        /\ tasks' = tasks /\ disk' = disk /\ known' = known
    BY <1>1 DEF Wake, history
  <2>. QED
    BY <2>1, MovedStep
<1>2. CASE Fire(r)
  BY <1>2, FireStep
<1>3. CASE Deliver(r)
  BY <1>3, DeliverStep
<1>4. CASE Remove(r)
  BY <1>4, RemoveStep
<1>. QED
  BY <1>1, <1>2, <1>3, <1>4 DEF Step

LEMMA RestartStep ==
  ASSUME Inv, Restart
  PROVE  Consistent(timers', tasks', disk', known')
<1>. DEFINE armed(k) == {id \in DOMAIN disk :
                            disk[id].status = "pending" /\ disk[id].kind = k}
            numbers == {f \in [armed("once") -> 1..MaxRoutines] :
                           \A x, y \in armed("once") : x # y => f[x] # f[y]}
            number  == CHOOSE f \in numbers : TRUE
            cron == armed("cron")
            once == armed("once")
            ticks   == [id \in Task |-> IF id \in cron THEN 1 ELSE 0]
            stops   == [id \in Task |-> IF id \in once THEN number[id] ELSE 0]
            waiting == {TimerRoutine(id, number[id]) : id \in once}
<1>1. /\ numbers # {} /\ tasks' = disk /\ disk' = disk /\ known' = known
      /\ timers' = [entries |-> cron, ticks |-> ticks, stopChs |-> stops,
                    routines |-> waiting]
  BY DEF Restart, history
<1>2. /\ disk \in [DOMAIN disk -> TaskState]
      /\ DOMAIN disk \subseteq known /\ known \subseteq Task
  BY DEF Inv, Consistent
<1>3. number \in numbers
  BY <1>1
<1>4. /\ number \in [once -> 1..MaxRoutines]
      /\ \A x, y \in once : x # y => number[x] # number[y]
  BY <1>3
<1>5. once \subseteq DOMAIN disk /\ cron \subseteq DOMAIN disk
  OBVIOUS
<1>6. /\ \A id : id \in cron <=> PendingIn(disk, id, "cron")
      /\ \A id : id \in once <=> PendingIn(disk, id, "once")
  BY DEF PendingIn
<1>. HIDE DEF number, cron, once
<1>7. ticks \in [Task -> Nat] /\ stops \in [Task -> 0..MaxRoutines]
  <2>1. \A id \in once : number[id] \in 0..MaxRoutines
    BY <1>4, SchedulerAssumption
  <2>. QED
    BY <2>1, SchedulerAssumption
<1>8. /\ \A id \in Task : ticks[id] = IF id \in cron THEN 1 ELSE 0
      /\ \A id \in Task : stops[id] = IF id \in once THEN number[id] ELSE 0
  OBVIOUS
<1>9. waiting = {TimerRoutine(id, number[id]) : id \in once}
  OBVIOUS
<1>. HIDE DEF ticks, stops
<1>. HIDE DEF waiting
<1>10. /\ \A id \in once : TimerRoutine(id, number[id]) \in waiting
       /\ \A r \in waiting : /\ r \in Routine /\ r.task \in once /\ r.n = number[r.task]
                             /\ r.once = TRUE
  <2>1. ASSUME NEW id \in once, NEW r, r = TimerRoutine(id, number[id])
        PROVE  r \in Routine /\ r.task = id /\ r.n = number[r.task] /\ r.once = TRUE
    <3>1. number[id] \in 1..MaxRoutines /\ id \in Task
      BY <1>2, <1>4, <1>5
    <3>. QED
      BY <2>1, <3>1 DEF TimerRoutine, Routine
  <2>2. \A id \in once : TimerRoutine(id, number[id]) \in waiting
    BY <1>9
  <2>3. ASSUME NEW r \in waiting
        PROVE  /\ r \in Routine /\ r.task \in once /\ r.n = number[r.task]
               /\ r.once = TRUE
    <3>1. PICK id \in once : r = TimerRoutine(id, number[id])
      BY <1>9
    <3>. QED
      BY <2>1, <3>1
  <2>. QED
    BY <2>2, <2>3
<1>11. \A id \in once : \E r \in waiting : r.task = id /\ r.once /\ r.n = number[id]
  <2>1. ASSUME NEW id \in once
        PROVE  \E r \in waiting : r.task = id /\ r.once /\ r.n = number[id]
    <3>1. TimerRoutine(id, number[id]) \in waiting
      BY <1>10
    <3>. QED
      BY <3>1 DEF TimerRoutine
  <2>. QED
    BY <2>1
<1>12. Numbered(timers')
  <2>1. SUFFICES ASSUME NEW r \in waiting, NEW s \in waiting, r.n = s.n PROVE r = s
    BY <1>1 DEF Numbered
  <2>2. r.task = s.task
    BY <1>4, <1>10, <2>1
  <2>3. \A q \in waiting : q = TimerRoutine(q.task, number[q.task])
    BY <1>9 DEF TimerRoutine
  <2>. QED
    BY <2>2, <2>3
<1>13. timers' \in TimersState
  <2>1. cron \in SUBSET Task /\ waiting \in SUBSET Routine
    BY <1>2, <1>5, <1>10
  <2>. QED
    BY <1>1, <1>7, <2>1 DEF TimersState
<1>14. ASSUME NEW id \in Task PROVE Armed(timers', tasks', id)
  <2>1. \A r \in waiting : r.task = id => id \in once /\ r.n = stops[id]
    BY <1>8, <1>10
  <2>2. stops[id] # 0 => id \in once /\ \E r \in waiting : r.task = id /\ r.once /\ r.n = stops[id]
    BY <1>8, <1>11
  <2>3. id \in once => \E r \in waiting : r.task = id /\ r.once
    BY <1>11
  <2>. QED
    BY <1>1, <1>6, <1>8, <2>1, <2>2, <2>3 DEF Armed
<1>15. \A r \in timers'.routines : r.task \in known
  BY <1>1, <1>2, <1>5, <1>10
<1>. QED
  BY <1>1, <1>2, <1>12, <1>13, <1>14, <1>15 DEF Consistent

LEMMA InvHolds == ASSUME Consistent(timers', tasks', disk', known') PROVE Inv'
BY DEF Inv

LEMMA InvInit == Init => Inv
<1>. SUFFICES ASSUME Init PROVE Consistent(timers, tasks, disk, known)
  BY DEF Inv
<1>1. /\ timers = NothingArmed /\ DOMAIN tasks = {} /\ DOMAIN disk = {} /\ known = {}
      /\ tasks \in [DOMAIN tasks -> TaskState] /\ disk \in [DOMAIN disk -> TaskState]
  BY DEF Init
<1>2. timers \in TimersState /\ timers.routines = {} /\ timers.entries = {}
  BY <1>1, SchedulerAssumption DEF NothingArmed, TimersState
<1>3. \A id \in Task : timers.ticks[id] = 0 /\ timers.stopChs[id] = 0
  BY <1>1 DEF NothingArmed
<1>4. Numbered(timers)
  BY <1>2 DEF Numbered
<1>5. \A id \in Task : Armed(timers, tasks, id)
  BY <1>1, <1>2, <1>3 DEF Armed, PendingIn
<1>. QED
  BY <1>1, <1>2, <1>4, <1>5 DEF Consistent

LEMMA InvNext == Inv /\ [Next]_vars => Inv'
<1>. SUFFICES ASSUME Inv, [Next]_vars PROVE Consistent(timers', tasks', disk', known')
  BY InvHolds
<1>1. CASE UNCHANGED vars
  BY <1>1 DEF Inv, vars, history
<1>2. CASE \E id \in Task : Edit(id) \/ PauseTask(id) \/ ResumeTask(id) \/ CancelTask(id)
                                     \/ DeleteTask(id) \/ Tick(id)
  <2>1. PICK id \in Task : Edit(id) \/ PauseTask(id) \/ ResumeTask(id) \/ CancelTask(id)
                                    \/ DeleteTask(id) \/ Tick(id)
    BY <1>2
  <2>2. CASE Edit(id)
    <3>1. PICK form \in Form : AddTask(id, form) \/ UpdateTask(id, form) \/ EditTask(id, form)
      BY <2>2 DEF Edit
    <3>. QED
      BY <3>1, AddTaskStep, UpdateTaskStep, EditTaskStep
  <2>. QED
    BY <2>1, <2>2, PauseTaskStep, ResumeTaskStep, CancelTaskStep, DeleteTaskStep, TickStep
<1>3. CASE \E ids \in SUBSET Task : DeleteTasksForPlaybook(ids)
  BY <1>3, DeleteTasksForPlaybookStep
<1>4. CASE \E n \in 1..MaxRoutines : RoutineStep(n)
  BY <1>4, StepStep DEF RoutineStep
<1>5. CASE Restart
  BY <1>5, RestartStep
<1>. QED
  BY <1>1, <1>2, <1>3, <1>4, <1>5 DEF Next

LEMMA Invariance == Spec => []Inv
BY InvInit, InvNext, PTL DEF Spec

-----------------------------------------------------------------------------
(* TypeOK (scheduler.go:21-35) for any tasks, forms and bounds.             *)
THEOREM TypeCorrect == Spec => []TypeOK
<1>1. Inv => TypeOK
  BY DEF Inv, Consistent, TypeOK, TimersState
<1>. QED
  BY <1>1, Invariance, PTL

(* OneShotsAreArmed (scheduler.go:157-203): a pending one-shot is never left*)
(* without a goroutine, whatever is edited, deferred, removed or restarted. *)
THEOREM OneShotsArmed == Spec => []OneShotsAreArmed
<1>1. Inv => OneShotsAreArmed
  <2>. SUFFICES ASSUME Inv, NEW id \in Task
                PROVE  /\ Pending(id, "once") => RoutinesOf(id) # {}
                       /\ timers.stopChs[id] # 0 =>
                             /\ Pending(id, "once")
                             /\ \E r \in RoutinesOf(id) : r.n = timers.stopChs[id]
    BY DEF OneShotsAreArmed
  <2>1. Armed(timers, tasks, id)
    BY DEF Inv, Consistent
  <2>2. Pending(id, "once") => RoutinesOf(id) # {}
    BY <2>1 DEF Armed, PendingIn, Pending, RoutinesOf
  <2>3. ASSUME timers.stopChs[id] # 0
        PROVE  /\ Pending(id, "once")
               /\ \E r \in RoutinesOf(id) : r.n = timers.stopChs[id]
    BY <2>1, <2>3 DEF Armed, PendingIn, Pending, RoutinesOf
  <2>. QED
    BY <2>2, <2>3
<1>. QED
  BY <1>1, Invariance, PTL

(* StoppedIsStopped (scheduler.go:433-478): what still waits for its time   *)
(* waits for a pending one-shot or for a task that is gone.                 *)
THEOREM StoppedStays == Spec => []StoppedIsStopped
<1>1. Inv => StoppedIsStopped
  <2>. SUFFICES ASSUME Inv, NEW r \in timers.routines, r.pc = "waiting", r.task \in DOMAIN tasks
                PROVE  Pending(r.task, "once")
    BY DEF StoppedIsStopped
  <2>1. r.n # 0 /\ Armed(timers, tasks, r.task)
    BY Running DEF Routine
  <2>. QED
    BY <2>1 DEF Armed, PendingIn, Pending
<1>. QED
  BY <1>1, Invariance, PTL

(* NoGhostEntries (scheduler.go:445-448): the cron runner holds one entry   *)
(* for a pending repeat and none for anything else.                         *)
THEOREM NoGhosts == Spec => []NoGhostEntries
<1>1. Inv => NoGhostEntries
  <2>. SUFFICES ASSUME Inv, NEW id \in Task
                PROVE  /\ id \in timers.entries <=> Pending(id, "cron")
                       /\ timers.ticks[id] = IF id \in timers.entries THEN 1 ELSE 0
    BY DEF NoGhostEntries
  <2>1. Armed(timers, tasks, id)
    BY DEF Inv, Consistent
  <2>. QED
    BY <2>1 DEF Armed, PendingIn, Pending
<1>. QED
  BY <1>1, Invariance, PTL

-----------------------------------------------------------------------------
(* Confirmed tasks.                                                         *)

LEMMA KeptFrame ==
  ASSUME Kept, ran' = ran, skipped' = skipped, removed \subseteq removed', acked' = acked,
         known \subseteq known', disk' = tasks' \/ disk' = disk,
         \A id \in DOMAIN tasks :
            id \in DOMAIN tasks' \/ id \in removed' \/ ran[id] > 0 \/ id \in skipped,
         \A r \in timers'.routines : r.pc = "ending" => r \in timers.routines
  PROVE  Kept'
<1>1. ran' \in [Task -> Nat] /\ acked' \subseteq known'
  BY DEF Kept
<1>2. ASSUME NEW id \in acked' \ (skipped' \cup removed')
      PROVE  ran'[id] > 0 \/ (id \in DOMAIN disk' /\ id \in DOMAIN tasks')
  <2>1. ran[id] > 0 \/ (id \in DOMAIN disk /\ id \in DOMAIN tasks)
    BY <1>2 DEF Kept
  <2>. QED
    BY <1>2, <2>1
<1>3. \A r \in timers'.routines : r.pc = "ending" => ran'[r.task] > 0 \/ r.task \in skipped'
  BY DEF Kept
<1>. QED
  BY <1>1, <1>2, <1>3 DEF Kept

(* Changes of a task in the list.                                           *)
LEMMA EditKept ==
  ASSUME Inv, Kept, NEW id \in Task,
         PauseTask(id) \/ CancelTask(id) \/ ResumeTask(id)
         \/ \E form \in Form : UpdateTask(id, form) \/ EditTask(id, form)
  PROVE  Kept'
<1>1. id \in DOMAIN tasks /\ FreeNumbers(timers) # {} /\ UNCHANGED history
  BY DEF PauseTask, CancelTask, ResumeTask, UpdateTask, EditTask, Command
<1>2. timers \in TimersState /\ Numbered(timers) /\ Stoppable(timers, id)
  BY <1>1, Known
<1>3. Deregister(timers, id).routines \subseteq timers.routines
  BY <1>2, <1>1, Deregistered
<1>4. ASSUME NEW kind
      PROVE  \A r \in Register(timers, id, kind).routines :
                r.pc = "ending" => r \in timers.routines
  BY <1>2, <1>1, Registered
<1>5. ASSUME NEW kind
      PROVE  \A r \in Register(Deregister(timers, id), id, kind).routines :
                r.pc = "ending" => r \in timers.routines
  BY <1>2, <1>1, Rearmed
<1>6. CASE PauseTask(id) \/ CancelTask(id)
  <2>1. timers' = Deregister(timers, id) /\ DOMAIN tasks' = DOMAIN tasks /\ Save
    BY <1>6 DEF PauseTask, CancelTask
  <2>. QED
    BY <1>1, <1>3, <2>1, SaveIs, KeptFrame DEF history
<1>7. CASE ResumeTask(id)
  <2>1. /\ timers' = timers \/ timers' = Register(timers, id, tasks[id].kind)
        /\ DOMAIN tasks' = DOMAIN tasks /\ (disk' = disk \/ Save)
    BY <1>7 DEF ResumeTask
  <2>2. \A r \in timers'.routines : r.pc = "ending" => r \in timers.routines
    BY <1>4, <2>1
  <2>. QED
    BY <1>1, <2>1, <2>2, SaveIs, KeptFrame DEF history
<1>8. ASSUME NEW form \in Form, UpdateTask(id, form) \/ EditTask(id, form)
      PROVE  Kept'
  <2>1. /\ \/ timers' = timers \/ timers' = Deregister(timers, id)
           \/ \E kind : timers' = Register(Deregister(timers, id), id, kind)
        /\ DOMAIN tasks' = DOMAIN tasks /\ (disk' = disk \/ Save)
    <3>1. CASE UpdateTask(id, form)
      BY <3>1 DEF UpdateTask
    <3>2. CASE EditTask(id, form)
      BY <3>2 DEF EditTask
    <3>. QED
      BY <1>8, <3>1, <3>2
  <2>2. \A r \in timers'.routines : r.pc = "ending" => r \in timers.routines
    BY <1>3, <1>5, <2>1
  <2>. QED
    BY <1>1, <2>1, <2>2, SaveIs, KeptFrame DEF history
<1>. QED
  BY <1>6, <1>7, <1>8

LEMMA AddKept ==
  ASSUME Inv, Kept, NEW id \in Task, NEW form \in Form, AddTask(id, form)
  PROVE  Kept'
<1>1. /\ FreeNumbers(timers) # {} /\ id \notin known /\ Save
      /\ timers' = Register(timers, id, form.kind) /\ known' = known \cup {id}
      /\ DOMAIN tasks' = DOMAIN tasks \cup {id}
      /\ acked' = IF disk' = tasks' THEN acked \cup {id} ELSE acked
      /\ ran' = ran /\ skipped' = skipped /\ removed' = removed
  BY DEF AddTask, Command, With
<1>2. timers \in TimersState /\ Numbered(timers)
  BY DEF Inv, Consistent
<1>3. \A r \in timers'.routines : r.pc = "ending" => r \in timers.routines
  BY <1>1, <1>2, Registered
<1>4. \A r \in timers'.routines : r.pc = "ending" => ran'[r.task] > 0 \/ r.task \in skipped'
  BY <1>1, <1>3 DEF Kept
<1>5. ran' \in [Task -> Nat] /\ acked' \subseteq known'
  BY <1>1 DEF Kept
<1>6. \A x \in acked' \ (skipped' \cup removed') :
         ran'[x] > 0 \/ (x \in DOMAIN disk' /\ x \in DOMAIN tasks')
  BY <1>1, SaveIs DEF Kept
<1>. QED
  BY <1>4, <1>5, <1>6 DEF Kept

LEMMA DropKept ==
  ASSUME Inv, Kept,
         \/ \E id \in Task : DeleteTask(id)
         \/ \E ids \in SUBSET Task : DeleteTasksForPlaybook(ids)
  PROVE  Kept'
<1>1. timers \in TimersState
  BY DEF Inv, Consistent
<1>2. ASSUME NEW id \in Task, DeleteTask(id) PROVE Kept'
  <2>1. /\ timers'.routines = timers.routines /\ DOMAIN tasks' = DOMAIN tasks \ {id} /\ Save
        /\ ran' = ran /\ skipped' = skipped /\ removed' = removed \cup {id}
        /\ acked' = acked /\ known' = known
    BY <1>1, <1>2 DEF DeleteTask, Forgotten, Without, TimersState
  <2>. QED
    BY <2>1, SaveIs, KeptFrame
<1>3. ASSUME NEW ids \in SUBSET Task, DeleteTasksForPlaybook(ids) PROVE Kept'
  <2>1. /\ timers'.routines \subseteq timers.routines
        /\ DOMAIN tasks' = DOMAIN tasks \ ids /\ Save
        /\ ran' = ran /\ skipped' = skipped /\ removed' = removed \cup ids
        /\ acked' = acked /\ known' = known
    BY <1>1, <1>3 DEF DeleteTasksForPlaybook, Without, TimersState
  <2>. QED
    BY <2>1, SaveIs, KeptFrame
<1>. QED
  BY <1>2, <1>3

LEMMA RestartKept ==
  ASSUME Inv, Kept, Restart
  PROVE  Kept'
<1>. DEFINE once    == {id \in DOMAIN disk :
                           disk[id].status = "pending" /\ disk[id].kind = "once"}
            numbers == {f \in [once -> 1..MaxRoutines] :
                           \A x, y \in once : x # y => f[x] # f[y]}
            number  == CHOOSE f \in numbers : TRUE
            waiting == {TimerRoutine(id, number[id]) : id \in once}
<1>1. /\ tasks' = disk /\ disk' = disk /\ ran' = ran /\ skipped' = skipped
      /\ removed' = removed /\ acked' = acked /\ known' = known
      /\ timers'.routines = waiting
  BY DEF Restart, history
<1>. HIDE DEF once, number
<1>2. \A r \in waiting : r.pc = "waiting"
  BY DEF TimerRoutine
<1>. QED
  BY <1>1, <1>2 DEF Kept

LEMMA StepKept ==
  ASSUME Inv, Kept, NEW r \in timers.routines, Step(r)
  PROVE  Kept'
<1>1. /\ timers \in TimersState /\ Numbered(timers) /\ r \in Routine /\ r.task \in Task
  BY Running
<1>2. ASSUME NEW pc, NEW script, timers' = Moved(timers, r, pc, script)
      PROVE  \A s \in timers'.routines :
                s \in timers.routines \/ (s.pc = pc /\ s.task = r.task)
  BY <1>1, <1>2 DEF Moved, TimersState, Routine
<1>3. timers' = Ended(timers, r) => timers'.routines \subseteq timers.routines
  BY <1>1 DEF Ended, TimersState
<1>4. CASE Wake(r)
  <2>1. /\ timers' = Moved(timers, r, "firing", FALSE)
        /\ tasks' = tasks /\ disk' = disk /\ UNCHANGED history
    BY <1>4 DEF Wake
  <2>2. \A s \in timers'.routines : s \in timers.routines \/ s.pc = "firing"
    BY <1>2, <2>1
  <2>3. \A s \in timers'.routines : s.pc = "ending" => s \in timers.routines
    BY <2>2
  <2>. QED
    BY <2>1, <2>3, KeptFrame DEF history
<1>5. CASE Fire(r)
  <2>1. UNCHANGED history
    BY <1>5 DEF Fire
  <2>2. tasks' = tasks /\ (disk' = disk \/ Save)
    BY <1>5 DEF Fire, FireRefused, FireDeferred, FireGranted
  <2>3. CASE FireRefused(r)
    BY <1>3, <2>1, <2>2, <2>3, SaveIs, KeptFrame DEF history, FireRefused
  <2>4. CASE FireGranted(r)
    BY <1>2, <2>1, <2>2, <2>4, SaveIs, KeptFrame DEF history, FireGranted
  <2>5. CASE FireDeferred(r)
    <3>1. CASE timers' = Ended(timers, r)
      BY <1>3, <2>1, <2>2, <3>1, SaveIs, KeptFrame DEF history
    <3>2. CASE timers' = Register(Deregister(Ended(timers, r), r.task), r.task, "once")
      <4>. DEFINE E == Ended(timers, r)
      <4>1. r.task \in DOMAIN tasks
        BY <2>5 DEF FireDeferred, Fireable
      <4>2. Stoppable(timers, r.task)
        BY <4>1, Known
      <4>3. /\ E \in TimersState /\ Numbered(E) /\ E.routines = timers.routines \ {r}
            /\ r.n \in FreeNumbers(E) /\ Stoppable(E, r.task)
        BY <1>1, <4>2, EndedIs
      <4>. HIDE DEF E
      <4>4. \A s \in timers'.routines :
               s \in E.routines \/ (s.task = r.task /\ s.pc = "waiting")
        BY <1>1, <3>2, <4>3, Rearmed DEF E
      <4>5. \A s \in timers'.routines : s.pc = "ending" => s \in timers.routines
        BY <4>3, <4>4
      <4>. QED
        BY <2>1, <2>2, <4>5, SaveIs, KeptFrame DEF history
    <3>. QED
      BY <2>5, <3>1, <3>2 DEF FireDeferred
  <2>. QED
    BY <1>5, <2>3, <2>4, <2>5 DEF Fire
<1>6. CASE Deliver(r)
  <2>1. /\ tasks' = tasks /\ disk' = disk /\ removed' = removed /\ acked' = acked
        /\ known' = known
    BY <1>6 DEF Deliver
  <2>2. /\ ran' \in [Task -> Nat] /\ skipped \subseteq skipped'
        /\ \A id \in Task : ran[id] > 0 => ran'[id] > 0
        /\ ran'[r.task] > 0 \/ r.task \in skipped'
    <3>1. CASE ran' = ran /\ skipped' = skipped \cup {r.task}
      BY <3>1 DEF Kept
    <3>2. CASE /\ ran' = [ran EXCEPT ![r.task] = IF @ < CountedRuns THEN @ + 1 ELSE @]
               /\ skipped' = skipped
      <4>. DEFINE more == IF ran[r.task] < CountedRuns THEN ran[r.task] + 1 ELSE ran[r.task]
      <4>1. more \in Nat /\ more > 0
        BY <1>1, SchedulerAssumption DEF Kept
      <4>2. ran' = [ran EXCEPT ![r.task] = more]
        BY <3>2
      <4>. HIDE DEF more
      <4>. QED
        BY <1>1, <3>2, <4>1, <4>2 DEF Kept
    <3>. QED
      BY <1>6, <3>1, <3>2 DEF Deliver
  <2>3. \A s \in timers'.routines :
           s \in timers.routines \/ (s.pc = "ending" /\ s.task = r.task)
    BY <1>2, <1>3, <1>6 DEF Deliver
  <2>4. acked \subseteq Task /\ \A s \in timers.routines : s.task \in Task
    BY Running DEF Kept
  <2>5. \A s \in timers'.routines : s.pc = "ending" => ran'[s.task] > 0 \/ s.task \in skipped'
    BY <2>2, <2>3, <2>4 DEF Kept
  <2>6. \A id \in acked' \ (skipped' \cup removed') :
           ran'[id] > 0 \/ (id \in DOMAIN disk' /\ id \in DOMAIN tasks')
    BY <2>1, <2>2, <2>4 DEF Kept
  <2>. QED
    BY <2>1, <2>2, <2>5, <2>6 DEF Kept
<1>7. CASE Remove(r)
  <2>1. /\ r.pc = "ending" /\ Save /\ UNCHANGED history
        /\ DOMAIN tasks' = DOMAIN tasks \ {r.task}
        /\ timers' = Ended(Forgotten(timers, r.task), r)
    BY <1>7 DEF Remove, Without
  <2>2. timers'.routines \subseteq timers.routines
    BY <1>1, <2>1 DEF Ended, Forgotten, TimersState
  <2>3. ran[r.task] > 0 \/ r.task \in skipped
    BY <2>1 DEF Kept
  <2>. QED
    BY <2>1, <2>2, <2>3, SaveIs, KeptFrame DEF history
<1>. QED
  BY <1>4, <1>5, <1>6, <1>7 DEF Step

LEMMA KeptNext == Inv /\ Kept /\ [Next]_vars => Kept'
<1>. SUFFICES ASSUME Inv, Kept, [Next]_vars PROVE Kept'
  OBVIOUS
<1>1. CASE UNCHANGED vars
  BY <1>1 DEF Kept, vars, history
<1>2. ASSUME NEW id \in Task,
             Edit(id) \/ PauseTask(id) \/ ResumeTask(id) \/ CancelTask(id)
      PROVE  Kept'
  <2>1. CASE \E form \in Form : AddTask(id, form)
    BY <2>1, AddKept
  <2>. QED
    BY <1>2, <2>1, EditKept DEF Edit
<1>3. CASE \E id \in Task : DeleteTask(id)
  BY <1>3, DropKept
<1>4. ASSUME NEW id \in Task, Tick(id) PROVE Kept'
  <2>1. timers \in TimersState
    BY DEF Inv, Consistent
  <2>2. \A r \in timers'.routines : r.pc = "ending" => r \in timers.routines
    BY <1>4, <2>1 DEF Tick, TimersState, TimerRoutine
  <2>3. tasks' = tasks /\ disk' = disk /\ UNCHANGED history
    BY <1>4 DEF Tick
  <2>. QED
    BY <2>2, <2>3, KeptFrame DEF history
<1>5. CASE \E ids \in SUBSET Task : DeleteTasksForPlaybook(ids)
  BY <1>5, DropKept
<1>6. CASE \E n \in 1..MaxRoutines : RoutineStep(n)
  BY <1>6, StepKept DEF RoutineStep
<1>7. CASE Restart
  BY <1>7, RestartKept
<1>. QED
  BY <1>1, <1>2, <1>3, <1>4, <1>5, <1>6, <1>7 DEF Next

(* ConfirmedTaskIsKept (scheduler.go:421-431): a confirmed task is on disk  *)
(* until it ran, was skipped or was removed by the user.                    *)
THEOREM ConfirmedKept == Spec => []ConfirmedTaskIsKept
<1>1. Init => Kept
  BY DEF Init, Kept, NothingArmed
<1>2. Kept => ConfirmedTaskIsKept
  BY DEF Kept, ConfirmedTaskIsKept
<1>. QED
  BY <1>1, <1>2, KeptNext, Invariance, PTL DEF Spec
=============================================================================
