------------------------- MODULE TurnWatchdogProofs -------------------------
(***************************************************************************)
(* Theorems about the watchdog of a turn, for any number of turns and any  *)
(* limits, commands and times.  What a turn's timer, the callbacks on      *)
(* their way and the entry say of each other is the inductive invariant.   *)
(***************************************************************************)
EXTENDS TurnWatchdog, TLAPS

(* A timer is armed for no later than the turn may go on without another    *)
(* line, or a callback is on its way.                                       *)
Watched(w) ==
    phase[w] = "running" /\ ~timedOut[w] =>
        \/ fired[w] > 0
        \/ timer[w] # Off /\ (timer[w] <= now \/ timer[w] <= NextCheck(last[w], deadline[w]))

(* What the watchdog has decided is carried out, and nothing else is taken  *)
(* for it.                                                                  *)
Decided(w) ==
    /\ timedOut[w] => w \in stopping \/ cancelled[w] # "no"
    /\ w \in stopping \/ cancelled[w] = "watchdog" \/ stopped[w].cause # "none" => timedOut[w]

Promised(w) ==
    /\ promised[w] <= deadline[w]
    /\ stopped[w].cause = "cap" => stopped[w].at >= promised[w]
    /\ phase[w] = "new" => /\ promised[w] = 0 /\ ~timedOut[w]
                         /\ timer[w] = Off /\ fired[w] = 0

Reported(w) ==
    /\ told[w] # "nothing" => phase[w] \in {"reported", "stopped", "done"}
    /\ w \in unfinished =>
         /\ cancelled[w] # "no" /\ phase[w] \notin {"new", "running"}
         /\ phase[w] = "seen" => cancelled[w] # "watchdog"
         /\ told[w] # "nothing" =>
              told[w] # "done" /\ (cancelled[w] = "watchdog" => told[w] = "timeout")

Inv ==
    /\ TypeOK
    /\ \A w \in Turn : /\ last[w] <= now /\ start[w] <= now
                       /\ Watched(w) /\ Decided(w) /\ Promised(w) /\ Reported(w)

-----------------------------------------------------------------------------
(* The invariant holds at first.                                            *)
LEMMA InitInv == Init => Inv
<1>. SUFFICES ASSUME Init PROVE Inv
  OBVIOUS
<1>1. TypeOK
  BY WatchdogAssumption DEF Init, TypeOK, Time, Off, NotStopped, Registered
<1>. QED
  BY <1>1, WatchdogAssumption
     DEF Init, Inv, Watched, Decided, Promised, Reported, NotStopped, Time

(* Every step keeps it.                                                     *)
LEMMA StepInv == Inv /\ [Next]_vars => Inv'
<1>. SUFFICES ASSUME Inv, [Next]_vars PROVE Inv'
  OBVIOUS
<1>. USE WatchdogAssumption
     DEF Inv, TypeOK, Watched, Decided, Promised, Reported, Time, Off, Registered
<1>1. CASE Tick
  BY <1>1 DEF Tick, entryVars, callbacks, history
<1>2. CASE CancelCommand
  BY <1>2 DEF CancelCommand, entryVars, callbacks, history, CancelledBy
<1>3. CASE Reset
  BY <1>3 DEF Reset, Adjust, Adjustable, Total, DueAt, Cause, NextCheck, Sooner, callbacks
<1>4. ASSUME NEW n \in Totals, Absolute(n) PROVE Inv'
  BY <1>4 DEF Absolute, Adjust, Adjustable, Total, DueAt, Cause, NextCheck, Sooner, callbacks
<1>5. ASSUME NEW n \in Deltas, Delta(n) PROVE Inv'
  BY <1>5 DEF Delta, Adjust, Adjustable, Total, DueAt, Cause, NextCheck, Sooner, callbacks
<1>6. ASSUME NEW w \in Turn, Begin(w) PROVE Inv'
  BY <1>6 DEF Begin, callbacks, history, NextCheck, Sooner
<1>7. ASSUME NEW w \in Turn, Touch(w) PROVE Inv'
  BY <1>7 DEF Touch, callbacks, history, NextCheck, Sooner
<1>8. ASSUME NEW w \in Turn, TimerFires(w) PROVE Inv'
  BY <1>8 DEF TimerFires, history
<1>9. ASSUME NEW w \in Turn, Check(w) PROVE Inv'
  <2>1. CASE Cause(last[w], deadline[w]) = "none"
    BY <1>9, <2>1 DEF Check, Rearmed, Cause, NextCheck, Sooner
  <2>2. CASE Cause(last[w], deadline[w]) # "none"
    <3>. DEFINE cause == Cause(last[w], deadline[w])
    <3>0. cause \in {"cap", "idle"} /\ (cause = "cap" => now >= deadline[w])
      BY <2>2 DEF Cause
    <3>. HIDE DEF cause
    <3>a. /\ timedOut' = [timedOut EXCEPT ![w] = TRUE]
          /\ stopping' = stopping \cup {w}
          /\ stopped' = [stopped EXCEPT ![w] = [at |-> now, cause |-> cause]]
          /\ fired' = [fired EXCEPT ![w] = @ - 1]
          /\ fired[w] > 0
          /\ UNCHANGED <<timer, now, phase, start, last, deadline, cancelled, unfinished,
                         told, promised, commands>>
      BY <1>9, <2>2 DEF Check, cause
    <3>1. TypeOK'
      BY <1>9, <3>0, <3>a DEF Check
    <3>2. \A x \in Turn : Watched(x)' /\ Decided(x)'
      BY <1>9, <2>2 DEF Check, Cause, NextCheck, Sooner
    <3>3. \A x \in Turn : Promised(x)'
      BY <3>0, <3>a
    <3>4. \A x \in Turn : Reported(x)'
      BY <3>a
    <3>. QED
      BY <1>9, <2>2, <3>1, <3>2, <3>3, <3>4 DEF Check
  <2>. QED
    BY <2>1, <2>2
<1>10. ASSUME NEW w \in Turn, Stop(w) PROVE Inv'
  BY <1>10 DEF Stop, entryVars, history, CancelledBy
<1>11. ASSUME NEW w \in Turn, Return(w) PROVE Inv'
  BY <1>11 DEF Return, entryVars, callbacks
<1>12. ASSUME NEW w \in Turn, See(w) PROVE Inv'
  <2>1. CASE timedOut[w]
    <3>0. /\ told' = [told EXCEPT ![w] = "timeout"]
          /\ phase' = [phase EXCEPT ![w] = "reported"]
          /\ UNCHANGED <<now, start, last, deadline, timer, timedOut, fired, stopping, cancelled,
                         unfinished, promised, stopped, commands>>
      BY <1>12, <2>1 DEF See, entryVars, callbacks
    <3>1. TypeOK'
      BY <1>12, <3>0 DEF See
    <3>2. \A x \in Turn : Watched(x)' /\ Decided(x)' /\ Promised(x)'
      BY <1>12, <2>1 DEF See, entryVars, callbacks
    <3>3. \A x \in Turn : Reported(x)'
      BY <1>12, <2>1 DEF See, entryVars, callbacks
    <3>. QED
      BY <1>12, <3>1, <3>2, <3>3 DEF See, entryVars
  <2>2. CASE ~timedOut[w]
    <3>1. TypeOK'
      BY <1>12, <2>2 DEF See, entryVars, callbacks
    <3>2. \A x \in Turn : Watched(x)' /\ Decided(x)' /\ Promised(x)'
      BY <1>12, <2>2 DEF See, entryVars, callbacks
    <3>3. \A x \in Turn : Reported(x)'
      BY <1>12, <2>2 DEF See, entryVars, callbacks
    <3>. QED
      BY <1>12, <3>1, <3>2, <3>3 DEF See, entryVars
  <2>. QED
    BY <2>1, <2>2
<1>13. ASSUME NEW w \in Turn, Report(w) PROVE Inv'
  BY <1>13 DEF Report, entryVars, callbacks
<1>14. ASSUME NEW w \in Turn, StopTimer(w) PROVE Inv'
  BY <1>14 DEF StopTimer, callbacks, history, CancelledBy
<1>15. ASSUME NEW w \in Turn, FinishTurn(w) PROVE Inv'
  BY <1>15 DEF FinishTurn, entryVars, callbacks, history
<1>16. CASE UNCHANGED vars
  BY <1>16 DEF vars, entryVars, callbacks, history
<1>. QED
  BY <1>1, <1>2, <1>3, <1>4, <1>5, <1>6, <1>7, <1>8, <1>9, <1>10, <1>11,
     <1>12, <1>13, <1>14, <1>15, <1>16 DEF Next

-----------------------------------------------------------------------------
(* Every type is right, and what is registered has its cap at least.        *)
THEOREM TypeCorrect == Spec => []TypeOK
<1>1. Inv => TypeOK
  BY DEF Inv
<1>. QED
  BY InitInv, StepInv, <1>1, PTL DEF Spec

LEMMA Invariance == Spec => []Inv
  BY InitInv, StepInv, PTL DEF Spec

(* A turn is never stopped at its cap before the time that the last         *)
(* !timeout has answered.                                                   *)
THEOREM ExtensionsHold == Spec => []ExtensionHolds
<1>1. Inv => ExtensionHolds
  BY DEF Inv, Promised, ExtensionHolds
<1>. QED
  BY Invariance, <1>1, PTL

(* A turn cut short is never reported as done, nor a timeout as the user's  *)
(* cancellation.                                                            *)
THEOREM StopsAreReported == Spec => []StopIsReported
<1>1. Inv => StopIsReported
  BY DEF Inv, TypeOK, Reported, StopIsReported
<1>. QED
  BY Invariance, <1>1, PTL

(* Time does not pass for a turn that has used up its cap or its idle       *)
(* window.                                                                  *)
THEOREM WatchdogIsPrompt == Spec => StoppedInTime
<1>1. Inv /\ [Next]_vars =>
        [now' # now =>
           \A w \in Turn : phase[w] = "running" /\ cancelled[w] = "no" =>
               now < deadline[w] /\ now < last[w] + Idle]_vars
  <2>. SUFFICES ASSUME Inv, Next, now' # now,
                       NEW w \in Turn, phase[w] = "running", cancelled[w] = "no"
                PROVE  now < deadline[w] /\ now < last[w] + Idle
    OBVIOUS
  <2>1. Tick
    BY DEF Next, CancelCommand, Reset, Absolute, Delta, Adjust, Begin, Touch, TimerFires,
           Check, Stop, Return, See, Report, StopTimer, FinishTurn
  <2>2. timer[w] # Off /\ timer[w] > now /\ timer[w] <= NextCheck(last[w], deadline[w])
    BY <2>1, WatchdogAssumption
       DEF Tick, Inv, TypeOK, Watched, Decided, NextCheck, Sooner, Off, Time
  <2>. QED
    BY <2>2, WatchdogAssumption DEF Inv, TypeOK, NextCheck, Sooner, Off, Time
<1>. QED
  BY Invariance, <1>1, PTL DEF Spec, StoppedInTime
=============================================================================
