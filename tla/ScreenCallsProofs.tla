------------------------- MODULE ScreenCallsProofs -------------------------
(***************************************************************************)
(* Theorems about the calls of screen tools, for any requests, processes,  *)
(* channels, plans and bounds.                                             *)
(***************************************************************************)
EXTENDS ScreenCalls, SequenceTheorems, TLAPS

-----------------------------------------------------------------------------
(* The lease.                                                               *)

(* Who sends input has the lease, unless it failed him or he outlived it.   *)
Guarded(s) ==
    pc[s] = "input" /\ s \notin outlived \cup unguarded =>
        lease.owner = s /\ lease.fresh

(* A notice shown before the user was waited for does not count.            *)
Warned(s) ==
    s \in yielded => /\ pc[s] \in {"renew", "input"} => s \in noticed
                     /\ pc[s] = "notice" => s \notin recent

LeaseInv ==
    /\ Screen!TypeOK
    /\ lease.fresh => lease.owner \in Process
    /\ \A s \in Process : Guarded(s) /\ Warned(s)

(* The steps of a call, with who may take them.                             *)
LEMMA ScreenSteps ==
  ASSUME [Next]_vars
  PROVE  \/ UNCHANGED screenVars
         \/ \E r \in Request : \E steps \in PlansOf[r] :
                Screen!Receive(ProcessOf[r], steps, Gated(steps))
         \/ \E r \in Request : Screen!Proceed(ProcessOf[r]) \/ Screen!Refuse(ProcessOf[r])
         \/ \E s \in Process : Screen!ProcessStep(s) \/ Screen!Crash(s)
         \/ Screen!Environment
<1>1. CASE UNCHANGED vars
  BY <1>1 DEF vars
<1>2. CASE \E r \in Request : \E steps \in PlansOf[r] : Begin(r, steps)
  BY <1>2 DEF Begin
<1>3. CASE \E r \in Request : Heard(r)
  BY <1>3 DEF Heard
<1>4. CASE \E r \in Request : Unheard(r)
  BY <1>4 DEF Unheard
<1>5. CASE ApprovalStep
  BY <1>5 DEF ApprovalStep
<1>6. CASE ScreenStep
  BY <1>6 DEF ScreenStep
<1>7. CASE \E s \in Process : Crash(s)
  BY <1>7 DEF Crash
<1>. QED
  BY <1>1, <1>2, <1>3, <1>4, <1>5, <1>6, <1>7 DEF Next

(* The invariant of the lease holds at first, and every step keeps it.      *)
LEMMA LeaseInvariance == Spec => []LeaseInv
<1>1. Init => LeaseInv
  BY CallsAssumption DEF Init, Screen!Init, LeaseInv, Screen!TypeOK, Guarded, Warned
<1>2. LeaseInv /\ [Next]_vars => LeaseInv'
  <2>. SUFFICES ASSUME LeaseInv, [Next]_vars PROVE LeaseInv'
    OBVIOUS
  <2>0. Screen!None \notin Process
    BY CallsAssumption DEF Screen!None, NoCall
  <2>. USE DEF LeaseInv, Screen!TypeOK, Guarded, Warned
  <2>1. CASE UNCHANGED screenVars
    BY <2>1 DEF screenVars
  <2>2. ASSUME NEW r \in Request, NEW steps \in PlansOf[r],
               Screen!Receive(ProcessOf[r], steps, Gated(steps))
        PROVE  LeaseInv'
    <3>1. ProcessOf[r] \in Process /\ steps \in Seq(Step) /\ Len(steps) <= MaxSteps
      BY CallsAssumption
    <3>. QED
      BY <2>2, <3>1 DEF Screen!Receive
  <2>3. ASSUME NEW r \in Request, Screen!Proceed(ProcessOf[r]) PROVE LeaseInv'
    BY <2>3, CallsAssumption DEF Screen!Proceed
  <2>4. ASSUME NEW r \in Request, Screen!Refuse(ProcessOf[r]) PROVE LeaseInv'
    BY <2>4, CallsAssumption DEF Screen!Refuse, Screen!Abandon
  <2>5. ASSUME NEW s \in Process, Screen!Gate(s) PROVE LeaseInv'
    <3>. USE <2>5 DEF Screen!Gate
    <3>1. CASE Screen!CanTake(s) /\ lease' = [owner |-> s, fresh |-> TRUE]
               /\ pc' = [pc EXCEPT ![s] = "yield"] /\ unguarded' = unguarded \ {s}
               /\ UNCHANGED <<plan, yielded, noticed, upsets>>
      <4>1. Screen!TypeOK'
        BY <3>1
      <4>2. \A t \in Process : Guarded(t)'
        BY <2>0, <3>1 DEF Screen!CanTake
      <4>3. \A t \in Process : Warned(t)'
        BY <3>1
      <4>. QED
        BY <3>1, <4>1, <4>2, <4>3
    <3>2. CASE /\ upsets < MaxUpsets /\ upsets' = upsets + 1
               /\ pc' = [pc EXCEPT ![s] = "yield"] /\ unguarded' = unguarded \cup {s}
               /\ UNCHANGED <<lease, plan, yielded, noticed>>
      <4>1. Screen!TypeOK'
        BY <3>2, CallsAssumption
      <4>2. \A t \in Process : Guarded(t)' /\ Warned(t)'
        BY <3>2
      <4>. QED
        BY <3>2, <4>1, <4>2
    <3>3. CASE Screen!Abandon(s) /\ UNCHANGED <<lease, unguarded, upsets>>
      <4>1. Screen!TypeOK'
        BY <3>3, CallsAssumption DEF Screen!Abandon
      <4>2. \A t \in Process : Guarded(t)' /\ Warned(t)'
        BY <3>3 DEF Screen!Abandon
      <4>. QED
        BY <3>3, <4>1, <4>2
    <3>. QED
      BY <3>1, <3>2, <3>3 DEF Screen!Acquire
  <2>6. ASSUME NEW s \in Process, Screen!YieldStarts(s) PROVE LeaseInv'
    BY <2>6 DEF Screen!YieldStarts
  <2>7. ASSUME NEW s \in Process, Screen!YieldFails(s) PROVE LeaseInv'
    BY <2>7, CallsAssumption DEF Screen!YieldFails, Screen!Abandon
  <2>8. ASSUME NEW s \in Process, Screen!YieldEnds(s) PROVE LeaseInv'
    BY <2>8 DEF Screen!YieldEnds
  <2>9. ASSUME NEW s \in Process, Screen!QuietEnds(s) PROVE LeaseInv'
    BY <2>9 DEF Screen!QuietEnds, Screen!NoticeAnew
  <2>10. ASSUME NEW s \in Process, Screen!Notice(s) PROVE LeaseInv'
    BY <2>10 DEF Screen!Notice
  <2>11. ASSUME NEW s \in Process, Screen!Renew(s) PROVE LeaseInv'
    <3>. USE <2>11 DEF Screen!Renew
    <3>1. CASE Screen!CanTake(s) /\ lease' = [owner |-> s, fresh |-> TRUE]
               /\ pc' = [pc EXCEPT ![s] = "input"] /\ unguarded' = unguarded \ {s}
               /\ UNCHANGED <<plan, yielded, noticed, upsets>>
      <4>1. Screen!TypeOK'
        BY <3>1
      <4>2. \A t \in Process : Guarded(t)'
        BY <2>0, <3>1 DEF Screen!CanTake
      <4>3. \A t \in Process : Warned(t)'
        BY <3>1
      <4>. QED
        BY <3>1, <4>1, <4>2, <4>3
    <3>2. CASE /\ upsets < MaxUpsets /\ upsets' = upsets + 1
               /\ pc' = [pc EXCEPT ![s] = "input"] /\ unguarded' = unguarded \cup {s}
               /\ UNCHANGED <<lease, plan, yielded, noticed>>
      <4>1. Screen!TypeOK'
        BY <3>2, CallsAssumption
      <4>2. \A t \in Process : Guarded(t)' /\ Warned(t)'
        BY <3>2
      <4>. QED
        BY <3>2, <4>1, <4>2
    <3>3. CASE Screen!Abandon(s) /\ UNCHANGED <<lease, unguarded, upsets>>
      <4>1. Screen!TypeOK'
        BY <3>3, CallsAssumption DEF Screen!Abandon
      <4>2. \A t \in Process : Guarded(t)' /\ Warned(t)'
        BY <3>3 DEF Screen!Abandon
      <4>. QED
        BY <3>3, <4>1, <4>2
    <3>. QED
      BY <3>1, <3>2, <3>3 DEF Screen!Acquire
  <2>12. ASSUME NEW s \in Process, Screen!InputEnds(s) PROVE LeaseInv'
    <3>1. plan[s] \in Seq(Step) /\ plan[s] # <<>> /\ Len(plan[s]) <= MaxSteps
      BY <2>12 DEF Screen!InputEnds
    <3>2. /\ Tail(plan[s]) \in Seq(Step) /\ Len(Tail(plan[s])) <= MaxSteps
          /\ Tail(plan[s]) = <<>> <=> Len(plan[s]) = 1
      <4>. DEFINE q == plan[s]
      <4>1. q \in Seq(Step) /\ q # <<>> /\ Len(q) <= MaxSteps
        BY <3>1
      <4>. HIDE DEF q
      <4>2. Tail(q) \in Seq(Step) /\ Len(Tail(q)) = Len(q) - 1 /\ Len(q) \in Nat
        BY <4>1
      <4>3. Tail(q) = <<>> <=> Len(Tail(q)) = 0
        BY <4>2, EmptySeq
      <4>4. Tail(q) \in Seq(Step) /\ Len(Tail(q)) <= MaxSteps
           /\ (Tail(q) = <<>> <=> Len(q) = 1)
        BY <4>1, <4>2, <4>3, CallsAssumption
      <4>. QED
        BY <4>4 DEF q
    <3>3. plan' \in [Process -> Seq(Step)] /\ plan'[s] = Tail(plan[s])
          /\ \A t \in Process : t # s => plan'[t] = plan[t]
      BY <2>12, <3>2 DEF Screen!InputEnds
    <3>4. Screen!TypeOK'
      BY <2>12, <3>2, <3>3 DEF Screen!InputEnds
    <3>. QED
      BY <2>12, <3>4 DEF Screen!InputEnds
  <2>13. ASSUME NEW s \in Process, Screen!Crash(s) PROVE LeaseInv'
    BY <2>13, CallsAssumption DEF Screen!Crash
  <2>14. CASE Screen!LeaseAges
    BY <2>14 DEF Screen!LeaseAges, Screen!own
  <2>15. CASE Screen!UserMoves
    BY <2>15 DEF Screen!UserMoves
  <2>16. CASE Screen!UserPauses
    BY <2>16 DEF Screen!UserPauses, Screen!own
  <2>. QED
    BY <2>1, <2>2, <2>3, <2>4, <2>5, <2>6, <2>7, <2>8, <2>9, <2>10, <2>11, <2>12, <2>13,
       <2>14, <2>15, <2>16, ScreenSteps DEF Screen!ProcessStep, Screen!Environment
<1>. QED
  BY <1>1, <1>2, PTL DEF Spec

(* At most one process sends input, but for failures of the lease and       *)
(* actions that outlive it: the second look at the lease, just before the   *)
(* input, is what counts.                                                   *)
THEOREM OneAtTheControls == Spec => []OneDriver
<1>1. LeaseInv => OneDriver
  BY DEF LeaseInv, Guarded, OneDriver, Screen!OneDriver
<1>. QED
  BY LeaseInvariance, <1>1, PTL

(* Nobody who had to wait for the user goes on without a notice after it.   *)
THEOREM UserIsWarned == Spec => []WarnedAfterYield
<1>1. LeaseInv => WarnedAfterYield
  BY DEF LeaseInv, Warned, WarnedAfterYield, Screen!WarnedAfterYield
<1>. QED
  BY LeaseInvariance, <1>1, PTL

-----------------------------------------------------------------------------
(* The approval.                                                            *)

(* The only answer that the channel ever holds is the first one, and the    *)
(* verdict is that answer or none.                                          *)
Verdict(r) ==
    /\ answer[r] = first[r]
    /\ verdict[r] = "ok" => answer[r] = "ok"
    /\ host[r] \notin {"none", "replied"} => caller[r] \in {"asking", "refused"}

(* What is shown of a request can still be answered.                        *)
Shown(r) ==
    \A c \in Approval!Channel : prompt[r][c] = "shown" =>
        /\ host[r] \in {"sending", "waiting", "decided", "withdrawn"}
        /\ c \in Client => host[r] # "withdrawn"

Requests == \A r \in Request : Verdict(r) /\ Shown(r)

ApprovalActs ==
    \/ \E r \in Request : \/ Approval!Ask(r) \/ Approval!Ungated(r)
                          \/ Approval!Reply(r) \/ Approval!Unheard(r)
                          \/ Approval!HostStep(r)
    \/ Approval!Environment
    \/ UNCHANGED approvalVars

(* Every step of a request keeps the types, ...                             *)
LEMMA RequestTypes ==
  ASSUME Approval!TypeOK, ApprovalActs
  PROVE  Approval!TypeOK'
<1>1. CASE UNCHANGED approvalVars
  BY <1>1 DEF approvalVars, Approval!TypeOK
<1>2. ASSUME NEW r \in Request, Approval!Ask(r) PROVE Approval!TypeOK'
  BY <1>2, CallsAssumption DEF Approval!Ask,
     Approval!TypeOK, Approval!Channel, Approval!history
<1>3. ASSUME NEW r \in Request, Approval!Ungated(r) PROVE Approval!TypeOK'
  BY <1>3, CallsAssumption DEF Approval!Ungated, Approval!hostVars,
     Approval!TypeOK, Approval!Channel, Approval!history
<1>4. ASSUME NEW r \in Request, Approval!Reply(r) PROVE Approval!TypeOK'
  BY <1>4, CallsAssumption DEF Approval!Reply,
     Approval!TypeOK, Approval!Channel, Approval!history
<1>5. ASSUME NEW r \in Request, Approval!Unheard(r) PROVE Approval!TypeOK'
  BY <1>5, CallsAssumption DEF Approval!Unheard, Approval!hostVars,
     Approval!TypeOK, Approval!Channel, Approval!history
<1>6. ASSUME NEW r \in Request, NEW c \in Telegram, Approval!SendTelegram(r, c)
      PROVE  Approval!TypeOK'
  <2>1. PICK word \in {"shown", "failed"} : prompt' = [prompt EXCEPT ![r][c] = word]
    BY <1>6 DEF Approval!SendTelegram
  <2>2. c \in Approval!Channel
    BY DEF Approval!Channel
  <2>3. prompt' \in [Request -> [Approval!Channel ->
                           {"none", "failed", "shown", "gone", "left"}]]
    BY <2>1, <2>2 DEF Approval!TypeOK
  <2>. QED
    BY <1>6, <2>3 DEF Approval!SendTelegram, Approval!TypeOK, Approval!history
<1>7. ASSUME NEW r \in Request, NEW c \in Telegram, Approval!Edit(r, c)
      PROVE  Approval!TypeOK'
  <2>1. PICK word \in {"gone", "left"} : prompt' = [prompt EXCEPT ![r][c] = word]
    BY <1>7 DEF Approval!Edit
  <2>2. c \in Approval!Channel
    BY DEF Approval!Channel
  <2>3. prompt' \in [Request -> [Approval!Channel ->
                           {"none", "failed", "shown", "gone", "left"}]]
    BY <2>1, <2>2 DEF Approval!TypeOK
  <2>. QED
    BY <1>7, <2>3 DEF Approval!Edit, Approval!TypeOK, Approval!history
<1>8. ASSUME NEW r \in Request, Approval!Broadcast(r) PROVE Approval!TypeOK'
  <2>0. /\ host[r] = "sending" /\ UNCHANGED <<caller, answer, first>>
        /\ \/ host' = [host EXCEPT ![r] = "waiting"] /\ UNCHANGED verdict
           \/ /\ host' = [host EXCEPT ![r] = "decided"]
              /\ verdict' = [verdict EXCEPT ![r] = "unasked"]
    BY <1>8 DEF Approval!Broadcast, Approval!history
  <2>1. prompt' \in [Request -> [Approval!Channel ->
                           {"none", "failed", "shown", "gone", "left"}]]
    BY <1>8 DEF Approval!Broadcast, Approval!TypeOK
  <2>2. host' \in [Request -> {"none", "sending", "waiting", "decided", "withdrawn",
                                "forgotten", "replied"}]
    BY <2>0 DEF Approval!TypeOK
  <2>3. pending' = {q \in Request :
                      host'[q] \in {"sending", "waiting", "decided", "withdrawn"}}
    BY <1>8 DEF Approval!Broadcast, Approval!TypeOK
  <2>4. verdict' \in [Request -> {"none", "ok", "no", "timeout", "unasked"}]
    BY <1>8 DEF Approval!Broadcast, Approval!TypeOK
  <2>. QED
    BY <1>8, <2>1, <2>2, <2>3, <2>4 DEF Approval!Broadcast, Approval!TypeOK, Approval!history
<1>9. ASSUME NEW r \in Request, Approval!Decide(r) PROVE Approval!TypeOK'
  <2>1. verdict' \in [Request -> {"none", "ok", "no", "timeout", "unasked"}]
    BY <1>9, CallsAssumption DEF Approval!Decide, Approval!Verdicts, Approval!TypeOK,
       Approval!Channel
  <2>. QED
    BY <1>9, <2>1 DEF Approval!Decide, Approval!Verdicts,
       Approval!TypeOK, Approval!Channel, Approval!history
<1>10. ASSUME NEW r \in Request, Approval!Withdraw(r) PROVE Approval!TypeOK'
  BY <1>10, CallsAssumption DEF Approval!Withdraw,
     Approval!TypeOK, Approval!Channel, Approval!history
<1>11. ASSUME NEW r \in Request, Approval!Forget(r) PROVE Approval!TypeOK'
  BY <1>11, CallsAssumption DEF Approval!Forget, Approval!Edited, Approval!Forgotten,
     Approval!TypeOK, Approval!Channel, Approval!history
<1>12. ASSUME NEW r \in Request, NEW word \in {"ok", "no"}, Approval!AnswerByID(r, word)
      PROVE  Approval!TypeOK'
  <2>1. answers' \in 0..MaxAnswers
    BY <1>12, CallsAssumption DEF Approval!AnswerByID, Approval!Resolve, Approval!Kept,
       Approval!TypeOK, Approval!Channel
  <2>2. answer' \in [Request -> {"none", "ok", "no"}]
       /\ first' \in [Request -> {"none", "ok", "no"}]
    BY <1>12, CallsAssumption DEF Approval!AnswerByID, Approval!Resolve, Approval!Kept,
       Approval!TypeOK, Approval!Channel
  <2>. QED
    BY <1>12, <2>1, <2>2 DEF Approval!AnswerByID, Approval!Resolve, Approval!Kept,
       Approval!TypeOK, Approval!Channel, Approval!history
<1>13. ASSUME NEW r \in Request, NEW word \in {"ok", "no"}, Approval!AnswerBare(r, word)
      PROVE  Approval!TypeOK'
  <2>1. answers' \in 0..MaxAnswers
    BY <1>13, CallsAssumption DEF Approval!AnswerBare, Approval!Resolve, Approval!Kept,
       Approval!TypeOK, Approval!Channel
  <2>2. answer' \in [Request -> {"none", "ok", "no"}]
       /\ first' \in [Request -> {"none", "ok", "no"}]
    BY <1>13, CallsAssumption DEF Approval!AnswerBare, Approval!Resolve, Approval!Kept,
       Approval!TypeOK, Approval!Channel
  <2>. QED
    BY <1>13, <2>1, <2>2 DEF Approval!AnswerBare, Approval!Resolve, Approval!Kept,
       Approval!TypeOK, Approval!Channel, Approval!history
<1>14. ASSUME NEW c \in Client, Approval!Reconnect(c) PROVE Approval!TypeOK'
  <2>1. online' \subseteq Client
    BY <1>14, CallsAssumption DEF Approval!Reconnect, Approval!Fault, Approval!TypeOK,
       Approval!Channel
  <2>2. faults' \in 0..MaxFaults
    BY <1>14, CallsAssumption DEF Approval!Reconnect, Approval!Fault, Approval!TypeOK,
       Approval!Channel
  <2>. QED
    BY <1>14, <2>1, <2>2 DEF Approval!Reconnect, Approval!Fault,
       Approval!TypeOK, Approval!Channel, Approval!history
<1>15. CASE Approval!Restart
  BY <1>15, CallsAssumption DEF Approval!Restart, Approval!Fault, Approval!Asked,
     Approval!TypeOK, Approval!Channel, Approval!history
<1>. QED
  BY <1>1, <1>2, <1>3, <1>4, <1>5, <1>6, <1>7, <1>8, <1>9, <1>10, <1>11, <1>12, <1>13,
     <1>14, <1>15
     DEF ApprovalActs, Approval!HostStep, Approval!Environment, Approval!UserStep

(* ... what is known of the request, ...                                    *)
LEMMA RequestFacts ==
  ASSUME Approval!TypeOK, Requests, ApprovalActs
  PROVE  Requests'
<1>1. CASE UNCHANGED approvalVars
  BY <1>1 DEF approvalVars, Requests, Verdict, Shown
<1>2. ASSUME NEW r \in Request, Approval!Ask(r) PROVE Requests'
  BY <1>2, CallsAssumption DEF Approval!Ask,
     Requests, Verdict, Shown, Approval!TypeOK, Approval!Channel, Approval!history
<1>3. ASSUME NEW r \in Request, Approval!Ungated(r) PROVE Requests'
  BY <1>3, CallsAssumption DEF Approval!Ungated, Approval!hostVars,
     Requests, Verdict, Shown, Approval!TypeOK, Approval!Channel, Approval!history
<1>4. ASSUME NEW r \in Request, Approval!Reply(r) PROVE Requests'
  BY <1>4, CallsAssumption DEF Approval!Reply,
     Requests, Verdict, Shown, Approval!TypeOK, Approval!Channel, Approval!history
<1>5. ASSUME NEW r \in Request, Approval!Unheard(r) PROVE Requests'
  BY <1>5, CallsAssumption DEF Approval!Unheard, Approval!hostVars,
     Requests, Verdict, Shown, Approval!TypeOK, Approval!Channel, Approval!history
<1>6. ASSUME NEW r \in Request, NEW c \in Telegram, Approval!SendTelegram(r, c)
      PROVE  Requests'
  BY <1>6, CallsAssumption DEF Approval!SendTelegram,
     Requests, Verdict, Shown, Approval!TypeOK, Approval!Channel, Approval!history
<1>7. ASSUME NEW r \in Request, NEW c \in Telegram, Approval!Edit(r, c) PROVE Requests'
  BY <1>7, CallsAssumption DEF Approval!Edit,
     Requests, Verdict, Shown, Approval!TypeOK, Approval!Channel, Approval!history
<1>8. ASSUME NEW r \in Request, Approval!Broadcast(r) PROVE Requests'
  <2>0. /\ host[r] = "sending" /\ UNCHANGED <<caller, answer, first>>
        /\ \/ host' = [host EXCEPT ![r] = "waiting"] /\ UNCHANGED verdict
           \/ /\ host' = [host EXCEPT ![r] = "decided"]
              /\ verdict' = [verdict EXCEPT ![r] = "unasked"]
    BY <1>8 DEF Approval!Broadcast, Approval!history
  <2>1. \A q \in Request : Verdict(q)'
    BY <2>0 DEF Requests, Verdict, Approval!TypeOK
  <2>2. \A q \in Request \ {r} : Shown(q)'
    BY <1>8 DEF Approval!Broadcast, Requests, Shown, Approval!TypeOK
  <2>3. host'[r] \in {"waiting", "decided"}
    BY <1>8 DEF Approval!Broadcast, Approval!TypeOK
  <2>4. Shown(r)'
    BY <2>3 DEF Shown
  <2>. QED
    BY <2>1, <2>2, <2>4 DEF Requests
<1>9. ASSUME NEW r \in Request, Approval!Decide(r) PROVE Requests'
  BY <1>9, CallsAssumption DEF Approval!Decide, Approval!Verdicts,
     Requests, Verdict, Shown, Approval!TypeOK, Approval!Channel, Approval!history
<1>10. ASSUME NEW r \in Request, Approval!Withdraw(r) PROVE Requests'
  BY <1>10, CallsAssumption DEF Approval!Withdraw,
     Requests, Verdict, Shown, Approval!TypeOK, Approval!Channel, Approval!history
<1>11. ASSUME NEW r \in Request, Approval!Forget(r) PROVE Requests'
  BY <1>11, CallsAssumption DEF Approval!Forget, Approval!Edited, Approval!Forgotten,
     Requests, Verdict, Shown, Approval!TypeOK, Approval!Channel, Approval!history
<1>12. ASSUME NEW r \in Request, NEW word \in {"ok", "no"}, Approval!AnswerByID(r, word)
      PROVE  Requests'
  BY <1>12, CallsAssumption DEF Approval!AnswerByID, Approval!Resolve, Approval!Kept,
     Requests, Verdict, Shown, Approval!TypeOK, Approval!Channel, Approval!history
<1>13. ASSUME NEW r \in Request, NEW word \in {"ok", "no"}, Approval!AnswerBare(r, word)
      PROVE  Requests'
  BY <1>13, CallsAssumption DEF Approval!AnswerBare, Approval!Resolve, Approval!Kept,
     Requests, Verdict, Shown, Approval!TypeOK, Approval!Channel, Approval!history
<1>14. ASSUME NEW c \in Client, Approval!Reconnect(c) PROVE Requests'
  BY <1>14, CallsAssumption DEF Approval!Reconnect, Approval!Fault,
     Requests, Verdict, Shown, Approval!TypeOK, Approval!Channel, Approval!history
<1>15. CASE Approval!Restart
  BY <1>15, CallsAssumption DEF Approval!Restart, Approval!Fault, Approval!Asked,
     Requests, Verdict, Shown, Approval!TypeOK, Approval!Channel, Approval!history
<1>. QED
  BY <1>1, <1>2, <1>3, <1>4, <1>5, <1>6, <1>7, <1>8, <1>9, <1>10, <1>11, <1>12, <1>13,
     <1>14, <1>15
     DEF ApprovalActs, Approval!HostStep, Approval!Environment, Approval!UserStep

(* ... and an approval.                                                     *)
LEMMA ApprovedForGood ==
  ASSUME Approval!TypeOK, ApprovalActs, NEW q \in Request, first[q] = "ok"
  PROVE  first'[q] = "ok"
BY DEF ApprovalActs, Approval!HostStep, Approval!Environment, Approval!UserStep, Approval!Ask,
       Approval!Ungated, Approval!Reply, Approval!Unheard, Approval!SendTelegram,
       Approval!Edit,
       Approval!Broadcast, Approval!Decide, Approval!Withdraw, Approval!Forget,
       Approval!AnswerByID, Approval!AnswerBare, Approval!Resolve, Approval!Reconnect,
       Approval!Restart, Approval!TypeOK, Approval!history, Approval!hostVars, approvalVars

-----------------------------------------------------------------------------
(* The calls.                                                               *)

(* A process at work knows whose call it works on; one that is held waits   *)
(* for a caller that asks, and one with risky actions to do was approved.   *)
AtWork(s) ==
    /\ call[s] \in Request => ProcessOf[call[s]] = s
    /\ pc[s] \notin {"idle", "gone"} => call[s] \in Request
    /\ pc[s] = "held" => caller[call[s]] = "asking"
    /\ pc[s] \notin {"idle", "gone", "held"} /\ Gated(plan[s]) => first[call[s]] = "ok"

CallInv ==
    /\ Approval!TypeOK /\ Requests
    /\ call \in [Process -> Request \cup {NoCall}]
    /\ \A s \in Process : AtWork(s)

(* What a step does to the requests.                                        *)
LEMMA CallActs ==
  ASSUME CallInv, [Next]_vars
  PROVE  ApprovalActs
<1>1. CASE UNCHANGED vars
  BY <1>1 DEF vars, ApprovalActs
<1>2. CASE \E r \in Request : \E steps \in PlansOf[r] : Begin(r, steps)
  BY <1>2 DEF Begin, ApprovalActs
<1>3. CASE \E r \in Request : Heard(r)
  BY <1>3 DEF Heard, ApprovalActs
<1>4. CASE \E r \in Request : Unheard(r)
  BY <1>4 DEF Unheard, ApprovalActs
<1>5. CASE ApprovalStep
  BY <1>5 DEF ApprovalStep, ApprovalActs
<1>6. CASE ScreenStep
  BY <1>6 DEF ScreenStep, ApprovalActs
<1>7. CASE \E s \in Process : Crash(s)
  BY <1>7 DEF Crash, ApprovalActs, Screen!Crash, CallInv, AtWork
<1>. QED
  BY <1>1, <1>2, <1>3, <1>4, <1>5, <1>6, <1>7 DEF Next

(* What the host, the users and the faults do is not felt by the callers.   *)
LEMMA HostKeepsCallers ==
  ASSUME Approval!Environment \/ \E r \in Request : Approval!HostStep(r)
  PROVE  UNCHANGED caller
BY DEF Approval!HostStep, Approval!Environment, Approval!UserStep, Approval!SendTelegram,
       Approval!Edit, Approval!Broadcast, Approval!Decide, Approval!Withdraw, Approval!Forget,
       Approval!AnswerByID, Approval!AnswerBare, Approval!Resolve, Approval!Reconnect,
       Approval!Restart

(* A process goes on with its call, or comes to its end.                    *)
LEMMA ProcessGoesOn ==
  ASSUME Screen!TypeOK, NEW s \in Process, Screen!ProcessStep(s)
  PROVE  /\ pc[s] \notin {"idle", "gone", "held"} /\ pc'[s] \notin {"gone", "held"}
         /\ plan'[s] \in {plan[s], <<>>, Tail(plan[s])}
         /\ \A t \in Process \ {s} : pc'[t] = pc[t] /\ plan'[t] = plan[t]
BY DEF Screen!TypeOK, Screen!ProcessStep, Screen!Gate, Screen!Acquire, Screen!Abandon,
       Screen!YieldStarts, Screen!YieldFails, Screen!YieldEnds, Screen!QuietEnds,
       Screen!Notice, Screen!Renew, Screen!InputEnds

(* What is left of a call has no risky action that the call did not have.   *)
LEMMA LessIsNotGated ==
  ASSUME NEW steps \in Seq(Step)
  PROVE  /\ ~Gated(<<>>)
         /\ steps # <<>> /\ Gated(Tail(steps)) => Gated(steps)
<1>1. ~Gated(<<>>)
  BY DEF Gated
<1>2. ASSUME steps # <<>>, Gated(Tail(steps)) PROVE Gated(steps)
  <2>1. /\ Len(Tail(steps)) = Len(steps) - 1 /\ Len(steps) \in Nat
        /\ \A i \in 1..Len(Tail(steps)) : Tail(steps)[i] = steps[i + 1]
    BY <1>2, HeadTailProperties
  <2>2. PICK i \in 1..Len(Tail(steps)) : Tail(steps)[i] \in Risky
    BY <1>2 DEF Gated
  <2>3. i + 1 \in 1..Len(steps) /\ steps[i + 1] \in Risky
    BY <2>1, <2>2
  <2>. QED
    BY <2>3 DEF Gated
<1>. QED
  BY <1>1, <1>2

(* Every step keeps the calls as they should be.                            *)
LEMMA CallStep ==
  ASSUME LeaseInv, CallInv, [Next]_vars
  PROVE  CallInv'
<1>0. Approval!TypeOK' /\ Requests' /\ \A q \in Request : first[q] = "ok" => first'[q] = "ok"
  BY CallActs, RequestTypes, RequestFacts, ApprovedForGood DEF CallInv
<1>. USE DEF CallInv
<1>1. CASE UNCHANGED vars
  BY <1>0, <1>1 DEF vars, approvalVars, screenVars, AtWork
<1>2. ASSUME NEW r \in Request, NEW steps \in PlansOf[r], Begin(r, steps)
      PROVE  call' \in [Process -> Request \cup {NoCall}] /\ \A t \in Process : AtWork(t)'
  <2>. DEFINE s == ProcessOf[r]
  <2>1. s \in Process
    BY CallsAssumption
  <2>2. /\ pc' = [pc EXCEPT ![s] = IF Gated(steps) THEN "held" ELSE "gate"]
        /\ plan' = [plan EXCEPT ![s] = steps] /\ call' = [call EXCEPT ![s] = r]
    BY <1>2 DEF Begin, Screen!Receive
  <2>3. /\ caller[r] = "idle"
        /\ caller' = [caller EXCEPT ![r] = IF Gated(steps) THEN "asking" ELSE "running"]
    BY <1>2 DEF Begin, Approval!Ask, Approval!Ungated
  <2>4. AtWork(s)'
    BY <2>1, <2>2, <2>3 DEF AtWork, LeaseInv, Screen!TypeOK, Approval!TypeOK
  <2>5. ASSUME NEW t \in Process \ {s} PROVE AtWork(t)'
    BY <1>0, <2>1, <2>2, <2>3 DEF AtWork, LeaseInv, Screen!TypeOK, Approval!TypeOK
  <2>. QED
    BY <2>1, <2>2, <2>4, <2>5
<1>3. ASSUME NEW r \in Request, Heard(r) PROVE \A t \in Process : AtWork(t)'
  <2>. DEFINE s == ProcessOf[r]
  <2>1. s \in Process
    BY CallsAssumption
  <2>2. /\ host[r] = "forgotten" /\ UNCHANGED <<first, call>>
        /\ caller' = [caller EXCEPT ![r] =
              IF @ # "asking" THEN @ ELSE IF verdict[r] = "ok" THEN "running" ELSE "refused"]
    BY <1>3 DEF Heard, Approval!Reply, Approval!history
  <2>3. CASE call[s] = r /\ caller'[r] = "running" /\ Screen!Proceed(s)
    <3>1. first[r] = "ok"
      BY <2>1, <2>2, <2>3 DEF AtWork, Requests, Verdict, Approval!TypeOK, Screen!Proceed
    <3>. QED
      BY <2>1, <2>2, <2>3, <3>1
         DEF AtWork, LeaseInv, Screen!TypeOK, Approval!TypeOK, Screen!Proceed
  <2>4. CASE call[s] = r /\ Screen!Refuse(s)
    BY <2>1, <2>2, <2>4, LessIsNotGated
       DEF AtWork, LeaseInv, Screen!TypeOK, Approval!TypeOK, Screen!Refuse, Screen!Abandon
  <2>5. CASE /\ UNCHANGED screenVars
             /\ ~(call[s] = r /\ caller'[r] = "running")
             /\ ~(call[s] = r /\ pc[s] = "held" /\ caller'[r] = "refused")
    BY <2>1, <2>2, <2>5 DEF AtWork, Approval!TypeOK, screenVars
  <2>. QED
    BY <1>3, <2>3, <2>4, <2>5 DEF Heard
<1>4. ASSUME NEW r \in Request, Unheard(r) PROVE \A t \in Process : AtWork(t)'
  BY <1>4, CallsAssumption
     DEF Unheard, Approval!Unheard, Approval!history, AtWork, LeaseInv, Screen!TypeOK,
         Approval!TypeOK, Screen!Refuse, Screen!Abandon
<1>5. CASE ApprovalStep
  <2>1. UNCHANGED <<caller, pc, plan, call>>
    BY <1>5, HostKeepsCallers DEF ApprovalStep, screenVars
  <2>. QED
    BY <1>0, <2>1 DEF AtWork
<1>6. CASE ScreenStep
  <2>0. UNCHANGED <<caller, first, call>>
    BY <1>6 DEF ScreenStep, approvalVars
  <2>1. CASE Screen!Environment
    <3>1. UNCHANGED <<pc, plan>>
      BY <2>1 DEF Screen!Environment, Screen!LeaseAges, Screen!UserMoves, Screen!UserPauses,
                  Screen!own
    <3>2. UNCHANGED <<caller, pc, plan, call>>
      BY <2>0, <3>1
    <3>. QED
      BY <1>0, <3>2 DEF AtWork
  <2>2. ASSUME NEW s \in Process, Screen!ProcessStep(s) PROVE \A t \in Process : AtWork(t)'
    <3>1. AtWork(s)'
      <4>1. plan[s] \in Seq(Step) /\ plan[s] # <<>>
        BY <2>2, ProcessGoesOn DEF LeaseInv, Screen!TypeOK
      <4>2. Gated(plan'[s]) => Gated(plan[s])
        BY <2>2, <4>1, ProcessGoesOn, LessIsNotGated DEF LeaseInv
      <4>. QED
        BY <2>0, <2>2, <4>2, ProcessGoesOn DEF AtWork, LeaseInv
    <3>2. \A t \in Process \ {s} : AtWork(t)'
      BY <2>0, <2>2, ProcessGoesOn DEF AtWork, LeaseInv
    <3>. QED
      BY <3>1, <3>2
  <2>. QED
    BY <1>0, <1>6, <2>0, <2>1, <2>2 DEF ScreenStep
<1>7. ASSUME NEW s \in Process, Crash(s) PROVE \A t \in Process : AtWork(t)'
  <2>1. /\ pc' = [pc EXCEPT ![s] = "gone"] /\ plan' = [plan EXCEPT ![s] = <<>>]
        /\ UNCHANGED call /\ first' = first
    BY <1>7 DEF Crash, Screen!Crash, Approval!Unheard, Approval!history, approvalVars
  <2>2. \A q \in Request : q # call[s] \/ pc[s] # "held" => caller'[q] = caller[q]
    BY <1>7 DEF Crash, Approval!Unheard, approvalVars, Approval!TypeOK
  <2>3. AtWork(s)'
    BY <2>1 DEF AtWork, LeaseInv, Screen!TypeOK
  <2>4. ASSUME NEW t \in Process \ {s} PROVE AtWork(t)'
    <3>1. pc'[t] = pc[t] /\ plan'[t] = plan[t] /\ call'[t] = call[t] /\ first' = first
      BY <2>1 DEF LeaseInv, Screen!TypeOK
    <3>2. ASSUME pc[t] = "held", pc[s] = "held" PROVE call[t] # call[s]
      BY <3>2 DEF AtWork
    <3>3. pc[t] = "held" => caller'[call[t]] = caller[call[t]]
      BY <2>2, <3>2 DEF AtWork
    <3>. QED
      BY <3>1, <3>3 DEF AtWork
  <2>. QED
    BY <2>3, <2>4
<1>8. UNCHANGED call \/ \E r \in Request : \E steps \in PlansOf[r] : Begin(r, steps)
  BY DEF Next, vars, Heard, Unheard, ApprovalStep, ScreenStep, Crash
<1>. QED
  BY <1>0, <1>1, <1>2, <1>3, <1>4, <1>5, <1>6, <1>7, <1>8 DEF Next

(* Calls are as they should be at all times.                               *)
LEMMA CallInvariance == Spec => []CallInv
<1>1. Init => CallInv
  <2>. SUFFICES ASSUME Init PROVE CallInv
    OBVIOUS
  <2>1. Approval!TypeOK
    BY CallsAssumption DEF Init, Approval!Init, Approval!TypeOK
  <2>2. Requests
    BY DEF Init, Approval!Init, Requests, Verdict, Shown
  <2>3. call \in [Process -> Request \cup {NoCall}] /\ \A s \in Process : AtWork(s)
    BY CallsAssumption DEF Init, Screen!Init, AtWork
  <2>. QED
    BY <2>1, <2>2, <2>3 DEF CallInv
<1>2. CallInv /\ LeaseInv /\ [Next]_vars => CallInv'
  BY CallStep
<1>. QED
  BY <1>1, <1>2, LeaseInvariance, PTL DEF Spec

(* The types.                                                               *)
THEOREM TypeCorrect == Spec => []TypeOK
<1>1. LeaseInv /\ CallInv => TypeOK
  BY CallsAssumption DEF LeaseInv, CallInv, AtWork, TypeOK
<1>. QED
  BY LeaseInvariance, CallInvariance, <1>1, PTL

(* The input of a risky action has been approved by the first answer that   *)
(* the user gave to its call.                                               *)
THEOREM RiskyIsApproved == Spec => []RiskyInputIsApproved
<1>1. ASSUME LeaseInv, CallInv PROVE RiskyInputIsApproved
  <2>. SUFFICES ASSUME NEW s \in Process, pc[s] = "input", Head(plan[s]) \in Risky
                PROVE  first[call[s]] = "ok"
    BY DEF RiskyInputIsApproved
  <2>1. plan[s] \in Seq(Step) /\ plan[s] # <<>>
    BY <1>1 DEF LeaseInv, Screen!TypeOK
  <2>2. 1 \in 1..Len(plan[s]) /\ plan[s][1] = Head(plan[s])
    BY <2>1
  <2>3. Gated(plan[s])
    BY <2>2 DEF Gated
  <2>. QED
    BY <1>1, <2>3 DEF CallInv, AtWork
<1>. QED
  BY LeaseInvariance, CallInvariance, <1>1, PTL

(* A prompt that is still shown belongs to a request that can be answered.  *)
THEOREM ButtonsAreLive == Spec => []NoStaleButtons
<1>1. CallInv => NoStaleButtons
  BY DEF CallInv, Requests, Shown, Approval!TypeOK, NoStaleButtons, Approval!NoStaleButtons
<1>. QED
  BY CallInvariance, <1>1, PTL
=============================================================================
