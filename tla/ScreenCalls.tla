---------------------------- MODULE ScreenCalls ----------------------------
(***************************************************************************)
(* The calls of screen tools, from screenApprovalMiddleware of             *)
(* screen/approval.go to the last synthesized input: the composition of    *)
(* ToolApproval and ScreenLease.                                           *)
(*                                                                         *)
(* A process takes one call after the other.  A call that uses a tool of   *)
(* the user's list, by itself or as an action of a batch, is held until    *)
(* the host has approved it as a whole.                                    *)
(***************************************************************************)
EXTENDS Naturals, Sequences, FiniteSets

CONSTANTS
    Request, Telegram, Client, MaxAnswers, MaxFaults,
    Process, Step, MaxSteps, MaxUpsets,
    ProcessOf, \* the process that a call is made to
    PlansOf,   \* the actions that it may ask for, one or a batch
    Risky,     \* the actions that approvals.tools names
    MaxTrouble \* bound on faults and upsets together

NoCall == "none"

ASSUME CallsAssumption ==
    /\ Telegram \cap Client = {} /\ NoCall \notin Request \cup Process
    /\ MaxAnswers \in Nat /\ MaxFaults \in Nat /\ MaxSteps \in Nat /\ MaxUpsets \in Nat
    /\ ProcessOf \in [Request -> Process] /\ Risky \subseteq Step
    /\ MaxTrouble \in Nat
    /\ \A r \in Request : \A steps \in PlansOf[r] :
         /\ steps \in Seq(Step) /\ Len(steps) \in 1..MaxSteps

VARIABLES
    caller, host, pending, answer, verdict, prompt, online, first, answers, faults,
    lease, pc, plan, watch, recent, yielded, noticed, unguarded, outlived, user, upsets,
    call       \* the call that a process works on

approvalVars == <<caller, host, pending, answer, verdict, prompt, online, first, answers,
                  faults>>
screenVars == <<lease, pc, plan, watch, recent, yielded, noticed, unguarded, outlived, user,
                upsets>>
vars == <<approvalVars, screenVars, call>>

Approval == INSTANCE ToolApproval
Screen == INSTANCE ScreenLease

Init == Approval!Init /\ Screen!Init /\ call = [s \in Process |-> NoCall]

TypeOK ==
    /\ Approval!TypeOK /\ Screen!TypeOK
    /\ call \in [Process -> Request \cup {NoCall}]
    /\ \A s \in Process :
         pc[s] = "held" => call[s] # NoCall /\ caller[call[s]] = "asking"

-----------------------------------------------------------------------------
(* Faulty: only the name of the tool is looked at, not what a batch does.   *)
GatedByName(steps) == Len(steps) = 1 /\ steps[1] \in Risky

(* screenGatedHits.                                                         *)
Gated(steps) == \E i \in 1..Len(steps) : steps[i] \in Risky

Begin(r, steps) ==
    LET s == ProcessOf[r]
    IN  /\ IF Gated(steps) THEN Approval!Ask(r) ELSE Approval!Ungated(r)
        /\ Screen!Receive(s, steps, Gated(steps))
        /\ call' = [call EXCEPT ![s] = r]

(* The middleware hears from the host.                                      *)
Heard(r) ==
    LET s == ProcessOf[r]
    IN  /\ Approval!Reply(r)
        /\ CASE call[s] = r /\ caller'[r] = "running" -> Screen!Proceed(s)
             [] call[s] = r /\ pc[s] = "held" /\ caller'[r] = "refused" -> Screen!Refuse(s)
             [] OTHER -> UNCHANGED screenVars
        /\ UNCHANGED call

(* It hears nothing: every error refuses.                                   *)
Unheard(r) ==
    LET s == ProcessOf[r]
    IN  /\ call[s] = r /\ Approval!Unheard(r) /\ Screen!Refuse(s)
        /\ UNCHANGED call

ApprovalStep ==
    /\ Approval!Environment \/ \E r \in Request : Approval!HostStep(r)
    /\ UNCHANGED <<screenVars, call>>

ScreenStep ==
    /\ Screen!Environment \/ \E s \in Process : Screen!ProcessStep(s)
    /\ UNCHANGED <<approvalVars, call>>

(* The process ends, and with it the call it may be waiting to have         *)
(* approved.                                                                *)
Crash(s) ==
    /\ Screen!Crash(s)
    /\ IF pc[s] = "held" THEN Approval!Unheard(call[s]) ELSE UNCHANGED approvalVars
    /\ UNCHANGED call

Next ==
    /\ \/ \E r \in Request : \/ \E steps \in PlansOf[r] : Begin(r, steps)
                             \/ Heard(r) \/ Unheard(r)
       \/ ApprovalStep \/ ScreenStep
       \/ \E s \in Process : Crash(s)
    /\ faults' + upsets' <= MaxTrouble

(* The goroutines of the host go on, its timeout and the caller's expire,   *)
(* and so do those of the screen processes.  The user need do nothing.      *)
Fairness ==
    /\ \A r \in Request : /\ WF_vars(Approval!HostStep(r) /\ UNCHANGED <<screenVars, call>>)
                          /\ WF_vars(Heard(r)) /\ WF_vars(Unheard(r))
    /\ \A s \in Process : WF_vars(Screen!ProcessStep(s) /\ UNCHANGED <<approvalVars, call>>)

Spec == Init /\ [][Next]_vars /\ Fairness

-----------------------------------------------------------------------------
(* No process synthesizes the input of a risky action unless the user's     *)
(* first answer to its call was yes, be it the call itself or a part of a   *)
(* batch, and whoever else answers, late or otherwise.                      *)
RiskyInputIsApproved ==
    \A s \in Process :
        pc[s] = "input" /\ Head(plan[s]) \in Risky => first[call[s]] = "ok"

NoStaleButtons == Approval!NoStaleButtons
OneDriver == Screen!OneDriver
WarnedAfterYield == Screen!WarnedAfterYield

(* beginSyntheticInput's comment: the wait for the user is bounded, and the *)
(* call gives up "if they never pause".  A call comes to an end, whatever   *)
(* the user does.                                                           *)
EveryCallEnds == \A s \in Process : []<>(pc[s] \in {"idle", "gone"})

(* If the user leaves the mouse and keyboard alone one day, every call ends *)
(* and every request is forgotten: neither an approval that nobody answers  *)
(* nor an owner of the lease that is gone keeps them for ever, and a        *)
(* request does not outlive a caller that has given up.                     *)
CallsEndWhenQuiet ==
    (<>[](user = "quiet")) => EveryCallEnds /\ \A r \in Request : []<>(r \notin pending)
=============================================================================
