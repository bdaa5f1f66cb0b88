---------------------------- MODULE ScreenLease ----------------------------
(***************************************************************************)
(* How the aglink-screen processes share one mouse and keyboard, with each *)
(* other (screen/screen_lease_windows.go) and with the user                *)
(* (beginSyntheticInput of screen/screen_notify_windows.go).               *)
(*                                                                         *)
(* A process takes or renews the lease file before it yields to the user,  *)
(* shows its notice and waits, and again just before it synthesizes input. *)
(* The time to live of a lease is a flag that time may take away at any    *)
(* moment; the guard mutex makes reading and writing the file one step.    *)
(*                                                                         *)
(* A call is a single action or a batch of them (run_sequence).            *)
(***************************************************************************)
EXTENDS Naturals, Sequences

CONSTANTS
    Process,   \* aglink-screen processes, by pid
    Step,      \* the actions that synthesize input
    MaxSteps,  \* bound on the actions of a batch
    MaxUpsets  \* bound on lease failures and crashes

None == "none"

VARIABLES
    lease,     \* the lease file: its owner and whether it is within its TTL
    pc,        \* what a process does
    plan,      \* the actions of its call that are still to do
    watch,     \* its watcher of real input: off, blind (nothing seen yet), seeing
    recent,    \* lastSyntheticInput is not 0
    yielded,   \* for the action at hand: it has waited for the user,
    noticed,   \* it has shown the notice,
    unguarded, \* its last look at the lease failed open,
    outlived,  \* its input has taken longer than the TTL
    user,      \* how long ago the user moved: just now, a moment ago, longer
    upsets

own == <<pc, plan, watch, recent, yielded, noticed>>
vars == <<lease, own, unguarded, outlived, user, upsets>>

Init ==
    /\ lease = [owner |-> None, fresh |-> FALSE]
    /\ pc = [s \in Process |-> "idle"]
    /\ plan = [s \in Process |-> <<>>]
    /\ watch = [s \in Process |-> "off"]
    /\ recent = {} /\ yielded = {} /\ noticed = {} /\ unguarded = {} /\ outlived = {}
    /\ user = "quiet"
    /\ upsets = 0

TypeOK ==
    /\ lease \in [owner: Process \cup {None}, fresh: BOOLEAN]
    /\ pc \in [Process -> {"idle", "held", "gate", "yield", "quiet", "notice", "renew",
                           "input", "gone"}]
    /\ plan \in [Process -> Seq(Step)]
    /\ \A s \in Process : Len(plan[s]) <= MaxSteps
                          /\ (plan[s] = <<>> <=> pc[s] \in {"idle", "gone"})
    /\ watch \in [Process -> {"off", "blind", "seeing"}]
    /\ recent \subseteq Process /\ yielded \subseteq Process /\ noticed \subseteq Process
    /\ unguarded \subseteq Process /\ outlived \subseteq Process
    /\ user \in {"active", "pausing", "quiet"}
    /\ upsets \in 0..MaxUpsets

-----------------------------------------------------------------------------
(* The tool call.                                                           *)

(* It arrives; a gated one is held until it is approved.                    *)
Receive(s, steps, gated) ==
    /\ pc[s] = "idle" /\ steps # <<>>
    /\ pc' = [pc EXCEPT ![s] = IF gated THEN "held" ELSE "gate"]
    /\ plan' = [plan EXCEPT ![s] = steps]
    /\ UNCHANGED <<lease, watch, recent, yielded, noticed, unguarded, outlived, user, upsets>>

Proceed(s) ==
    /\ pc[s] = "held"
    /\ pc' = [pc EXCEPT ![s] = "gate"]
    /\ UNCHANGED <<lease, plan, watch, recent, yielded, noticed, unguarded, outlived, user,
                   upsets>>

(* The call returns, done or with an error: what is left of it is not done. *)
Abandon(s) ==
    /\ pc' = [pc EXCEPT ![s] = "idle"]
    /\ plan' = [plan EXCEPT ![s] = <<>>]
    /\ yielded' = yielded \ {s} /\ noticed' = noticed \ {s}

Refuse(s) ==
    /\ pc[s] = "held"
    /\ Abandon(s)
    /\ UNCHANGED <<lease, watch, recent, unguarded, outlived, user, upsets>>

-----------------------------------------------------------------------------
(* leaseCanTake.                                                            *)
CanTake(s) ==
    lease.owner \in {None, s} \cup {t \in Process : ~lease.fresh \/ pc[t] = "gone"}

(* acquireControlLease, and where the action goes on: a busy screen ends    *)
(* the call.  A file or mutex that fails lets the process go on without     *)
(* having written its name.                                                 *)
Acquire(s, next) ==
    \/ /\ CanTake(s)
       /\ lease' = [owner |-> s, fresh |-> TRUE]
       /\ pc' = [pc EXCEPT ![s] = next]
       /\ unguarded' = unguarded \ {s}
       /\ UNCHANGED <<plan, yielded, noticed, upsets>>
    \/ /\ upsets < MaxUpsets /\ upsets' = upsets + 1
       /\ pc' = [pc EXCEPT ![s] = next]
       /\ unguarded' = unguarded \cup {s}
       /\ UNCHANGED <<lease, plan, yielded, noticed>>
    \/ /\ ~CanTake(s)
       /\ Abandon(s)
       /\ UNCHANGED <<lease, unguarded, upsets>>

(* beginSyntheticInput.                                                     *)
Gate(s) ==
    /\ pc[s] = "gate"
    /\ Acquire(s, "yield")
    /\ watch' = [watch EXCEPT ![s] = IF @ = "off" /\ pc'[s] = "yield" THEN "blind" ELSE @]
    /\ UNCHANGED <<recent, outlived, user>>

UserAtWork(s) == watch[s] = "seeing" /\ user = "active"

(* Its first loop: while the user is at work, at most userYieldMaxWait.     *)
YieldStarts(s) ==
    /\ pc[s] = "yield" /\ UserAtWork(s) /\ s \notin yielded
    /\ yielded' = yielded \cup {s}
    /\ UNCHANGED <<lease, pc, plan, watch, recent, noticed, unguarded, outlived, user,
                   upsets>>

YieldFails(s) ==
    /\ pc[s] = "yield" /\ UserAtWork(s) /\ s \in yielded
    /\ Abandon(s)
    /\ UNCHANGED <<lease, watch, recent, unguarded, outlived, user, upsets>>

YieldEnds(s) ==
    /\ pc[s] = "yield" /\ ~UserAtWork(s)
    /\ pc' = [pc EXCEPT ![s] = IF s \in yielded THEN "quiet" ELSE "notice"]
    /\ UNCHANGED <<lease, plan, watch, recent, yielded, noticed, unguarded, outlived, user,
                   upsets>>

(* Faulty: the notice of the session that the user interrupted will do.     *)
NoticeStands(s) == recent

(* lastSyntheticInput.Store(0).                                             *)
NoticeAnew(s) == recent \ {s}

(* Its second loop: until the user has been quiet for userResumeQuietMS.    *)
QuietEnds(s) ==
    /\ pc[s] = "quiet" /\ user = "quiet"
    /\ recent' = NoticeAnew(s)
    /\ pc' = [pc EXCEPT ![s] = "notice"]
    /\ UNCHANGED <<lease, plan, watch, yielded, noticed, unguarded, outlived, user, upsets>>

(* ensureControlNotice: the notice is due the first time, and whenever      *)
(* controlNoticeGap has passed since.  It may take as long as the lead.     *)
Notice(s) ==
    /\ pc[s] = "notice"
    /\ \/ noticed' = noticed \cup {s}
       \/ s \in recent /\ UNCHANGED noticed
    /\ recent' = recent \cup {s}
    /\ pc' = [pc EXCEPT ![s] = "renew"]
    /\ UNCHANGED <<lease, plan, watch, yielded, unguarded, outlived, user, upsets>>

(* Faulty: the process trusts the lease that it took before the waits.      *)
RenewNothing(s) ==
    /\ pc[s] = "renew"
    /\ pc' = [pc EXCEPT ![s] = "input"]
    /\ UNCHANGED <<lease, plan, watch, recent, yielded, noticed, unguarded, outlived, user,
                   upsets>>

Renew(s) ==
    /\ pc[s] = "renew"
    /\ Acquire(s, "input")
    /\ UNCHANGED <<watch, recent, outlived, user>>

(* The action has sent its input; runSequence goes on with the next.        *)
InputEnds(s) ==
    /\ pc[s] = "input"
    /\ plan' = [plan EXCEPT ![s] = Tail(@)]
    /\ pc' = [pc EXCEPT ![s] = IF Len(plan[s]) = 1 THEN "idle" ELSE "gate"]
    /\ yielded' = yielded \ {s} /\ noticed' = noticed \ {s} /\ outlived' = outlived \ {s}
    /\ UNCHANGED <<lease, watch, recent, unguarded, user, upsets>>

-----------------------------------------------------------------------------
(* The process dies with the turn that is cancelled, or of itself.          *)
Crash(s) ==
    /\ pc[s] # "gone" /\ upsets < MaxUpsets /\ upsets' = upsets + 1
    /\ pc' = [pc EXCEPT ![s] = "gone"]
    /\ plan' = [plan EXCEPT ![s] = <<>>]
    /\ yielded' = yielded \ {s} /\ noticed' = noticed \ {s} /\ outlived' = outlived \ {s}
    /\ UNCHANGED <<lease, watch, recent, unguarded, user>>

(* The time to live is over, and whoever still sends input has outlived it. *)
LeaseAges ==
    /\ lease.fresh
    /\ lease' = [lease EXCEPT !.fresh = FALSE]
    /\ outlived' = outlived \cup {s \in {lease.owner} : pc[s] = "input"}
    /\ UNCHANGED <<own, unguarded, user, upsets>>

UserMoves ==
    /\ user # "active" \/ \E s \in Process : watch[s] = "blind"
    /\ user' = "active"
    /\ watch' = [s \in Process |-> IF watch[s] = "blind" THEN "seeing" ELSE watch[s]]
    /\ UNCHANGED <<lease, pc, plan, recent, yielded, noticed, unguarded, outlived, upsets>>

UserPauses ==
    /\ user # "quiet"
    /\ user' = IF user = "active" THEN "pausing" ELSE "quiet"
    /\ UNCHANGED <<lease, own, unguarded, outlived, upsets>>

ProcessStep(s) ==
    \/ Gate(s) \/ YieldStarts(s) \/ YieldFails(s) \/ YieldEnds(s) \/ QuietEnds(s)
    \/ Notice(s) \/ Renew(s) \/ InputEnds(s)

Environment == LeaseAges \/ UserMoves \/ UserPauses

-----------------------------------------------------------------------------
(* Two processes never synthesize input at the same time, unless an action  *)
(* of one takes longer than the lease lives, or the lease file failed it.   *)
(* Waiting for the user, for the notice and between the actions of a batch  *)
(* may take as long as it likes.                                            *)
OneDriver ==
    \A s, t \in Process :
        pc[s] = "input" /\ pc[t] = "input" /\ s # t =>
            {s, t} \cap (outlived \cup unguarded) # {}

(* A process that had to wait for the user warns them anew before it goes   *)
(* on, however recently it had warned them.                                 *)
WarnedAfterYield ==
    \A s \in Process : pc[s] = "input" /\ s \in yielded => s \in noticed
=============================================================================
