------------------------ MODULE RestartHandoffProofs ------------------------
(***************************************************************************)
(* Theorems about the restart without downtime, for any number of          *)
(* instances and messages.  What is about who serves holds while restarts  *)
(* come one after the other.                                               *)
(***************************************************************************)
EXTENDS RestartHandoff, TLAPS

(* Instances are born in their order.                                       *)
Born(n) ==
    /\ n \in Instance
    /\ \A p \in Instance : phase[p] = "unborn" <=> p > n
    /\ \A w \in waits : w.child <= n

Newcomer == {"loading", "initialised", "waiting"}

(* Newcomers have a parent, and what waits or exits was born.               *)
Family ==
    /\ \A p \in Instance : phase[p] \in Newcomer => startedBy[p] # Nobody
    /\ \A p \in Instance : startedBy[p] # Nobody => phase[startedBy[p]] # "unborn"
    /\ \A p \in forIdle \cup building \cup closing : phase[p] # "unborn"

Base == TypeOK /\ Family /\ \E n \in Instance : Born(n)

(* What a step that starts no instance does.                                *)
NoneBorn ==
    /\ \A p \in Instance : /\ phase'[p] = "unborn" <=> phase[p] = "unborn"
                           /\ phase'[p] \in Newcomer => phase[p] \in Newcomer
    /\ waits' \subseteq waits /\ startedBy' = startedBy
    /\ \A p \in forIdle' \cup building' \cup closing' : phase[p] # "unborn"

LEMMA LeastUnborn ==
  ASSUME NEW n, Born(n), \E q \in Instance : phase[q] = "unborn"
  PROVE  NextInstance = n + 1 /\ n + 1 \in Instance
<1>1. n + 1 \in Instance /\ phase[n + 1] = "unborn"
  BY HandoffAssumption DEF Born, Instance
<1>2. \A q \in Instance : phase[q] = "unborn" => n + 1 <= q
  BY DEF Born, Instance
<1>3. \A p \in Instance :
         phase[p] = "unborn" /\ (\A q \in Instance : phase[q] = "unborn" => p <= q) => p = n + 1
  BY <1>1, <1>2 DEF Instance
<1>. QED
  BY <1>1, <1>2, <1>3 DEF NextInstance

LEMMA BornKept ==
  ASSUME TypeOK, Family, NEW n, Born(n), NoneBorn, TypeOK'
  PROVE  Base'
<1>1. Born(n)'
  BY DEF Born, NoneBorn
<1>2. \A p \in forIdle' \cup building' \cup closing' : p \in Instance
  BY DEF TypeOK
<1>3. \A p \in Instance : startedBy[p] \in Instance \cup {Nobody}
  BY DEF TypeOK
<1>4. Family'
  BY <1>2, <1>3 DEF Family, NoneBorn
<1>. QED
  BY <1>1, <1>4 DEF Base, Born

(* A newcomer is started.                                                   *)
LEMMA SpawnBase ==
  ASSUME NEW n, Born(n), TypeOK, Family, NEW p \in Instance, phase[p] # "unborn",
         NEW b \in BOOLEAN, Spawn(p, b),
         forIdle' \subseteq forIdle, building' \subseteq building
  PROVE  /\ Born(n + 1)' /\ TypeOK' /\ Family' /\ n + 1 \in Instance
         /\ phase' = [phase EXCEPT ![n + 1] = "loading"]
         /\ startedBy' = [startedBy EXCEPT ![n + 1] = p]
         /\ waits' = waits \cup {[child |-> n + 1, scheduled |-> b]}
<1>1. NextInstance = n + 1 /\ n + 1 \in Instance /\ n \in Instance
  BY LeastUnborn DEF Spawn, Born
<1>2. /\ phase' = [phase EXCEPT ![n + 1] = "loading"]
      /\ startedBy' = [startedBy EXCEPT ![n + 1] = p]
      /\ waits' = waits \cup {[child |-> n + 1, scheduled |-> b]}
  BY <1>1 DEF Spawn
<1>3. Born(n + 1)'
  <2>1. \A q \in Instance : phase'[q] = "unborn" <=> q > n + 1
    BY <1>1, <1>2 DEF Born, TypeOK, Instance
  <2>2. \A w \in waits' : w.child <= n + 1
    BY <1>1, <1>2 DEF Born, TypeOK, Instance, Wait
  <2>. QED
    BY <1>1, <2>1, <2>2 DEF Born
<1>4. [child |-> n + 1, scheduled |-> b] \in Wait
  BY <1>1 DEF Wait
<1>5. TypeOK'
  BY <1>1, <1>2, <1>4 DEF TypeOK, Spawn, Phase
<1>6. Family'
  <2>1. /\ \A q \in Instance \ {n + 1} : phase'[q] = phase[q] /\ startedBy'[q] = startedBy[q]
        /\ phase'[n + 1] = "loading" /\ startedBy'[n + 1] = p /\ p # Nobody
    BY <1>1, <1>2 DEF TypeOK, Instance, Nobody
  <2>2. \A q \in Instance : phase[q] # "unborn" => phase'[q] # "unborn"
    BY <2>1
  <2>3. \A q \in Instance : phase'[q] \in Newcomer => startedBy'[q] # Nobody
    BY <2>1 DEF Family, Newcomer
  <2>4. ASSUME NEW q \in Instance, startedBy'[q] # Nobody PROVE phase'[startedBy'[q]] # "unborn"
    BY <2>1, <2>2, <2>4 DEF Family, TypeOK
  <2>5. ASSUME NEW q \in forIdle' \cup building' \cup closing' PROVE phase'[q] # "unborn"
    BY <2>2 DEF Family, TypeOK, Spawn
  <2>. QED
    BY <2>3, <2>4, <2>5 DEF Family
<1>. QED
  BY <1>1, <1>2, <1>3, <1>5, <1>6

LEMMA EndsBase ==
  ASSUME TypeOK, Family, NEW p \in Instance, phase[p] # "unborn", Ends(p), waits' \subseteq waits,
         restarting' \subseteq restarting, UNCHANGED <<startedBy, waitedFor, ready, pidFile>>
  PROVE  NoneBorn /\ TypeOK'
<1>1. fate' \in [Message -> {"unsent", "running", "answered", "killed"}]
  BY DEF Ends, TypeOK
<1>2. phase' \in [Instance -> Phase] /\ turns' \in [Instance -> SUBSET Message]
  BY DEF Ends, TypeOK, Phase
<1>3. restarting' \cup forIdle' \cup building' \cup closing' \subseteq Instance
  BY DEF Ends, TypeOK
<1>. QED
  BY <1>1, <1>2, <1>3 DEF Ends, TypeOK, NoneBorn, Newcomer, Family

LEMMA BaseStep ==
  ASSUME Base, [Next]_vars
  PROVE  Base'
<1>. PICK n \in Instance : Born(n)
  BY DEF Base
<1>. USE DEF Base
<1>0. ASSUME NoneBorn, TypeOK' PROVE Base'
  BY <1>0, BornKept
<1>1. CASE UNCHANGED vars
  BY <1>0, <1>1 DEF vars, asked, NoneBorn, Family, Newcomer, TypeOK
<1>2. ASSUME NEW p \in Instance, NEW m \in Message, TurnStarts(p, m) \/ TurnEnds(p, m)
      PROVE  Base'
  BY <1>0, <1>2 DEF TurnStarts, TurnEnds, asked, NoneBorn, Family, Newcomer, TypeOK
<1>3. ASSUME NEW p \in Instance, phase[p] # "unborn", NEW b \in BOOLEAN, Spawn(p, b),
             forIdle' \subseteq forIdle, building' \subseteq building
      PROVE  Base'
  BY <1>3, SpawnBase DEF Born
<1>4. ASSUME NEW p \in Instance, Asked(p) PROVE Base'
  <2>1. CASE ScheduleRestart(p) \/ UserRestartFails(p) \/ UserUpdate(p)
    BY <1>0, <2>1 DEF ScheduleRestart, Watching, UserRestartFails, UserUpdate, SpawnFails, NoneBorn,
       Family, Newcomer, TypeOK
  <2>. QED
    BY <1>3, <1>4, <2>1 DEF Asked, UserRestart
<1>5. ASSUME NEW p \in Instance, Proceeds(p) PROVE Base'
  <2>1. CASE HandOff(p) \/ BuildDone(p)
    BY <1>3, <2>1 DEF HandOff, MayHandOff, BuildDone, Family
  <2>2. CASE HandOffFails(p) \/ BuiltButNotStarted(p) \/ BuildFailed(p)
    BY <1>0, <2>2 DEF HandOffFails, BuiltButNotStarted, BuildFailed, SpawnFails, NoneBorn,
       Family, Newcomer, TypeOK
  <2>3. CASE Initialise(p) \/ InitFails(p)
    BY <1>0, <2>3 DEF Initialise, InitFails, asked, NoneBorn, Family, Newcomer, TypeOK, Phase
  <2>4. CASE Signal(p)
    <3>1. startedBy[p] \in Instance
      BY <2>4 DEF Signal, Newcomer, Family, TypeOK
    <3>. QED
      BY <1>0, <2>4, <3>1 DEF Signal, asked, NoneBorn, Family, Newcomer, TypeOK, Phase
  <2>5. CASE Serve(p)
    BY <1>0, <2>5 DEF Serve, asked, NoneBorn, Family, Newcomer, TypeOK, Phase
  <2>6. CASE KillOld(p)
    <3>1. waitedFor[p] \in Instance /\ phase[waitedFor[p]] # "unborn"
      BY <2>6 DEF KillOld, TypeOK, Alive
    <3>. QED
      BY <1>0, <2>6, <3>1, EndsBase DEF KillOld, Dies
  <2>7. CASE Exit(p)
    <3>1. phase[p] # "unborn"
      BY <2>7 DEF Exit, Family
    <3>. QED
      BY <1>0, <2>7, <3>1, EndsBase DEF Exit, Dies
  <2>8. ASSUME NEW w \in WaitsOf(p), SeesReady(w) PROVE Base'
    <3>1. p = startedBy[w.child] /\ w \in waits /\ w.child \in Instance /\ p # Nobody
      BY DEF WaitsOf, TypeOK, Wait, Instance, Nobody
    <3>2. phase[p] # "unborn"
      BY <3>1 DEF Family
    <3>. QED
      BY <1>0, <2>8, <3>1, <3>2 DEF SeesReady, NoneBorn, Family, Newcomer, TypeOK
  <2>9. ASSUME NEW w \in WaitsOf(p), TimesOut(w) PROVE Base'
    <3>1. w \in waits /\ w.child \in Instance /\ phase[w.child] # "unborn"
      BY <2>9 DEF WaitsOf, TypeOK, Wait, Born, Instance
    <3>. QED
      BY <1>0, <2>9, <3>1, EndsBase DEF TimesOut
  <2>. QED
    BY <1>5, <2>1, <2>2, <2>3, <2>4, <2>5, <2>6, <2>7, <2>8, <2>9 DEF Proceeds
<1>. QED
  BY <1>1, <1>2, <1>4, <1>5 DEF Next

LEMMA BaseInvariance == Spec => []Base
<1>1. Init => Base
  <2>. SUFFICES ASSUME Init PROVE Base
    OBVIOUS
  <2>1. 1 \in Instance /\ Nobody \notin Instance
    BY HandoffAssumption DEF Instance, Nobody
  <2>2. Born(1)
    BY <2>1 DEF Init, Born, Instance
  <2>3. TypeOK
    BY <2>1 DEF Init, TypeOK, Phase
  <2>4. Family
    BY DEF Init, Family, Newcomer
  <2>. QED
    BY <2>1, <2>2, <2>3, <2>4 DEF Base
<1>. QED
  BY <1>1, BaseStep, PTL DEF Spec

(* The handoff's state is well typed, and no process is started or waited   *)
(* for that does not exist.                                                 *)
THEOREM TypeCorrect == Spec => []TypeOK
<1>1. Base => TypeOK
  BY DEF Base
<1>. QED
  BY <1>1, BaseInvariance, PTL

-----------------------------------------------------------------------------
(* The flag that guards against two scheduled restarts.                     *)
LEMMA FlagStep ==
  ASSUME Base, FlagIsReleased, [Next]_vars
  PROVE  FlagIsReleased'
<1>. PICK n \in Instance : Born(n)
  BY DEF Base
<1>. USE DEF Base, FlagIsReleased
<1>0. \A w \in waits : w.child \in Instance /\ w.child <= n
  BY DEF TypeOK, Wait, Born
<1>1. ASSUME restarting' = restarting, forIdle' = forIdle, closing \subseteq closing',
             waits' = waits, startedBy' = startedBy
      PROVE  FlagIsReleased'
  BY <1>1 DEF WaitsOf
<1>2. ASSUME NEW p \in Instance, phase[p] # "unborn", NEW b \in BOOLEAN, Spawn(p, b),
             forIdle' \subseteq forIdle, building' \subseteq building,
             forIdle' = forIdle \/ (b /\ forIdle' = forIdle \ {p})
      PROVE  FlagIsReleased'
  <2>1. /\ startedBy' = [startedBy EXCEPT ![n + 1] = p] /\ n + 1 \in Instance
        /\ waits' = waits \cup {[child |-> n + 1, scheduled |-> b]}
        /\ UNCHANGED <<restarting, closing>>
    BY <1>2, SpawnBase DEF Spawn
  <2>2. \A w \in waits : startedBy'[w.child] = startedBy[w.child]
    BY <1>0, <2>1 DEF TypeOK, Instance
  <2>3. \A q \in Instance : WaitsOf(q) \subseteq WaitsOf(q)'
    BY <2>1, <2>2 DEF WaitsOf
  <2>4. b => \E w \in WaitsOf(p)' : w.scheduled
    <3>1. [child |-> n + 1, scheduled |-> b] \in waits' /\ startedBy'[n + 1] = p
      BY <2>1 DEF TypeOK
    <3>. QED
      BY <3>1 DEF WaitsOf
  <2>5. \A q \in restarting : q \in Instance
    BY DEF TypeOK
  <2>. QED
    BY <1>2, <2>1, <2>3, <2>4, <2>5
<1>3. ASSUME NEW p \in Instance, Dies(p), startedBy' = startedBy PROVE FlagIsReleased'
  BY <1>3 DEF Dies, Ends, WaitsOf, TypeOK
<1>4. ASSUME NEW p \in Instance, Asked(p) PROVE FlagIsReleased'
  <2>1. CASE ScheduleRestart(p)
    BY <2>1 DEF ScheduleRestart, WaitsOf
  <2>2. CASE UserRestart(p)
    BY <1>2, <2>2 DEF UserRestart
  <2>3. CASE UserRestartFails(p) \/ UserUpdate(p)
    BY <1>1, <2>3 DEF UserRestartFails, UserUpdate, SpawnFails
  <2>. QED
    BY <1>4, <2>1, <2>2, <2>3 DEF Asked
<1>5. ASSUME NEW p \in Instance, Proceeds(p) PROVE FlagIsReleased'
  <2>1. CASE HandOff(p)
    BY <1>2, <2>1 DEF HandOff, MayHandOff, Family
  <2>2. CASE BuildDone(p)
    BY <1>2, <2>2 DEF BuildDone, Family
  <2>3. CASE HandOffFails(p)
    BY <2>3 DEF HandOffFails, SpawnFails, WaitsOf
  <2>4. CASE \/ BuiltButNotStarted(p) \/ BuildFailed(p) \/ Initialise(p) \/ InitFails(p)
             \/ Signal(p) \/ Serve(p)
    BY <1>1, <2>4 DEF BuiltButNotStarted, BuildFailed, SpawnFails, Initialise, InitFails,
       Signal, Serve, asked
  <2>5. CASE KillOld(p)
    BY <1>3, <2>5 DEF KillOld, TypeOK
  <2>6. CASE Exit(p)
    BY <1>3, <2>6 DEF Exit
  <2>7. ASSUME NEW w \in WaitsOf(p), SeesReady(w) PROVE FlagIsReleased'
    BY <2>7 DEF SeesReady, WaitsOf
  <2>8. ASSUME NEW w \in WaitsOf(p), TimesOut(w) PROVE FlagIsReleased'
    <3>1. p = startedBy[w.child] /\ w \in waits
      BY DEF WaitsOf
    <3>2. /\ waits' = waits \ (WaitsOf(w.child) \cup {w}) /\ startedBy' = startedBy
          /\ restarting' = restarting \ ({w.child} \cup IF w.scheduled THEN {p} ELSE {})
          /\ forIdle' = forIdle \ {w.child} /\ closing' = closing \ {w.child}
      BY <2>8, <3>1 DEF TimesOut, Ends
    <3>3. ASSUME NEW q \in restarting' PROVE \/ q \in forIdle' \cup closing'
                                             \/ \E v \in WaitsOf(q)' : v.scheduled
      <4>1. q \in restarting /\ q # w.child /\ (w.scheduled => q # p)
        BY <3>2
      <4>2. CASE q \in forIdle \cup closing
        BY <3>2, <4>1, <4>2
      <4>3. CASE \E v \in WaitsOf(q) : v.scheduled
        <5>1. PICK v \in WaitsOf(q) : v.scheduled
          BY <4>3
        <5>2. v # w /\ v \notin WaitsOf(w.child) /\ v \in waits /\ startedBy[v.child] = q
          BY <3>1, <4>1, <5>1 DEF WaitsOf
        <5>. QED
          BY <3>2, <5>1, <5>2 DEF WaitsOf
      <4>. QED
        BY <4>1, <4>2, <4>3
    <3>. QED
      BY <3>3
  <2>. QED
    BY <1>5, <2>1, <2>2, <2>3, <2>4, <2>5, <2>6, <2>7, <2>8 DEF Proceeds
<1>6. ASSUME NEW p \in Instance, NEW m \in Message, TurnStarts(p, m) \/ TurnEnds(p, m)
      PROVE  FlagIsReleased'
  BY <1>1, <1>6 DEF TurnStarts, TurnEnds, asked
<1>7. CASE UNCHANGED vars
  BY <1>1, <1>7 DEF vars, asked
<1>. QED
  BY <1>4, <1>5, <1>6, <1>7 DEF Next

(* A restart that failed is not the last one: the flag is only held while a *)
(* scheduled restart goes on, also when several are asked for at once.      *)
THEOREM FlagReleased == Spec => []FlagIsReleased
<1>1. Init => FlagIsReleased
  BY DEF Init, FlagIsReleased
<1>. QED
  BY <1>1, FlagStep, BaseInvariance, PTL DEF Spec

-----------------------------------------------------------------------------
(* One restart after the other.                                             *)

(* Of the instances only the newest, n, and the one in the pid file may be  *)
(* there, and the loop that waits waits for the newest.                     *)
Two(n) ==
    /\ \A p \in Instance : phase[p] \notin {"unborn", "gone"} => p = n \/ p = pidFile
    /\ \A w \in waits : w.child = n /\ startedBy[n] = pidFile
    /\ \A v, w \in waits : v = w

(* One serves; the newcomer, if there was one, did not make it.             *)
Alone(n) ==
    /\ phase[pidFile] = "serving" /\ closing = {}
    /\ pidFile # n => phase[n] = "gone"
    /\ forIdle \cup building \subseteq {pidFile} /\ (forIdle = {} \/ building = {})
    /\ waits # {} => /\ forIdle = {} /\ building = {}
                     /\ pidFile # n /\ pidFile \notin ready

(* One serves and the newcomer is on its way.                               *)
Handing(n) ==
    /\ phase[pidFile] = "serving" /\ phase[n] \in Newcomer
    /\ startedBy[n] = pidFile /\ forIdle = {} /\ building = {}
    /\ closing \subseteq {pidFile}
    /\ closing # {} => phase[n] = "waiting" /\ waits = {}
    /\ pidFile \in ready /\ waits # {} => phase[n] = "waiting"
    /\ phase[n] = "waiting" => waitedFor[n] = pidFile

(* The old one has gone and the newcomer is about to serve.                 *)
Left(n) ==
    /\ pidFile # n /\ phase[pidFile] = "gone" /\ phase[n] = "waiting"
    /\ waitedFor[n] = pidFile
    /\ waits = {} /\ closing = {} /\ forIdle = {} /\ building = {}

Stage(n) == Two(n) /\ (Alone(n) \/ Handing(n) \/ Left(n))

Handover == \E n \in Instance : Born(n) /\ Stage(n)

LEMMA OnlyOne ==
  ASSUME Base, Handover
  PROVE  OneServer /\ NeverWithout
<1>1. pidFile \in Instance
  BY DEF Base, TypeOK
<1>2. PICK n \in Instance : Stage(n)
  BY DEF Handover
<1>. QED
  BY <1>1, <1>2 DEF Stage, Two, Alone, Handing, Left, OneServer, NeverWithout, Newcomer

(* A restart that is asked for finds one instance, and nothing under way.   *)
LEMMA AskedAlone ==
  ASSUME ~Overlap, Base, NEW n \in Instance, Stage(n), MayAsk
  PROVE  Alone(n) /\ waits = {} /\ forIdle = {} /\ building = {}
<1>1. waits = {} /\ forIdle = {} /\ building = {}
      /\ \A q \in Instance : phase[q] \notin {"unborn", "gone"} => phase[q] = "serving"
  BY DEF MayAsk, Alive
<1>. QED
  BY <1>1 DEF Stage, Handing, Left, Newcomer

LEMMA NewStage ==
  ASSUME Base, Base', NEW n \in Instance, Born(n), Stage(n), Alone(n), waits = {},
         NEW b \in BOOLEAN, Spawn(pidFile, b), forIdle' = {}, building' = {}
  PROVE  Handover'
<1>1. TypeOK /\ Family /\ pidFile \in Instance /\ phase[pidFile] = "serving"
  BY DEF Base, TypeOK, Alone
<1>2. /\ Born(n + 1)' /\ n + 1 \in Instance
      /\ phase' = [phase EXCEPT ![n + 1] = "loading"]
      /\ startedBy' = [startedBy EXCEPT ![n + 1] = pidFile]
      /\ waits' = {[child |-> n + 1, scheduled |-> b]}
      /\ UNCHANGED <<pidFile, waitedFor, closing>> /\ ready' = ready \ {pidFile}
  BY <1>1, SpawnBase DEF Spawn, Alone
<1>3. phase[n + 1] = "unborn"
  BY <1>2 DEF Born, Instance
<1>4. /\ phase'[n + 1] = "loading" /\ startedBy'[n + 1] = pidFile
      /\ \A p \in Instance \ {n + 1} : phase'[p] = phase[p]
      /\ pidFile # n + 1
  BY <1>1, <1>2, <1>3 DEF TypeOK
<1>5. Two(n + 1)'
  <2>1. \A p \in Instance : phase'[p] \notin {"unborn", "gone"} => p = n + 1 \/ p = pidFile
    BY <1>4 DEF Stage, Two, Alone
  <2>. QED
    BY <1>2, <1>4, <2>1 DEF Two
<1>6. Handing(n + 1)'
  BY <1>1, <1>2, <1>4 DEF Handing, Alone, Newcomer
<1>. QED
  BY <1>2, <1>5, <1>6 DEF Handover, Stage

(* A step that starts none leaves the newest the newest.                    *)
LEMMA SameNewest ==
  ASSUME NEW n \in Instance, Born(n), Base, Base', waits' \subseteq waits,
         \A p \in Instance : phase'[p] = "unborn" <=> phase[p] = "unborn", Stage(n)'
  PROVE  Handover'
<1>1. Born(n)'
  BY DEF Born
<1>. QED
  BY <1>1 DEF Handover

(* Steps that concern neither who is there nor what they wait for.          *)
LEMMA SameStage ==
  ASSUME Base, Base', Handover, UNCHANGED <<phase, startedBy, waitedFor, pidFile, waits, closing>>,
         ready' \subseteq ready, forIdle' \subseteq forIdle, building' \subseteq building
  PROVE  Handover'
<1>. PICK n \in Instance : Born(n) /\ Stage(n)
  BY DEF Handover
<1>1. Stage(n)'
  BY DEF Stage, Two, Alone, Handing, Left
<1>. QED
  BY <1>1, SameNewest

LEMMA AskedStage ==
  ASSUME ~Overlap, Base, Base', Handover, NEW p \in Instance, Asked(p)
  PROVE  Handover'
<1>. PICK n \in Instance : Born(n) /\ Stage(n)
  BY DEF Handover
<1>0. phase[p] \notin {"unborn", "gone"}
  BY DEF Asked, ScheduleRestart, Watching, UserRestart, UserRestartFails, UserUpdate
<1>1. Alone(n) /\ waits = {} /\ forIdle = {} /\ building = {}
  BY AskedAlone DEF Asked, ScheduleRestart, UserRestart, UserRestartFails, UserUpdate
<1>2. p = pidFile
  BY <1>0, <1>1 DEF Stage, Two, Alone
<1>3. CASE UserRestart(p)
  BY <1>1, <1>2, <1>3, NewStage DEF UserRestart
<1>4. CASE ScheduleRestart(p) \/ UserUpdate(p)
  <2>1. /\ UNCHANGED <<phase, startedBy, waitedFor, ready, pidFile, waits, closing>>
        /\ forIdle' \cup building' \subseteq {pidFile} /\ (forIdle' = {} \/ building' = {})
    BY <1>1, <1>2, <1>4 DEF ScheduleRestart, UserUpdate
  <2>2. Stage(n)'
    BY <1>1, <2>1 DEF Stage, Two, Alone
  <2>. QED
    BY <2>1, <2>2, SameNewest
<1>5. CASE UserRestartFails(p)
  BY <1>5, SameStage DEF UserRestartFails, SpawnFails
<1>. QED
  BY <1>3, <1>4, <1>5 DEF Asked

(* A scheduled restart, or a build, comes to its newcomer.                  *)
LEMMA HandOffStage ==
  ASSUME Base, Base', Handover, NEW p \in Instance,
         \/ HandOff(p) \/ HandOffFails(p)
         \/ BuildDone(p) \/ BuiltButNotStarted(p) \/ BuildFailed(p)
  PROVE  Handover'
<1>. PICK n \in Instance : Born(n) /\ Stage(n)
  BY DEF Handover
<1>1. CASE HandOffFails(p) \/ BuiltButNotStarted(p) \/ BuildFailed(p)
  BY <1>1, SameStage DEF HandOffFails, BuiltButNotStarted, BuildFailed, SpawnFails
<1>2. CASE HandOff(p) \/ BuildDone(p)
  <2>1. p \in forIdle \cup building
    BY <1>2 DEF HandOff, MayHandOff, BuildDone
  <2>2. Alone(n) /\ waits = {} /\ p = pidFile
    BY <2>1 DEF Stage, Alone, Handing, Left
  <2>3. forIdle' = {} /\ building' = {}
    BY <1>2, <2>1, <2>2 DEF HandOff, MayHandOff, BuildDone, Alone
  <2>. QED
    BY <1>2, <2>2, <2>3, NewStage DEF HandOff, BuildDone
<1>. QED
  BY <1>1, <1>2

(* The newcomer goes on.                                                    *)
LEMMA NewcomerStage ==
  ASSUME Base, Base', Handover, NEW p \in Instance,
         Initialise(p) \/ InitFails(p) \/ Signal(p) \/ Serve(p)
  PROVE  Handover'
<1>. PICK n \in Instance : Born(n) /\ Stage(n)
  BY DEF Handover
<1>0. TypeOK /\ pidFile \in Instance /\ UNCHANGED <<startedBy, waits, asked>>
      /\ phase[p] \in Newcomer
  BY DEF Base, TypeOK, Initialise, InitFails, Signal, Serve, Newcomer
<1>1. p = n /\ pidFile # n
  BY <1>0 DEF Stage, Two, Alone, Handing, Left, Newcomer
<1>2. /\ \A q \in Instance \ {n} : phase'[q] = phase[q]
      /\ phase'[n] # "unborn" /\ phase[n] # "unborn"
  BY <1>0, <1>1 DEF Initialise, InitFails, Signal, Serve, TypeOK, Newcomer
<1>3. CASE Initialise(n)
  <2>1. /\ phase[n] = "loading" /\ phase'[n] = "initialised"
        /\ UNCHANGED <<waitedFor, ready, pidFile>>
    BY <1>0, <1>3 DEF Initialise, TypeOK
  <2>2. Two(n)' /\ Handing(n)'
    BY <1>0, <1>1, <1>2, <2>1 DEF asked, Stage, Two, Alone, Handing, Left, Newcomer
  <2>. QED
    BY <1>0, <1>2, <2>2, SameNewest DEF Stage
<1>4. CASE InitFails(n)
  <2>1. /\ phase[n] = "loading" /\ phase'[n] = "gone"
        /\ UNCHANGED <<waitedFor, ready, pidFile>>
    BY <1>0, <1>4 DEF InitFails, TypeOK
  <2>2. Two(n)' /\ Alone(n)'
    BY <1>0, <1>1, <1>2, <2>1 DEF asked, Stage, Two, Alone, Handing, Left, Newcomer
  <2>. QED
    BY <1>0, <1>2, <2>2, SameNewest DEF Stage
<1>5. CASE Signal(n)
  <2>1. /\ phase[n] = "initialised" /\ phase'[n] = "waiting"
        /\ waitedFor'[n] = pidFile /\ UNCHANGED pidFile
    BY <1>0, <1>1, <1>5 DEF Signal, TypeOK
  <2>2. Two(n)' /\ Handing(n)'
    BY <1>0, <1>1, <1>2, <2>1 DEF asked, Stage, Two, Alone, Handing, Left, Newcomer
  <2>. QED
    BY <1>0, <1>2, <2>2, SameNewest DEF Stage
<1>6. CASE Serve(n)
  <2>1. /\ phase[n] = "waiting" /\ phase'[n] = "serving" /\ pidFile' = n
        /\ waitedFor[n] # Nobody => phase[waitedFor[n]] \in {"unborn", "gone"}
    BY <1>0, <1>6 DEF Serve, TypeOK, Alive
  <2>2. pidFile # Nobody
    BY <1>0 DEF Instance, Nobody
  <2>3. Left(n)
    BY <1>0, <1>1, <2>1, <2>2 DEF Stage, Alone, Handing
  <2>4. Two(n)' /\ Alone(n)'
    BY <1>0, <1>1, <1>2, <2>1, <2>3 DEF asked, Stage, Two, Alone, Left
  <2>. QED
    BY <1>0, <1>2, <2>4, SameNewest DEF Stage
<1>. QED
  BY <1>1, <1>3, <1>4, <1>5, <1>6

(* The old instance ends, of itself or because the newcomer kills it.       *)
LEMMA OldStage ==
  ASSUME Base, Base', Handover, NEW p \in Instance, KillOld(p) \/ Exit(p)
  PROVE  Handover'
<1>. PICK n \in Instance : Born(n) /\ Stage(n)
  BY DEF Handover
<1>0. TypeOK /\ pidFile \in Instance /\ UNCHANGED <<startedBy, waitedFor, ready, pidFile>>
  BY DEF Base, TypeOK, KillOld, Exit
<1>1. Handing(n) /\ phase[n] = "waiting" /\ Dies(pidFile) /\ pidFile # n
  <2>1. CASE Exit(p)
    BY <1>0, <2>1 DEF Exit, Stage, Alone, Handing, Left
  <2>2. CASE KillOld(p)
    <3>1. phase[p] = "waiting" /\ phase[waitedFor[p]] \notin {"unborn", "gone"}
          /\ Dies(waitedFor[p])
      BY <2>2 DEF KillOld, Alive
    <3>2. p = n
      BY <1>0, <3>1 DEF Stage, Two, Alone, Handing, Left
    <3>. QED
      BY <1>0, <3>1, <3>2 DEF Stage, Two, Alone, Handing, Left
  <2>. QED
    BY <2>1, <2>2
<1>2. /\ phase'[pidFile] = "gone" /\ \A q \in Instance \ {pidFile} : phase'[q] = phase[q]
      /\ forIdle' = {} /\ building' = {} /\ closing' = {} /\ waits' = {}
  BY <1>0, <1>1 DEF Dies, Ends, WaitsOf, Handing, Stage, Two, TypeOK
<1>3. Two(n)' /\ Left(n)'
  BY <1>0, <1>1, <1>2 DEF Stage, Two, Handing, Left
<1>4. phase[pidFile] # "unborn"
  BY <1>1 DEF Handing
<1>. QED
  BY <1>0, <1>2, <1>3, <1>4, SameNewest DEF Stage

(* The loop that waits for the newcomer comes to its end.                   *)
LEMMA WaitStage ==
  ASSUME Base, Base', Handover, NEW p \in Instance, NEW w \in WaitsOf(p),
         SeesReady(w) \/ TimesOut(w)
  PROVE  Handover'
<1>. PICK n \in Instance : Born(n) /\ Stage(n)
  BY DEF Handover
<1>0. TypeOK /\ pidFile \in Instance /\ w \in waits
  BY DEF Base, TypeOK, WaitsOf
<1>1. w.child = n /\ p = pidFile /\ startedBy[n] = pidFile /\ waits = {w}
  BY <1>0 DEF Stage, Two, WaitsOf
<1>2. (Alone(n) /\ pidFile # n /\ forIdle = {} /\ building = {} /\ pidFile \notin ready)
      \/ Handing(n)
  BY <1>0 DEF Stage, Alone, Left
<1>3. CASE SeesReady(w)
  <2>1. /\ pidFile \in ready /\ waits' = {} /\ closing' = closing \cup {pidFile}
        /\ ready' = ready \ {pidFile}
        /\ UNCHANGED <<phase, startedBy, waitedFor, pidFile, forIdle, building>>
    BY <1>1, <1>3 DEF SeesReady
  <2>2. Two(n)' /\ Handing(n)'
    BY <1>1, <1>2, <2>1 DEF Stage, Two, Handing
  <2>. QED
    BY <2>1, <2>2, SameNewest DEF Stage
<1>4. CASE TimesOut(w)
  <2>1. /\ phase'[n] = "gone" /\ \A q \in Instance \ {n} : phase'[q] = phase[q]
        /\ waits' = {} /\ closing' = closing \ {n}
        /\ forIdle' = forIdle \ {n} /\ building' = building \ {n}
        /\ UNCHANGED <<startedBy, waitedFor, ready, pidFile>>
    BY <1>0, <1>1, <1>4 DEF TimesOut, Ends, TypeOK
  <2>2. pidFile # n /\ closing = {} /\ forIdle = {} /\ building = {}
        /\ phase[pidFile] = "serving" /\ phase[n] # "unborn"
    BY <1>0, <1>2 DEF Alone, Handing, Newcomer
  <2>3. Two(n)' /\ Alone(n)'
    BY <1>0, <2>1, <2>2 DEF Stage, Two, Alone
  <2>. QED
    BY <1>0, <2>1, <2>2, <2>3, SameNewest DEF Stage
<1>. QED
  BY <1>3, <1>4

LEMMA HandoverInvariance == ASSUME ~Overlap PROVE Spec => []Handover
<1>1. Init /\ Base => Handover
  <2>. SUFFICES ASSUME Init PROVE Handover
    OBVIOUS
  <2>1. 1 \in Instance /\ Born(1)
    BY HandoffAssumption DEF Init, Born, Instance
  <2>2. Two(1) /\ Alone(1)
    BY <2>1 DEF Init, Two, Alone, Instance
  <2>. QED
    BY <2>1, <2>2 DEF Handover, Stage
<1>2. Base /\ Base' /\ Handover /\ [Next]_vars => Handover'
  <2>. SUFFICES ASSUME Base, Base', Handover, [Next]_vars PROVE Handover'
    OBVIOUS
  <2>1. ASSUME NEW p \in Instance, Proceeds(p) PROVE Handover'
    BY <2>1, HandOffStage, NewcomerStage, OldStage, WaitStage DEF Proceeds
  <2>2. ASSUME NEW p \in Instance, NEW m \in Message, TurnStarts(p, m) \/ TurnEnds(p, m)
        PROVE  Handover'
    BY <2>2, SameStage DEF TurnStarts, TurnEnds, asked
  <2>3. CASE UNCHANGED vars
    BY <2>3, SameStage DEF vars, asked
  <2>. QED
    BY <2>1, <2>2, <2>3, AskedStage DEF Next
<1>. QED
  BY <1>1, <1>2, BaseInvariance, PTL DEF Spec

(* Two instances never poll, nor bind the port, at once: for any number of  *)
(* restarts one after the other, however each of them fails.                *)
THEOREM OneServes == ASSUME ~Overlap PROVE Spec => []OneServer
<1>1. Base /\ Handover => OneServer
  BY OnlyOne
<1>. QED
  BY <1>1, BaseInvariance, HandoverInvariance, PTL

(* And there is always one that serves, or that can no longer fail to.      *)
THEOREM SomeoneServes == ASSUME ~Overlap PROVE Spec => []NeverWithout
<1>1. Base /\ Handover => NeverWithout
  BY OnlyOne
<1>. QED
  BY <1>1, BaseInvariance, HandoverInvariance, PTL
=============================================================================
