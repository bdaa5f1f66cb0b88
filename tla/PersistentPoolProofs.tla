------------------------ MODULE PersistentPoolProofs ------------------------
(***************************************************************************)
(* Theorems about the resident processes, for any number of conversations, *)
(* signatures, turns and events and any cap.                               *)
(***************************************************************************)
EXTENDS PersistentPool, SequenceTheorems, FiniteSetTheorems, WellFoundedInduction, TLAPS

(* The parts of TypeOK.                                                     *)
PoolTyped ==
    /\ pool \in [Conv -> Turn \cup {None}]
    /\ sig \in [Turn -> Sig \cup {None}]
    /\ busy \in [Turn -> BOOLEAN]
    /\ timer \in [Turn -> {"off", "armed", "fired"}]
    /\ \A e \in Turn : /\ busy[e] => e \in Pooled
                       /\ timer[e] = "armed" => e \in Idle
    /\ lastUsed \in SUBSET (Idle \X Idle)

ProcState == {"none", "spawning", "up", "closing", "gone"}

ProcsTyped ==
    /\ state \in [Turn -> ProcState]
    /\ inbox \in [Turn -> Turn \cup {None}] /\ work \in [Turn -> Turn \cup {None}]
    /\ out \in [Turn -> Seq(Line)]

TurnState ==
    [phase: {"new", "acquire", "spawning", "checking", "reading", "draining", "answered",
             "failed", "oneshot"},
     conv: Conv \cup {None}, sig: Sig \cup {None}, proc: Turn \cup {None},
     reused: BOOLEAN, again: BOOLEAN, sent: {"no", "ok", "failed"},
     started: BOOLEAN, output: BOOLEAN, answer: Turn \cup {None}]

OptionsTyped == enabled \in BOOLEAN /\ closed \in BOOLEAN /\ events \in Nat

Typed == PoolTyped /\ ProcsTyped /\ turn \in [Turn -> TurnState] /\ OptionsTyped

(* They are all of it.                                                      *)
LEMMA TypedIsTypeOK == Typed <=> TypeOK
  BY DEF Typed, PoolTyped, ProcsTyped, ProcState, TurnState, OptionsTyped, TypeOK

(* Who works with a process.                                                *)
Works(t) == turn[t].phase \in {"spawning", "checking", "reading", "draining"}

(* A turn that works with a process of the pool has it for itself, and only *)
(* a turn that has never started a process may start one.                   *)
Working(t) ==
    /\ Works(t) => /\ turn[t].proc \in Turn /\ turn[t].conv \in Conv /\ turn[t].sig \in Sig
                   /\ state[turn[t].proc] # "none"
    /\ turn[t].phase \in {"spawning", "checking", "reading"} /\ ~closed =>
         pool[turn[t].conv] = turn[t].proc /\ busy[turn[t].proc]
    /\ turn[t].phase = "spawning" => turn[t].proc = t /\ state[t] = "spawning"
    /\ turn[t].phase = "draining" => \A c \in Conv : pool[c] # turn[t].proc
    /\ turn[t].phase \in {"new", "acquire"} \/ (Works(t) /\ turn[t].reused)
         => state[t] = "none"
    /\ turn[t].phase = "acquire" => turn[t].conv \in Conv /\ turn[t].sig \in Sig

(* A process is one turn's and one conversation's, and what is pooled is    *)
(* not on its way out.                                                      *)
Apart ==
    /\ \A t, u \in Turn : Works(t) /\ Works(u) /\ turn[t].proc = turn[u].proc => t = u
    /\ \A c, d \in Conv : pool[c] = pool[d] /\ pool[c] # None => c = d
    /\ \A c \in Conv : pool[c] # None => state[pool[c]] \notin {"none", "closing"}

Inv == Typed /\ (\A t \in Turn : Working(t)) /\ Apart

(* What a step that takes the processes E out of the pool may do to a turn: *)
(* leave it alone with the process it has, or end it, or move it on.        *)
Same(u) ==
    /\ turn'[u].conv = turn[u].conv /\ turn'[u].sig = turn[u].sig
    /\ turn'[u].proc = turn[u].proc /\ turn'[u].reused = turn[u].reused

Kept(u, E) ==
    closed' \/ (turn[u].proc \notin E /\ (busy[turn[u].proc] => busy'[turn[u].proc]))

Goes(u, E) ==
    \/ turn'[u].phase \in {"answered", "failed", "oneshot"}
    \/ /\ Same(u) /\ turn'[u].phase = turn[u].phase
       /\ turn[u].phase \in {"spawning", "checking", "reading"} => Kept(u, E)
    \/ /\ Same(u) /\ turn[u].phase \in {"spawning", "checking"}
       /\ turn'[u].phase = "reading" /\ Kept(u, E)
    \/ /\ Same(u) /\ turn[u].phase = "reading" /\ turn[u].proc \in E
       /\ turn'[u].phase = "draining"
    \/ /\ Works(u) /\ turn[u].reused /\ turn'[u].phase = "acquire"
       /\ turn'[u].conv = turn[u].conv /\ turn'[u].sig = turn[u].sig
    \/ /\ turn[u].phase = "new" /\ turn'[u].phase = "acquire"
       /\ turn'[u].conv \in Conv /\ turn'[u].sig \in Sig

Takes(E) ==
    /\ \A c \in Conv : pool'[c] = IF pool[c] \in E THEN None ELSE pool[c]
    /\ closed => closed'
    /\ \A x \in Turn : state'[x] # state[x] =>
         /\ state[x] # "none" /\ state'[x] \in {"up", "closing", "gone"}
         /\ state'[x] = "closing" => x \in E
         /\ state[x] = "spawning" => turn'[x].phase # "spawning"
    /\ \A u \in Turn : Goes(u, E)

(* What is removed is no longer pooled.                                     *)
LEMMA Removed ==
  ASSUME PoolTyped, NEW E \in SUBSET Turn, Remove(E)
  PROVE  /\ PoolTyped'
         /\ Pooled' = Pooled \ E /\ Idle' = Idle \ E
         /\ \A c \in Conv : pool'[c] = IF pool[c] \in E THEN None ELSE pool[c]
         /\ \A e \in Turn : busy'[e] <=> busy[e] /\ e \notin E
<1>0. None \notin Turn
  BY PoolAssumption DEF None, Turn
<1>1. /\ \A c \in Conv : pool'[c] = IF pool[c] \in E THEN None ELSE pool[c]
      /\ \A e \in Turn : busy'[e] <=> busy[e] /\ e \notin E
      /\ \A e \in Turn : timer'[e] = IF e \in E THEN "off" ELSE timer[e]
  BY DEF Remove, PoolTyped
<1>2. Pooled' = Pooled \ E
  BY <1>0, <1>1 DEF Pooled
<1>3. Idle' = Idle \ E
  BY <1>1, <1>2 DEF Idle, Pooled
<1>4. /\ pool' \in [Conv -> Turn \cup {None}] /\ sig' \in [Turn -> Sig \cup {None}]
      /\ busy' \in [Turn -> BOOLEAN] /\ timer' \in [Turn -> {"off", "armed", "fired"}]
  BY DEF Remove, PoolTyped
<1>5. \A e \in Turn : (busy'[e] => e \in Pooled') /\ (timer'[e] = "armed" => e \in Idle')
  BY <1>1, <1>2, <1>3 DEF PoolTyped
<1>6. lastUsed' \in SUBSET (Idle' \X Idle')
  BY <1>3 DEF Remove, Without, PoolTyped
<1>. QED
  BY <1>1, <1>2, <1>3, <1>4, <1>5, <1>6 DEF PoolTyped

(* A process that is killed.                                                *)
LEMMA Killed ==
  ASSUME ProcsTyped, NEW e \in Turn, Kill(e)
  PROVE  ProcsTyped'
BY DEF ProcsTyped, ProcState, Kill

(* Processes that are retired.                                              *)
LEMMA RetiredTyped ==
  ASSUME ProcsTyped, NEW E
  PROVE  Retired(E) \in [Turn -> ProcState]
BY DEF ProcsTyped, ProcState, Retired

(* A turn that starts, ends or gives up.                                    *)
LEMMA TurnStates ==
  ASSUME turn \in [Turn -> TurnState], NEW t \in Turn
  PROVE  /\ NewTurn \in TurnState
         /\ \A p \in {"answered", "failed", "oneshot"} :
              Over(p) \in TurnState /\ [turn EXCEPT ![t] = Over(p)] \in [Turn -> TurnState]
         /\ \A p \in {"spawning", "checking", "reading", "draining"} :
              [turn EXCEPT ![t].phase = p] \in [Turn -> TurnState]
         /\ GiveUp(t) => turn' \in [Turn -> TurnState]
<1>1. NewTurn \in TurnState
  BY DEF NewTurn, TurnState
<1>2. \A p \in {"answered", "failed", "oneshot"} : Over(p) \in TurnState
  BY DEF Over, NewTurn, TurnState
<1>3. \A p \in {"spawning", "checking", "reading", "draining"} :
         [turn EXCEPT ![t].phase = p] \in [Turn -> TurnState]
  BY DEF TurnState
<1>4. GiveUp(t) => turn' \in [Turn -> TurnState]
  <2>. DEFINE again == [NewTurn EXCEPT !.phase = "acquire", !.conv = turn[t].conv,
                                !.sig = turn[t].sig, !.again = TRUE,
                                !.output = turn[t].output]
  <2>1. turn[t].conv \in Conv \cup {None} /\ turn[t].sig \in Sig \cup {None}
        /\ turn[t].output \in BOOLEAN
    BY DEF TurnState
  <2>2. again \in TurnState
    BY <2>1 DEF NewTurn, TurnState
  <2>3. GiveUp(t) => turn' = [turn EXCEPT ![t] = Over("failed")]
                     \/ turn' = [turn EXCEPT ![t] = again]
    BY DEF GiveUp, EndAs
  <2>. QED
    BY <1>2, <2>2, <2>3
<1>. QED
  BY <1>1, <1>2, <1>3, <1>4

-----------------------------------------------------------------------------
(* A step that only takes processes out of the pool keeps the rest apart.   *)
LEMMA Taken ==
  ASSUME Inv, Typed', NEW E \in SUBSET Turn, Takes(E)
  PROVE  Inv'
<1>0. None \notin Turn
  BY PoolAssumption DEF None, Turn
<1>. USE DEF Inv
<1>1. \A c \in Conv : pool'[c] \in {pool[c], None} /\ (pool'[c] # None => pool'[c] \notin E)
  BY <1>0 DEF Takes
<1>2. ASSUME NEW u \in Turn PROVE Working(u)'
  <2>. USE DEF Working, Works
  <2>0. /\ Working(u) /\ Goes(u, E) /\ (closed => closed')
        /\ \A x \in Turn : state[x] # "none" => state'[x] # "none"
        /\ state[u] = "none" => state'[u] = "none"
        /\ state[u] = "spawning" /\ turn'[u].phase = "spawning" => state'[u] = "spawning"
    BY DEF Takes, Typed, ProcsTyped
  <2>1. Works(u)' => /\ turn'[u].proc \in Turn /\ turn'[u].conv \in Conv
       /\ turn'[u].sig \in Sig
                     /\ state'[turn'[u].proc] # "none"
    BY <2>0 DEF Goes, Same
  <2>2. turn'[u].phase \in {"spawning", "checking", "reading"} /\ ~closed' =>
           pool'[turn'[u].conv] = turn'[u].proc /\ busy'[turn'[u].proc]
    BY <2>0 DEF Goes, Same, Kept, Takes
  <2>3. turn'[u].phase = "spawning" => turn'[u].proc = u /\ state'[u] = "spawning"
    BY <2>0 DEF Goes, Same
  <2>4. turn'[u].phase = "draining" => \A c \in Conv : pool'[c] # turn'[u].proc
    BY <1>0, <1>1, <2>0 DEF Goes, Same
  <2>5. turn'[u].phase \in {"new", "acquire"} \/ (Works(u)' /\ turn'[u].reused)
           => state'[u] = "none"
    BY <2>0 DEF Goes, Same
  <2>6. turn'[u].phase = "acquire" => turn'[u].conv \in Conv /\ turn'[u].sig \in Sig
    BY <2>0 DEF Goes, Same
  <2>. QED
    BY <2>1, <2>2, <2>3, <2>4, <2>5, <2>6
<1>3. \A t, u \in Turn : Works(t)' /\ Works(u)' /\ turn'[t].proc = turn'[u].proc => t = u
  <2>1. \A t \in Turn : Works(t)' => Works(t) /\ turn'[t].proc = turn[t].proc
    BY DEF Takes, Goes, Same, Works
  <2>. QED
    BY <2>1 DEF Apart
<1>4. \A c, d \in Conv : pool'[c] = pool'[d] /\ pool'[c] # None => c = d
  BY <1>1 DEF Apart
<1>5. \A c \in Conv : pool'[c] # None => state'[pool'[c]] \notin {"none", "closing"}
  BY <1>1 DEF Apart, Takes, Typed, PoolTyped
<1>. QED
  BY <1>2, <1>3, <1>4, <1>5 DEF Apart

-----------------------------------------------------------------------------
(* The steps of a turn that ask for a process.                              *)
LEMMA UnchangedPool ==
  ASSUME PoolTyped, UNCHANGED poolVars
  PROVE  PoolTyped' /\ Pooled' = Pooled /\ Idle' = Idle
BY DEF PoolTyped, poolVars, Pooled, Idle

LEMMA StartStep ==
  ASSUME Inv, NEW t \in Turn, NEW c \in Conv, NEW s \in Sig, Start(t, c, s)
  PROVE  Inv'
<1>. USE DEF Inv, Typed
<1>0. turn[t] \in TurnState /\ turn[t].phase = "new"
  BY DEF Start
<1>1. CASE enabled
  <2>0. [turn[t] EXCEPT !.phase = "acquire", !.conv = c, !.sig = s] \in TurnState
    BY <1>0 DEF TurnState
  <2>1. turn' = [turn EXCEPT ![t] = [turn[t] EXCEPT !.phase = "acquire", !.conv = c, !.sig = s]]
        /\ UNCHANGED <<poolVars, state>>
    BY <1>1 DEF Start
  <2>2. turn' \in [Turn -> TurnState]
    BY <2>0, <2>1
  <2>3. PoolTyped'
    BY <2>1, UnchangedPool
  <2>4. ProcsTyped' /\ OptionsTyped'
    BY <2>1 DEF Start, ProcsTyped, OptionsTyped
  <2>5. /\ turn'[t].phase = "acquire" /\ turn'[t].conv = c /\ turn'[t].sig = s
        /\ \A u \in Turn \ {t} : turn'[u] = turn[u]
    BY <1>0, <2>1 DEF TurnState
  <2>6. Takes({})
    BY <1>0, <2>1, <2>5 DEF Start, Takes, Goes, Same, Kept, poolVars, PoolTyped
  <2>. QED
    BY <2>2, <2>3, <2>4, <2>6, Taken
<1>2. CASE ~enabled
  <2>1. EndAs(t, "oneshot") /\ Remove(Idle) /\ state' = Retired(Idle)
        /\ UNCHANGED <<inbox, work, out, enabled, closed, events>>
    BY <1>2 DEF Start
  <2>2. turn' = [turn EXCEPT ![t] = Over("oneshot")] /\ turn' \in [Turn -> TurnState]
    BY <2>1, TurnStates DEF EndAs
  <2>3. Idle \in SUBSET Turn /\ \A e \in Idle : ~busy[e]
    BY DEF Idle, Pooled
  <2>4. PoolTyped' /\ (\A d \in Conv : pool'[d] = IF pool[d] \in Idle THEN None ELSE pool[d])
        /\ \A e \in Turn : busy'[e] <=> busy[e] /\ e \notin Idle
    BY <2>1, <2>3, Removed
  <2>5. ProcsTyped' /\ OptionsTyped'
    BY <2>1, RetiredTyped DEF ProcsTyped, OptionsTyped
  <2>6. turn'[t].phase = "oneshot" /\ \A u \in Turn \ {t} : turn'[u] = turn[u]
    BY <2>2 DEF Over, NewTurn
  <2>7. ASSUME NEW u \in Turn PROVE Goes(u, Idle)
    BY <2>1, <2>3, <2>4, <2>6 DEF Goes, Same, Kept, Working, Works
  <2>8. \A x \in Turn : state'[x] # state[x] =>
           state[x] = "up" /\ state'[x] = "closing" /\ x \in Idle
    BY <2>1 DEF Retired, ProcsTyped
  <2>9. Takes(Idle)
    BY <2>1, <2>4, <2>7, <2>8 DEF Takes
  <2>. QED
    BY <2>2, <2>3, <2>4, <2>5, <2>9, Taken
<1>. QED
  BY <1>1, <1>2

LEMMA RefusedStep ==
  ASSUME Inv, NEW t \in Turn, Refused(t)
  PROVE  Inv'
<1>. USE DEF Inv, Typed
<1>1. turn' = [turn EXCEPT ![t] = Over("oneshot")] /\ turn' \in [Turn -> TurnState]
      /\ UNCHANGED <<poolVars, procVars, enabled, closed, events>>
  BY TurnStates DEF Refused, EndAs
<1>2. PoolTyped' /\ ProcsTyped' /\ OptionsTyped'
  BY <1>1, UnchangedPool DEF procVars, ProcsTyped, OptionsTyped
<1>3. turn'[t].phase = "oneshot" /\ \A u \in Turn \ {t} : turn'[u] = turn[u]
  BY <1>1 DEF Over, NewTurn
<1>4. Takes({})
  BY <1>1, <1>3 DEF Takes, Goes, Same, Kept, poolVars, procVars, PoolTyped
<1>. QED
  BY <1>1, <1>2, <1>4, Taken

LEMMA ReuseStep ==
  ASSUME Inv, NEW t \in Turn, Reuse(t)
  PROVE  Inv'
<1>. USE DEF Inv, Typed
<1>. DEFINE e == pool[turn[t].conv]
<1>0. None \notin Turn
  BY PoolAssumption DEF None, Turn
<1>1. turn[t] \in TurnState /\ turn[t].phase = "acquire" /\ turn[t].conv \in Conv
      /\ turn[t].sig \in Sig /\ state[t] = "none" /\ ~closed
  BY DEF Reuse, Working
<1>2. e \in Turn /\ ~busy[e] /\ e \in Idle /\ state[e] \notin {"none", "closing"}
  BY <1>0, <1>1 DEF Reuse, Usable, Idle, Pooled, PoolTyped, Apart
<1>3. [turn[t] EXCEPT !.phase = "checking", !.proc = e, !.reused = TRUE] \in TurnState
  BY <1>1, <1>2 DEF TurnState
<1>4. /\ busy' = [busy EXCEPT ![e] = TRUE] /\ timer' = StopTimer(e) /\ lastUsed' = Without({e})
      /\ turn' = [turn EXCEPT ![t] = [turn[t] EXCEPT !.phase = "checking",
                                         !.proc = e, !.reused = TRUE]]
      /\ UNCHANGED <<pool, sig, procVars, enabled, closed, events>>
  BY DEF Reuse
<1>. HIDE DEF e
<1>5. turn' \in [Turn -> TurnState]
  BY <1>3, <1>4
<1>6. Pooled' = Pooled /\ Idle' = Idle \ {e}
  BY <1>2, <1>4 DEF Pooled, Idle, PoolTyped
<1>7. PoolTyped'
  BY <1>2, <1>4, <1>6 DEF PoolTyped, StopTimer, Without, Idle
<1>8. Typed'
  BY <1>4, <1>5, <1>7 DEF procVars, ProcsTyped, OptionsTyped
<1>9. /\ turn'[t].phase = "checking" /\ turn'[t].proc = e /\ turn'[t].reused
      /\ turn'[t].conv = turn[t].conv /\ turn'[t].sig = turn[t].sig
      /\ \A u \in Turn \ {t} : turn'[u] = turn[u]
  BY <1>1, <1>4 DEF TurnState
<1>10. pool[turn[t].conv] = e
  BY DEF e
<1>11. \A u \in Turn : Works(u) => turn[u].proc # e
  BY <1>0, <1>1, <1>2, <1>10 DEF Working, Works
<1>12. ASSUME NEW u \in Turn PROVE Working(u)'
  <2>1. CASE u = t
    BY <1>1, <1>2, <1>4, <1>9, <1>10, <2>1 DEF Working, Works, procVars, PoolTyped
  <2>2. CASE u # t
    BY <1>4, <1>9, <2>2 DEF Working, Works, procVars, PoolTyped
  <2>. QED
    BY <2>1, <2>2
<1>13. \A u, v \in Turn : Works(u)' /\ Works(v)' /\ turn'[u].proc = turn'[v].proc => u = v
  BY <1>9, <1>11 DEF Works, Apart
<1>. QED
  BY <1>4, <1>8, <1>12, <1>13 DEF Apart, procVars

LEMMA SpawnStep ==
  ASSUME Inv, NEW t \in Turn, Spawn(t)
  PROVE  Inv'
<1>. USE DEF Inv, Typed
<1>. DEFINE c == turn[t].conv
            stale == {pool[c]} \ {None}
            E == stale \cup RoomIn(Pooled \ stale)
<1>0. None \notin Turn
  BY PoolAssumption DEF None, Turn
<1>1. turn[t] \in TurnState /\ turn[t].phase = "acquire" /\ ~closed
      /\ c \in Conv /\ turn[t].sig \in Sig /\ state[t] = "none"
  BY DEF Spawn, Working
<1>2. E \subseteq Idle /\ E \subseteq Turn /\ t \notin E /\ \A d \in Conv : pool[d] # t
  BY <1>0, <1>1 DEF Spawn, RoomIn, Idle, Pooled, PoolTyped, Apart
<1>3. pool' = [[d \in Conv |-> IF pool[d] \in E THEN None ELSE pool[d]] EXCEPT ![c] = t]
  BY DEF Spawn
<1>4. sig' = [[x \in Turn |-> IF x \in E THEN None ELSE sig[x]] EXCEPT ![t] = turn[t].sig]
  BY DEF Spawn
<1>5. /\ busy' = [x \in Turn |-> x = t \/ (busy[x] /\ x \notin E)]
      /\ timer' = [x \in Turn |-> IF x \in E THEN "off" ELSE timer[x]]
      /\ lastUsed' = Without(E)
      /\ state' = [Retired(E) EXCEPT ![t] = "spawning"]
      /\ UNCHANGED <<inbox, work, out, enabled, closed, events>>
  BY DEF Spawn
<1>6. pool[c] = None \/ pool[c] \in E
  OBVIOUS
<1>7. turn' = [turn EXCEPT ![t] = [turn[t] EXCEPT !.phase = "spawning", !.proc = t,
                                                 !.reused = FALSE]]
  BY DEF Spawn
<1>. HIDE DEF c, stale, E
<1>8. /\ \A d \in Conv : pool'[d] =
           IF d = c THEN t ELSE IF pool[d] \in E THEN None ELSE pool[d]
      /\ pool' \in [Conv -> Turn \cup {None}] /\ sig' \in [Turn -> Sig \cup {None}]
  <2>1. \A d \in Conv : pool'[d] =
           IF d = c THEN t ELSE IF pool[d] \in E THEN None ELSE pool[d]
    BY <1>3
  <2>2. \A x \in Turn : sig'[x] =
           IF x = t THEN turn[t].sig ELSE IF x \in E THEN None ELSE sig[x]
    BY <1>4
  <2>3. pool' \in [Conv -> Turn \cup {None}]
    BY <1>3, <2>1 DEF PoolTyped
  <2>4. sig' \in [Turn -> Sig \cup {None}]
    BY <1>1, <1>4, <2>2 DEF PoolTyped
  <2>. QED
    BY <2>1, <2>3, <2>4
<1>9. /\ \A x \in Turn : busy'[x] <=> x = t \/ (busy[x] /\ x \notin E)
      /\ \A x \in Turn : timer'[x] = IF x \in E THEN "off" ELSE timer[x]
      /\ busy' \in [Turn -> BOOLEAN] /\ timer' \in [Turn -> {"off", "armed", "fired"}]
  BY <1>5 DEF PoolTyped
<1>10. Pooled' = (Pooled \ E) \cup {t}
  BY <1>0, <1>1, <1>2, <1>6, <1>8 DEF Pooled
<1>11. Idle' = Idle \ E
  BY <1>2, <1>9, <1>10 DEF Idle, Pooled
<1>12. PoolTyped'
  <2>1. \A e \in Turn : (busy'[e] => e \in Pooled') /\ (timer'[e] = "armed" => e \in Idle')
    BY <1>9, <1>10, <1>11 DEF PoolTyped
  <2>2. lastUsed' \in SUBSET (Idle' \X Idle')
    BY <1>5, <1>11 DEF Without, PoolTyped
  <2>. QED
    BY <1>8, <1>9, <2>1, <2>2 DEF PoolTyped
<1>13. Retired(E) \in [Turn -> ProcState]
  BY RetiredTyped
<1>14. ProcsTyped'
  BY <1>5, <1>13 DEF ProcsTyped, ProcState
<1>15. [turn[t] EXCEPT !.phase = "spawning", !.proc = t, !.reused = FALSE] \in TurnState
  BY <1>1 DEF TurnState
<1>16. Typed'
  BY <1>5, <1>7, <1>12, <1>14, <1>15 DEF OptionsTyped
<1>17. /\ turn'[t].phase = "spawning" /\ turn'[t].proc = t /\ ~turn'[t].reused
       /\ turn'[t].conv = c /\ turn'[t].sig = turn[t].sig
       /\ \A u \in Turn \ {t} : turn'[u] = turn[u]
  BY <1>1, <1>7 DEF TurnState, c
<1>18. /\ state'[t] = "spawning"
       /\ \A x \in Turn \ {t} : state'[x] = IF x \in E /\ state[x] = "up" THEN "closing"
                                                                        ELSE state[x]
  BY <1>5, <1>13 DEF Retired
<1>19. \A u \in Turn : Works(u) => turn[u].proc # t
  BY <1>1 DEF Working, Works
<1>20. ASSUME NEW u \in Turn PROVE Working(u)'
  <2>1. CASE u = t
    BY <1>1, <1>8, <1>9, <1>17, <1>18, <2>1 DEF Working, Works
  <2>2. CASE u # t
    <3>1. Working(u) /\ turn'[u] = turn[u] /\ (state[u] = "none" => state'[u] = "none")
          /\ (state[u] = "spawning" => state'[u] = "spawning")
      BY <1>17, <1>18, <2>2
    <3>2. Works(u) => state'[turn[u].proc] # "none"
      BY <1>18, <1>19 DEF Working
    <3>3. turn[u].phase \in {"spawning", "checking", "reading"} =>
             pool'[turn[u].conv] = turn[u].proc /\ busy'[turn[u].proc]
      <4>. SUFFICES ASSUME turn[u].phase \in {"spawning", "checking", "reading"}
                    PROVE  pool'[turn[u].conv] = turn[u].proc /\ busy'[turn[u].proc]
        OBVIOUS
      <4>1. turn[u].proc \in Turn /\ turn[u].conv \in Conv /\ busy[turn[u].proc]
            /\ pool[turn[u].conv] = turn[u].proc
        BY <1>1 DEF Working, Works
      <4>2. turn[u].proc \notin E
        BY <1>2, <4>1 DEF Idle
      <4>3. turn[u].conv # c
        BY <1>0, <1>6, <4>1, <4>2
      <4>. QED
        BY <1>8, <1>9, <4>1, <4>2, <4>3
    <3>4. turn[u].phase = "draining" => \A d \in Conv : pool'[d] # turn[u].proc
      BY <1>0, <1>8, <1>19 DEF Working, Works
    <3>. QED
      BY <1>1, <1>5, <3>1, <3>2, <3>3, <3>4 DEF Working, Works
  <2>. QED
    BY <2>1, <2>2
<1>21. \A u, v \in Turn : Works(u)' /\ Works(v)' /\ turn'[u].proc = turn'[v].proc => u = v
  BY <1>17, <1>19 DEF Works, Apart
<1>22. \A d, f \in Conv : pool'[d] = pool'[f] /\ pool'[d] # None => d = f
  BY <1>2, <1>8 DEF Apart
<1>23. \A d \in Conv : pool'[d] # None => state'[pool'[d]] \notin {"none", "closing"}
  BY <1>0, <1>2, <1>8, <1>18 DEF Apart, PoolTyped
<1>. QED
  BY <1>16, <1>20, <1>21, <1>22, <1>23 DEF Apart

-----------------------------------------------------------------------------
(* The steps of a turn that has a process.                                  *)
LEMMA HasProcess ==
  ASSUME Inv, NEW t \in Turn, Works(t)
  PROVE  /\ turn[t].proc \in Turn /\ turn[t] \in TurnState /\ state[turn[t].proc] # "none"
         /\ turn[t].reused => state[t] = "none"
         /\ \A u \in Turn \ {t} :
              Works(u) => turn[u].proc \in Turn /\ turn[u].proc # turn[t].proc
BY DEF Inv, Working, Apart, Typed

LEMMA FieldsTyped ==
  ASSUME turn \in [Turn -> TurnState], NEW t \in Turn
  PROVE  /\ \A x \in {"no", "ok", "failed"} :
              [turn EXCEPT ![t].sent = x] \in [Turn -> TurnState]
         /\ \A x \in BOOLEAN : [turn EXCEPT ![t].started = x] \in [Turn -> TurnState]
         /\ \A x \in BOOLEAN : [turn EXCEPT ![t].output = x] \in [Turn -> TurnState]
         /\ \A x \in Turn \cup {None} :
              [turn EXCEPT ![t] = [Over("answered") EXCEPT !.answer = x]]
                 \in [Turn -> TurnState]
         /\ [turn EXCEPT ![t] = [turn[t] EXCEPT !.phase = "draining", !.output = TRUE]]
              \in [Turn -> TurnState]
<1>0. turn[t] \in TurnState
  OBVIOUS
<1>1. \A x \in {"no", "ok", "failed"} : [turn[t] EXCEPT !.sent = x] \in TurnState
  BY <1>0 DEF TurnState
<1>2. \A x \in BOOLEAN : [turn[t] EXCEPT !.started = x] \in TurnState
  BY <1>0 DEF TurnState
<1>3. \A x \in BOOLEAN : [turn[t] EXCEPT !.output = x] \in TurnState
  BY <1>0 DEF TurnState
<1>4. \A x \in Turn \cup {None} : [Over("answered") EXCEPT !.answer = x] \in TurnState
  BY DEF Over, NewTurn, TurnState
<1>5. [turn[t] EXCEPT !.phase = "draining", !.output = TRUE] \in TurnState
  BY <1>0 DEF TurnState
<1>. QED
  BY <1>1, <1>2, <1>3, <1>4, <1>5

(* A turn that gives up.                                                    *)
LEMMA GivesUp ==
  ASSUME Inv, NEW t \in Turn, Works(t), GiveUp(t)
  PROVE  /\ turn' \in [Turn -> TurnState]
         /\ \A u \in Turn \ {t} : turn'[u] = turn[u]
         /\ \/ turn'[t].phase = "failed"
            \/ /\ turn[t].reused /\ turn'[t].phase = "acquire"
               /\ turn'[t].conv = turn[t].conv /\ turn'[t].sig = turn[t].sig
<1>1. turn' \in [Turn -> TurnState]
  BY TurnStates DEF Inv, Typed
<1>2. \/ turn' = [turn EXCEPT ![t] = Over("failed")]
      \/ /\ turn[t].reused
         /\ turn' = [turn EXCEPT ![t] =
                [NewTurn EXCEPT !.phase = "acquire", !.conv = turn[t].conv,
                                !.sig = turn[t].sig, !.again = TRUE,
                                !.output = turn[t].output]]
  BY DEF GiveUp, EndAs, MayRetry
<1>. QED
  BY <1>1, <1>2 DEF Over, NewTurn, Inv, Typed

LEMMA SpawnFailsStep ==
  ASSUME Inv, NEW t \in Turn, SpawnFails(t)
  PROVE  Inv'
<1>. USE DEF Inv, Typed
<1>1. /\ Remove({t}) /\ state' = [state EXCEPT ![t] = "gone"]
      /\ turn' = [turn EXCEPT ![t] = Over("oneshot")] /\ turn' \in [Turn -> TurnState]
      /\ UNCHANGED <<inbox, work, out, enabled, closed, events>>
  BY TurnStates DEF SpawnFails, EndAs
<1>2. turn[t].phase = "spawning" /\ turn[t].proc = t /\ state[t] = "spawning"
  BY DEF SpawnFails, Working
<1>3. PoolTyped' /\ (\A d \in Conv : pool'[d] = IF pool[d] \in {t} THEN None ELSE pool[d])
      /\ \A e \in Turn : busy'[e] <=> busy[e] /\ e \notin {t}
  BY <1>1, Removed
<1>4. ProcsTyped' /\ OptionsTyped'
  BY <1>1 DEF ProcsTyped, ProcState, OptionsTyped
<1>5. turn'[t].phase = "oneshot" /\ \A u \in Turn \ {t} : turn'[u] = turn[u]
  BY <1>1 DEF Over, NewTurn
<1>6. \A u \in Turn \ {t} : Works(u) => turn[u].proc \in Turn \ {t}
  BY <1>2, HasProcess DEF Works
<1>7. ASSUME NEW u \in Turn PROVE Goes(u, {t})
  BY <1>3, <1>5, <1>6 DEF Goes, Same, Kept, Works
<1>8. Takes({t})
  BY <1>1, <1>2, <1>3, <1>5, <1>7 DEF Takes, ProcsTyped
<1>. QED
  BY <1>1, <1>3, <1>4, <1>8, Taken

LEMMA SpawnedStep ==
  ASSUME Inv, NEW t \in Turn, Spawned(t)
  PROVE  Inv'
<1>. USE DEF Inv, Typed
<1>1. turn[t].phase = "spawning" /\ turn[t].proc = t /\ state[t] = "spawning"
      /\ turn[t] \in TurnState
  BY DEF Spawned, Working
<1>2. UNCHANGED <<poolVars, inbox, work, out, enabled, closed, events>>
  BY DEF Spawned
<1>3. \/ state' = [state EXCEPT ![t] = "gone"] /\ turn' = [turn EXCEPT ![t] = Over("oneshot")]
      \/ state' = [state EXCEPT ![t] = "up"] /\ turn' = [turn EXCEPT ![t].phase = "reading"]
  BY DEF Spawned, EndAs, Goto
<1>4. turn' \in [Turn -> TurnState]
  <2>1. /\ [turn EXCEPT ![t] = Over("oneshot")] \in [Turn -> TurnState]
        /\ [turn EXCEPT ![t].phase = "reading"] \in [Turn -> TurnState]
    BY TurnStates
  <2>. QED
    BY <1>3, <2>1
<1>5. PoolTyped' /\ ProcsTyped' /\ OptionsTyped'
  BY <1>2, <1>3, UnchangedPool DEF ProcsTyped, ProcState, OptionsTyped
<1>6. /\ \A u \in Turn \ {t} : turn'[u] = turn[u]
      /\ turn'[t].phase = "oneshot" \/ (turn'[t].phase = "reading" /\ Same(t))
  BY <1>1, <1>3 DEF Over, NewTurn, TurnState, Same
<1>7. ASSUME NEW u \in Turn PROVE Goes(u, {})
  BY <1>1, <1>2, <1>6 DEF Goes, Same, Kept, poolVars
<1>8. \A x \in Turn \ {t} : state'[x] = state[x]
  BY <1>3 DEF ProcsTyped
<1>9. state'[t] \in {"up", "gone"}
  BY <1>3 DEF ProcsTyped
<1>10. Takes({})
  BY <1>1, <1>2, <1>6, <1>7, <1>8, <1>9 DEF Takes, poolVars, PoolTyped
<1>. QED
  BY <1>4, <1>5, <1>10, Taken

LEMMA CheckStep ==
  ASSUME Inv, NEW t \in Turn, Check(t)
  PROVE  Inv'
<1>. USE DEF Inv, Typed
<1>. DEFINE e == turn[t].proc
<1>0. turn[t].phase = "checking" /\ Works(t) /\ turn[t] \in TurnState
      /\ UNCHANGED <<enabled, closed, events>>
  BY DEF Check, Works
<1>1. e \in Turn /\ state[e] # "none"
      /\ \A u \in Turn \ {t} : Works(u) => turn[u].proc \in Turn \ {e}
  BY <1>0, HasProcess
<1>2. CASE /\ Goto(t, "reading") /\ out' = [out EXCEPT ![e] = <<>>]
           /\ UNCHANGED <<pool, sig, busy, timer, lastUsed, state, inbox, work>>
  <2>1. turn' = [turn EXCEPT ![t].phase = "reading"] /\ turn' \in [Turn -> TurnState]
    BY <1>2, TurnStates DEF Goto
  <2>a. PoolTyped'
    BY <1>2, UnchangedPool DEF poolVars
  <2>b. ProcsTyped'
    BY <1>1, <1>2 DEF ProcsTyped
  <2>2. PoolTyped' /\ ProcsTyped' /\ OptionsTyped'
    BY <1>0, <2>a, <2>b DEF OptionsTyped
  <2>3. (\A u \in Turn \ {t} : turn'[u] = turn[u]) /\ turn'[t].phase = "reading" /\ Same(t)
    BY <1>0, <2>1 DEF TurnState, Same
  <2>4. ASSUME NEW u \in Turn PROVE Goes(u, {})
    BY <1>0, <1>2, <2>3 DEF Goes, Same, Kept
  <2>5. Takes({})
    BY <1>0, <1>2, <2>4 DEF Takes, PoolTyped
  <2>. QED
    BY <2>1, <2>2, <2>5, Taken
<1>3. CASE Remove({e}) /\ Kill(e) /\ GiveUp(t)
  <2>1. PoolTyped' /\ (\A d \in Conv : pool'[d] = IF pool[d] \in {e} THEN None ELSE pool[d])
        /\ \A x \in Turn : busy'[x] <=> busy[x] /\ x \notin {e}
    BY <1>1, <1>3, Removed
  <2>2. ProcsTyped' /\ OptionsTyped'
    BY <1>0, <1>1, <1>3, Killed DEF OptionsTyped
  <2>3. turn' \in [Turn -> TurnState] /\ (\A u \in Turn \ {t} : turn'[u] = turn[u])
        /\ \/ turn'[t].phase = "failed"
           \/ /\ turn[t].reused /\ turn'[t].phase = "acquire"
              /\ turn'[t].conv = turn[t].conv /\ turn'[t].sig = turn[t].sig
    BY <1>0, <1>3, GivesUp
  <2>4. ASSUME NEW u \in Turn PROVE Goes(u, {e})
    BY <1>0, <1>1, <2>1, <2>3 DEF Goes, Same, Kept, Works
  <2>5. state'[e] = "gone" /\ \A x \in Turn \ {e} : state'[x] = state[x]
    BY <1>1, <1>3 DEF Kill, ProcsTyped
  <2>6. \A x \in Turn : state[x] = "spawning" /\ x = e => turn'[x].phase # "spawning"
    BY <1>0, <1>1, <2>3 DEF Works, Working
  <2>7. Takes({e})
    BY <1>0, <1>1, <2>1, <2>4, <2>5, <2>6 DEF Takes
  <2>. QED
    BY <1>1, <2>1, <2>2, <2>3, <2>7, Taken
<1>. QED
  BY <1>2, <1>3 DEF Check

LEMMA SendStep ==
  ASSUME Inv, NEW t \in Turn, Send(t)
  PROVE  Inv'
<1>. USE DEF Inv, Typed
<1>0. turn[t].phase = "reading" /\ Works(t) /\ turn[t] \in TurnState /\ turn[t].proc \in Turn
  BY HasProcess DEF Send, Works
<1>1. /\ UNCHANGED <<poolVars, state, work, out, enabled, closed, events>>
      /\ inbox' \in {inbox, [inbox EXCEPT ![turn[t].proc] = t]}
      /\ \E x \in {"ok", "failed"} : turn' = [turn EXCEPT ![t].sent = x]
  BY DEF Send
<1>2. turn' \in [Turn -> TurnState]
  <2>1. \A x \in {"no", "ok", "failed"} : [turn EXCEPT ![t].sent = x] \in [Turn -> TurnState]
    BY FieldsTyped
  <2>. QED
    BY <1>1, <2>1
<1>3. PoolTyped' /\ ProcsTyped' /\ OptionsTyped'
  BY <1>0, <1>1, UnchangedPool DEF ProcsTyped, OptionsTyped
<1>4. \A u \in Turn : Same(u) /\ turn'[u].phase = turn[u].phase
  BY <1>0, <1>1 DEF TurnState, Same
<1>5. Takes({})
  BY <1>1, <1>4 DEF Takes, Goes, Kept, poolVars, PoolTyped
<1>. QED
  BY <1>2, <1>3, <1>5, Taken

(* A turn that leaves its process to be retired, and reads on.              *)
LEMMA LeavesIt ==
  ASSUME Inv, NEW t \in Turn, turn[t].phase = "reading", Remove({turn[t].proc}),
         state' = Retired({turn[t].proc}),
         turn' \in [Turn -> TurnState], ProcsTyped', OptionsTyped', closed' = closed,
         \A u \in Turn \ {t} : turn'[u] = turn[u],
         \/ turn'[t].phase \in {"answered", "failed"}
         \/ turn'[t].phase = "draining" /\ Same(t)
  PROVE  Inv'
<1>. USE DEF Inv, Typed
<1>. DEFINE e == turn[t].proc
<1>1. e \in Turn /\ state[e] # "none"
      /\ \A u \in Turn \ {t} : Works(u) => turn[u].proc \in Turn \ {e}
  BY HasProcess DEF Works
<1>2. PoolTyped' /\ (\A d \in Conv : pool'[d] = IF pool[d] \in {e} THEN None ELSE pool[d])
      /\ \A x \in Turn : busy'[x] <=> busy[x] /\ x \notin {e}
  BY <1>1, Removed
<1>3. ASSUME NEW u \in Turn PROVE Goes(u, {e})
  BY <1>1, <1>2 DEF Goes, Same, Kept, Works
<1>4. \A x \in Turn : state'[x] # state[x] =>
         state[x] = "up" /\ state'[x] = "closing" /\ x \in {e}
  BY DEF Retired, ProcsTyped
<1>5. Takes({e})
  BY <1>2, <1>3, <1>4 DEF Takes
<1>. QED
  BY <1>1, <1>2, <1>5, Taken

LEMMA SendFailedStep ==
  ASSUME Inv, NEW t \in Turn, SendFailed(t)
  PROVE  Inv'
<1>. USE DEF Inv, Typed
<1>1. /\ turn[t].phase = "reading" /\ Remove({turn[t].proc})
      /\ state' = Retired({turn[t].proc}) /\ turn' = [turn EXCEPT ![t].phase = "draining"]
      /\ UNCHANGED <<inbox, work, out, enabled, closed, events>>
  BY DEF SendFailed, Goto
<1>2. turn' \in [Turn -> TurnState]
  BY <1>1, TurnStates
<1>3. ProcsTyped' /\ OptionsTyped'
  BY <1>1, RetiredTyped DEF ProcsTyped, OptionsTyped
<1>4. (\A u \in Turn \ {t} : turn'[u] = turn[u]) /\ turn'[t].phase = "draining" /\ Same(t)
  BY <1>1 DEF TurnState, Same
<1>. QED
  BY <1>1, <1>2, <1>3, <1>4, LeavesIt

LEMMA ReadStep ==
  ASSUME Inv, NEW t \in Turn, Read(t)
  PROVE  Inv'
<1>. USE DEF Inv, Typed
<1>. DEFINE e == turn[t].proc
            line == Head(out[e])
<1>0. turn[t].phase = "reading" /\ Works(t) /\ turn[t] \in TurnState
      /\ out' = [out EXCEPT ![e] = Tail(@)] /\ out[e] # <<>>
      /\ UNCHANGED <<inbox, work, enabled, closed, events>>
  BY DEF Read, Works
<1>1. e \in Turn /\ state[e] # "none"
      /\ \A u \in Turn \ {t} : Works(u) => turn[u].proc \in Turn \ {e}
  BY <1>0, HasProcess
<1>2. out' \in [Turn -> Seq(Line)] /\ OptionsTyped' /\ line.of \in Turn \cup {None}
  <2>1. out[e] \in Seq(Line) /\ out[e] # <<>>
    BY <1>0, <1>1 DEF ProcsTyped
  <2>2. Head(out[e]) \in Line /\ Tail(out[e]) \in Seq(Line)
    BY <2>1, HeadTailProperties
  <2>. QED
    BY <1>0, <1>1, <2>2 DEF ProcsTyped, OptionsTyped, Line
<1>3. CASE /\ \E x \in BOOLEAN : \/ turn' = [turn EXCEPT ![t].started = x]
                                  \/ turn' = [turn EXCEPT ![t].output = x]
           /\ UNCHANGED <<poolVars, state>>
  <2>0. \A x \in BOOLEAN : /\ [turn EXCEPT ![t].started = x] \in [Turn -> TurnState]
                            /\ [turn EXCEPT ![t].output = x] \in [Turn -> TurnState]
    BY FieldsTyped
  <2>1. turn' \in [Turn -> TurnState]
    BY <1>3, <2>0
  <2>2. PoolTyped' /\ ProcsTyped'
    BY <1>0, <1>2, <1>3, UnchangedPool DEF ProcsTyped
  <2>3. \A u \in Turn : Same(u) /\ turn'[u].phase = turn[u].phase
    BY <1>0, <1>3 DEF TurnState, Same
  <2>4. Takes({})
    BY <1>0, <1>3, <2>3 DEF Takes, Goes, Kept, poolVars, PoolTyped
  <2>. QED
    BY <1>2, <2>1, <2>2, <2>4, Taken
<1>4. CASE /\ turn' = [turn EXCEPT ![t] = [Over("answered") EXCEPT !.answer = line.of]]
           /\ Release(e)
  <2>1. turn' \in [Turn -> TurnState]
    BY <1>2, <1>4, FieldsTyped
  <2>2. turn'[t].phase = "answered" /\ \A u \in Turn \ {t} : turn'[u] = turn[u]
    BY <1>4 DEF Over, NewTurn
  <2>3. CASE UNCHANGED <<poolVars, state>>
    <3>1. PoolTyped' /\ ProcsTyped'
      BY <1>0, <1>2, <2>3, UnchangedPool DEF ProcsTyped
    <3>2. Takes({})
      BY <1>0, <2>2, <2>3 DEF Takes, Goes, Same, Kept, poolVars, PoolTyped
    <3>. QED
      BY <1>2, <2>1, <3>1, <3>2, Taken
  <2>4. CASE Remove({e}) /\ state' = Retired({e})
    <3>1. ProcsTyped'
      BY <1>0, <1>2, <2>4, RetiredTyped DEF ProcsTyped
    <3>. QED
      BY <1>0, <1>2, <2>1, <2>2, <2>4, <3>1, LeavesIt
  <2>5. CASE /\ e \in Pooled /\ busy' = [busy EXCEPT ![e] = FALSE] /\ timer' = Due(e)
             /\ lastUsed' = lastUsed \cup (Idle \X {e}) /\ UNCHANGED <<pool, sig, state>>
    <3>1. Pooled' = Pooled /\ Idle' = Idle \cup {e}
      BY <1>1, <2>5 DEF Pooled, Idle, PoolTyped
    <3>2. lastUsed' \in SUBSET (Idle' \X Idle')
      BY <2>5, <3>1 DEF PoolTyped
    <3>3. /\ busy' \in [Turn -> BOOLEAN] /\ timer' \in [Turn -> {"off", "armed", "fired"}]
          /\ \A x \in Turn : (busy'[x] => x \in Pooled') /\ (timer'[x] = "armed" => x \in Idle')
      BY <1>1, <2>5, <3>1 DEF PoolTyped, Due
    <3>4. PoolTyped' /\ ProcsTyped'
      BY <1>0, <1>2, <2>5, <3>2, <3>3 DEF PoolTyped, ProcsTyped
    <3>5. ASSUME NEW u \in Turn PROVE Goes(u, {})
      BY <1>0, <1>1, <2>2, <2>5 DEF Goes, Same, Kept, Works, PoolTyped
    <3>6. Takes({})
      BY <1>0, <2>5, <3>5 DEF Takes, PoolTyped
    <3>. QED
      BY <1>2, <2>1, <3>4, <3>6, Taken
  <2>. QED
    BY <1>4, <2>3, <2>4, <2>5 DEF Release
<1>5. CASE /\ turn' = [turn EXCEPT ![t] = [turn[t] EXCEPT !.phase = "draining",
                                                           !.output = TRUE]]
           /\ Remove({e}) /\ state' = Retired({e})
  <2>1. turn' \in [Turn -> TurnState]
    BY <1>5, FieldsTyped
  <2>2. (\A u \in Turn \ {t} : turn'[u] = turn[u]) /\ turn'[t].phase = "draining" /\ Same(t)
    BY <1>0, <1>5 DEF TurnState, Same
  <2>3. ProcsTyped'
    BY <1>0, <1>2, <1>5, RetiredTyped DEF ProcsTyped
  <2>. QED
    BY <1>0, <1>2, <1>5, <2>1, <2>2, <2>3, LeavesIt
<1>6. \/ /\ turn' = [turn EXCEPT ![t].started =
                       turn[t].started \/ line = [kind |-> "replay", of |-> t]]
         /\ UNCHANGED <<poolVars, state>>
      \/ /\ turn' = [turn EXCEPT ![t].output = TRUE]
         /\ UNCHANGED <<poolVars, state>>
      \/ /\ turn' = [turn EXCEPT ![t] = [Over("answered") EXCEPT !.answer = line.of]]
         /\ Release(e)
      \/ /\ turn' = [turn EXCEPT ![t] = [turn[t] EXCEPT !.phase = "draining", !.output = TRUE]]
         /\ Remove({e}) /\ state' = Retired({e})
  BY DEF Read
<1>7. (turn[t].started \/ line = [kind |-> "replay", of |-> t]) \in BOOLEAN
  BY <1>0 DEF TurnState
<1>. QED
  BY <1>3, <1>4, <1>5, <1>6, <1>7

(* Its process has ended, or the turn ends it.                              *)
LEMMA EndedStep ==
  ASSUME Inv, NEW t \in Turn, Ended(t)
  PROVE  Inv'
<1>. USE DEF Inv, Typed
<1>. DEFINE e == turn[t].proc
<1>0. turn[t].phase = "reading" /\ Works(t) /\ Remove({e}) /\ GiveUp(t)
      /\ UNCHANGED <<procVars, enabled, closed, events>>
  BY DEF Ended, Works
<1>1. e \in Turn /\ state[e] # "none"
      /\ \A u \in Turn \ {t} : Works(u) => turn[u].proc \in Turn \ {e}
  BY <1>0, HasProcess
<1>2. PoolTyped' /\ (\A d \in Conv : pool'[d] = IF pool[d] \in {e} THEN None ELSE pool[d])
      /\ \A x \in Turn : busy'[x] <=> busy[x] /\ x \notin {e}
  BY <1>0, <1>1, Removed
<1>3. ProcsTyped' /\ OptionsTyped'
  BY <1>0 DEF procVars, ProcsTyped, OptionsTyped
<1>4. turn' \in [Turn -> TurnState] /\ (\A u \in Turn \ {t} : turn'[u] = turn[u])
      /\ \/ turn'[t].phase = "failed"
         \/ /\ turn[t].reused /\ turn'[t].phase = "acquire"
            /\ turn'[t].conv = turn[t].conv /\ turn'[t].sig = turn[t].sig
  BY <1>0, GivesUp
<1>5. ASSUME NEW u \in Turn PROVE Goes(u, {e})
  BY <1>0, <1>1, <1>2, <1>4 DEF Goes, Same, Kept, Works
<1>6. Takes({e})
  BY <1>0, <1>2, <1>5 DEF Takes, procVars
<1>. QED
  BY <1>1, <1>2, <1>3, <1>4, <1>6, Taken

LEMMA CancelledStep ==
  ASSUME Inv, NEW t \in Turn, Cancelled(t)
  PROVE  Inv'
<1>. USE DEF Inv, Typed
<1>. DEFINE e == turn[t].proc
<1>0. turn[t].phase = "reading" /\ Works(t) /\ Remove({e}) /\ Kill(e)
      /\ turn' = [turn EXCEPT ![t] = Over("failed")]
      /\ UNCHANGED <<enabled, closed, events>>
  BY DEF Cancelled, Works, EndAs
<1>1. e \in Turn /\ state[e] # "none"
      /\ \A u \in Turn \ {t} : Works(u) => turn[u].proc \in Turn \ {e}
  BY <1>0, HasProcess
<1>2. PoolTyped' /\ (\A d \in Conv : pool'[d] = IF pool[d] \in {e} THEN None ELSE pool[d])
      /\ \A x \in Turn : busy'[x] <=> busy[x] /\ x \notin {e}
  BY <1>0, <1>1, Removed
<1>3. ProcsTyped' /\ OptionsTyped'
  BY <1>0, <1>1, Killed DEF OptionsTyped
<1>4. turn' \in [Turn -> TurnState]
  <2>1. [turn EXCEPT ![t] = Over("failed")] \in [Turn -> TurnState]
    BY TurnStates
  <2>. QED
    BY <1>0, <2>1
<1>5. turn'[t].phase = "failed" /\ \A u \in Turn \ {t} : turn'[u] = turn[u]
  BY <1>0 DEF Over, NewTurn
<1>6. ASSUME NEW u \in Turn PROVE Goes(u, {e})
  BY <1>1, <1>2, <1>5 DEF Goes, Same, Kept, Works
<1>7. state'[e] = "gone" /\ \A x \in Turn \ {e} : state'[x] = state[x]
  BY <1>0, <1>1 DEF Kill, ProcsTyped
<1>8. state[e] = "spawning" => turn'[e].phase # "spawning"
  BY <1>1, <1>5 DEF Works, Working
<1>9. Takes({e})
  BY <1>0, <1>1, <1>2, <1>6, <1>7, <1>8 DEF Takes
<1>. QED
  BY <1>1, <1>2, <1>3, <1>4, <1>9, Taken

LEMMA DrainStep ==
  ASSUME Inv, NEW t \in Turn, Drain(t)
  PROVE  Inv'
<1>. USE DEF Inv, Typed
<1>. DEFINE e == turn[t].proc
<1>0. turn[t].phase = "draining" /\ Works(t) /\ turn[t] \in TurnState
      /\ UNCHANGED <<poolVars, state, inbox, work, enabled, closed, events>>
  BY DEF Drain, Works
<1>1. PoolTyped' /\ OptionsTyped'
  BY <1>0, UnchangedPool DEF OptionsTyped
<1>2. CASE out' = [out EXCEPT ![e] = <<>>] /\ turn' = [turn EXCEPT ![t].output = TRUE]
  <2>1. [turn EXCEPT ![t].output = TRUE] \in [Turn -> TurnState]
    BY FieldsTyped
  <2>0. e \in Turn
    BY <1>0, HasProcess
  <2>2. ProcsTyped'
    BY <1>0, <1>2, <2>0 DEF ProcsTyped
  <2>3. \A u \in Turn : Same(u) /\ turn'[u].phase = turn[u].phase
    BY <1>0, <1>2 DEF TurnState, Same
  <2>4. Takes({})
    BY <1>0, <2>3 DEF Takes, Goes, Kept, poolVars, PoolTyped
  <2>. QED
    BY <1>1, <1>2, <2>1, <2>2, <2>4, Taken
<1>3. CASE GiveUp(t) /\ UNCHANGED out
  <2>1. turn' \in [Turn -> TurnState] /\ (\A u \in Turn \ {t} : turn'[u] = turn[u])
        /\ \/ turn'[t].phase = "failed"
           \/ /\ turn[t].reused /\ turn'[t].phase = "acquire"
              /\ turn'[t].conv = turn[t].conv /\ turn'[t].sig = turn[t].sig
    BY <1>0, <1>3, GivesUp
  <2>2. ProcsTyped'
    BY <1>0, <1>3 DEF ProcsTyped
  <2>3. ASSUME NEW u \in Turn PROVE Goes(u, {})
    BY <1>0, <2>1 DEF Goes, Same, Kept, Works, poolVars
  <2>4. Takes({})
    BY <1>0, <2>3 DEF Takes, poolVars, PoolTyped
  <2>. QED
    BY <1>1, <2>1, <2>2, <2>4, Taken
<1>. QED
  BY <1>2, <1>3 DEF Drain

-----------------------------------------------------------------------------
(* Steps that no turn takes.                                                *)

(* Whatever a process does with its lines, it stays what it is, or ends.    *)
LEMMA ProcessGoesOn ==
  ASSUME Inv, UNCHANGED <<poolVars, turn, closed>>, ProcsTyped', OptionsTyped',
         \A x \in Turn : state'[x] # state[x] =>
            state[x] \notin {"none", "spawning"} /\ state'[x] = "gone"
  PROVE  Inv'
<1>. USE DEF Inv, Typed
<1>1. PoolTyped'
  BY UnchangedPool
<1>2. Takes({})
  BY DEF Takes, Goes, Same, Kept, poolVars, PoolTyped
<1>. QED
  BY <1>1, <1>2, Taken

LEMMA ProcessStep ==
  ASSUME Inv, NEW e \in Turn,
         \/ TakeMessage(e) \/ Speak(e) \/ Finish(e)
         \/ OwnTurn(e) \/ Exit(e) \/ GraceOver(e)
  PROVE  Inv'
<1>. USE DEF Inv, Typed
<1>0. out[e] \in Seq(Line) /\ inbox[e] \in Turn \cup {None} /\ work[e] \in Turn \cup {None}
  BY DEF ProcsTyped
<1>1. CASE TakeMessage(e)
  <2>1. <<Replay(inbox[e])>> \in Seq(Line)
    BY <1>0 DEF Replay, Line
  <2>2. out[e] \o <<Replay(inbox[e])>> \in Seq(Line)
    BY <1>0, <2>1, ConcatProperties
  <2>3. ProcsTyped' /\ OptionsTyped' /\ UNCHANGED <<poolVars, turn, closed, state>>
    BY <1>0, <1>1, <2>2 DEF TakeMessage, Says, ProcsTyped, OptionsTyped
  <2>. QED
    BY <2>3, ProcessGoesOn
<1>2. CASE Finish(e)
  <2>1. PICK kind \in {"result", "error"} :
           Says(e, <<[kind |-> kind, of |-> work[e]], Lifecycle>>)
    BY <1>2 DEF Finish
  <2>2. <<[kind |-> kind, of |-> work[e]], Lifecycle>> \in Seq(Line)
    BY <1>0 DEF Line, Lifecycle
  <2>3. out[e] \o <<[kind |-> kind, of |-> work[e]], Lifecycle>> \in Seq(Line)
    BY <1>0, <2>2, ConcatProperties
  <2>4. ProcsTyped' /\ OptionsTyped' /\ UNCHANGED <<poolVars, turn, closed, state>>
    BY <1>0, <1>2, <2>1, <2>3 DEF Finish, Says, ProcsTyped, OptionsTyped
  <2>. QED
    BY <2>4, ProcessGoesOn
<1>3. CASE OwnTurn(e)
  <2>1. <<[kind |-> "result", of |-> None]>> \in Seq(Line)
    BY DEF Line
  <2>2. out[e] \o <<[kind |-> "result", of |-> None]>> \in Seq(Line)
    BY <1>0, <2>1, ConcatProperties
  <2>3. ProcsTyped' /\ OptionsTyped' /\ UNCHANGED <<poolVars, turn, closed, state>>
    BY <1>0, <1>3, <2>2 DEF OwnTurn, Says, ProcsTyped, OptionsTyped
  <2>. QED
    BY <2>3, ProcessGoesOn
<1>4. CASE Exit(e)
  <2>1. state[e] \in {"up", "closing"} /\ state' = [state EXCEPT ![e] = "gone"]
        /\ (out' = out \/ out' = [out EXCEPT ![e] = <<>>])
        /\ inbox' = [inbox EXCEPT ![e] = None] /\ work' = [work EXCEPT ![e] = None]
        /\ UNCHANGED <<poolVars, turn, closed, enabled>> /\ events' \in {events, events + 1}
    BY <1>4 DEF Exit, Reading, poolVars, ProcsTyped
  <2>a. <<>> \in Seq(Line)
    OBVIOUS
  <2>0. out' \in [Turn -> Seq(Line)]
    BY <2>1, <2>a DEF ProcsTyped
  <2>2. ProcsTyped' /\ OptionsTyped'
    BY <2>0, <2>1 DEF ProcsTyped, ProcState, OptionsTyped
  <2>3. \A x \in Turn : state'[x] # state[x] =>
           state[x] \notin {"none", "spawning"} /\ state'[x] = "gone"
    BY <2>1 DEF ProcsTyped
  <2>. QED
    BY <2>1, <2>2, <2>3, ProcessGoesOn
<1>5. CASE GraceOver(e)
  <2>1. state[e] = "closing" /\ Kill(e) /\ UNCHANGED <<poolVars, turn, enabled, closed, events>>
    BY <1>5 DEF GraceOver
  <2>2. ProcsTyped' /\ OptionsTyped'
    BY <2>1, Killed DEF OptionsTyped
  <2>3. \A x \in Turn : state'[x] # state[x] =>
           state[x] \notin {"none", "spawning"} /\ state'[x] = "gone"
    BY <2>1 DEF Kill, ProcsTyped
  <2>. QED
    BY <2>1, <2>2, <2>3, ProcessGoesOn
<1>6. CASE Speak(e)
  <2>1. <<Text(work[e])>> \in Seq(Line)
    BY <1>0 DEF Text, Line
  <2>2. out[e] \o <<Text(work[e])>> \in Seq(Line)
    BY <1>0, <2>1, ConcatProperties
  <2>3. ProcsTyped' /\ OptionsTyped' /\ UNCHANGED <<poolVars, turn, closed, state>>
    BY <1>0, <1>6, <2>2 DEF Speak, Says, ProcsTyped, OptionsTyped
  <2>. QED
    BY <2>3, ProcessGoesOn
<1>. QED
  BY <1>1, <1>2, <1>3, <1>4, <1>5, <1>6

(* Idle processes, or all of them at the end, are retired.                  *)
LEMMA Retirement ==
  ASSUME Inv, NEW E \in SUBSET Turn, Remove(E), state' = Retired(E),
         UNCHANGED <<inbox, work, out, turn, enabled>>, OptionsTyped', closed => closed',
         closed' \/ \A e \in E : ~busy[e]
  PROVE  Inv'
<1>. USE DEF Inv, Typed
<1>1. PoolTyped' /\ (\A d \in Conv : pool'[d] = IF pool[d] \in E THEN None ELSE pool[d])
      /\ \A e \in Turn : busy'[e] <=> busy[e] /\ e \notin E
  BY Removed
<1>2. ProcsTyped'
  BY RetiredTyped DEF ProcsTyped
<1>3. ASSUME NEW u \in Turn PROVE Goes(u, E)
  BY <1>1 DEF Goes, Same, Kept, Working, Works
<1>4. \A x \in Turn : state'[x] # state[x] =>
         state[x] = "up" /\ state'[x] = "closing" /\ x \in E
  BY DEF Retired, ProcsTyped
<1>5. Takes(E)
  BY <1>1, <1>3, <1>4 DEF Takes
<1>. QED
  BY <1>1, <1>2, <1>5, Taken

LEMMA TimerStep ==
  ASSUME Inv, NEW e \in Turn, TimerFires(e) \/ EvictIdle(e)
  PROVE  Inv'
<1>. USE DEF Inv, Typed
<1>1. CASE Remove({e}) /\ state' = Retired({e}) /\ StillIdle(e)
           /\ UNCHANGED <<inbox, work, out, turn, enabled, closed, events>>
  BY <1>1, Retirement DEF StillIdle, OptionsTyped
<1>2. CASE \E x \in {"fired", "off"} : /\ timer' = [timer EXCEPT ![e] = x]
              /\ UNCHANGED <<pool, sig, busy, lastUsed, procVars, turn, enabled, closed, events>>
  <2>1. Pooled' = Pooled /\ Idle' = Idle
    BY <1>2 DEF Pooled, Idle
  <2>2. PoolTyped'
    BY <1>2, <2>1 DEF PoolTyped
  <2>3. ProcsTyped' /\ OptionsTyped'
    BY <1>2 DEF ProcsTyped, procVars, OptionsTyped
  <2>4. Takes({})
    BY <1>2 DEF Takes, Goes, Same, Kept, procVars, PoolTyped
  <2>. QED
    BY <1>2, <2>2, <2>3, <2>4, Taken
<1>. QED
  BY <1>1, <1>2 DEF TimerFires, EvictIdle, procVars

LEMMA OptionStep ==
  ASSUME Inv, Close \/ Toggle
  PROVE  Inv'
<1>. USE DEF Inv, Typed
<1>1. CASE Close
  <2>1. Pooled \in SUBSET Turn
    BY DEF Pooled
  <2>. QED
    BY <1>1, <2>1, Retirement DEF Close, OptionsTyped
<1>2. CASE Toggle
  BY <1>2, ProcessGoesOn DEF Toggle, procVars, ProcsTyped, OptionsTyped
<1>. QED
  BY <1>1, <1>2

-----------------------------------------------------------------------------
LEMMA Invariance == Spec => []Inv
<1>1. Init => Inv
  <2>. SUFFICES ASSUME Init PROVE Inv
    OBVIOUS
  <2>0. NewTurn \in TurnState /\ Pooled = {}
    BY PoolAssumption DEF Init, NewTurn, TurnState, Pooled, None, Turn
  <2>a. PoolTyped
    BY <2>0 DEF Init, PoolTyped, Idle
  <2>b. ProcsTyped
    BY DEF Init, ProcsTyped, ProcState
  <2>1. Typed
    BY <2>0, <2>a, <2>b DEF Init, Typed, OptionsTyped
  <2>2. \A t \in Turn : Working(t) /\ ~Works(t)
    BY DEF Init, Working, Works, NewTurn
  <2>. QED
    BY <2>1, <2>2 DEF Init, Inv, Apart
<1>2. Inv /\ [Next]_vars => Inv'
  <2>. SUFFICES ASSUME Inv, [Next]_vars PROVE Inv'
    OBVIOUS
  <2>1. CASE UNCHANGED vars
    BY <2>1, ProcessGoesOn DEF vars, procVars, Inv, Typed, ProcsTyped, OptionsTyped
  <2>2. ASSUME NEW t \in Turn, TurnStep(t) PROVE Inv'
    BY <2>2, RefusedStep, ReuseStep, SpawnStep, SpawnFailsStep, SpawnedStep, CheckStep,
       SendStep, SendFailedStep, ReadStep, EndedStep, CancelledStep, DrainStep DEF TurnStep
  <2>. QED
    BY <2>1, <2>2, StartStep, TimerStep, ProcessStep, OptionStep DEF Next, HostStep
<1>. QED
  BY <1>1, <1>2, PTL DEF Spec

(* The pool's state is well typed: what is busy is pooled, and what has a   *)
(* timer or a time of last use is idle.                                     *)
THEOREM TypeCorrect == Spec => []TypeOK
<1>1. Inv => TypeOK
  BY TypedIsTypeOK DEF Inv
<1>. QED
  BY <1>1, Invariance, PTL

(* No process is used by two turns.                                         *)
THEOREM OneTurnEach == Spec => []OneTurnPerProcess
<1>1. Inv => OneTurnPerProcess
  BY DEF Inv, Apart, OneTurnPerProcess, Owns, Works
<1>. QED
  BY <1>1, Invariance, PTL

(* Nobody takes a process away from the turn that uses it.                  *)
THEOREM InUseIsKept == Spec => []InUseIsLeftAlone
<1>1. Inv => InUseIsLeftAlone
  <2>. SUFFICES ASSUME Inv, NEW t \in Turn, turn[t].phase \in {"checking", "reading"}, ~closed
                PROVE  pool[turn[t].conv] = turn[t].proc /\ state[turn[t].proc] # "closing"
    BY DEF InUseIsLeftAlone
  <2>0. None \notin Turn
    BY PoolAssumption DEF None, Turn
  <2>. QED
    BY <2>0 DEF Inv, Working, Works, Apart
<1>. QED
  BY <1>1, Invariance, PTL

-----------------------------------------------------------------------------
(* Output is final.                                                         *)
OutputInv == \A t \in Turn : turn[t].output => turn[t].phase \in {"reading", "draining"}

(* What a step does to the output of a turn: output is heard only by one    *)
(* that reads, and stays with it until it is over.                          *)
Outputs(u) ==
    /\ turn'[u].output => turn[u].output \/ turn'[u].phase \in {"reading", "draining"}
    /\ turn[u].output /\ turn[u].phase \in {"reading", "draining"} =>
          \/ turn'[u].phase \in {"answered", "failed"} /\ ~turn'[u].output
          \/ turn'[u].phase \in {"reading", "draining"} /\ turn'[u].output

LEMMA OverIsOver ==
  ASSUME NEW p
  PROVE  Over(p).phase = p /\ Over(p).output = FALSE /\ Over(p).started = FALSE
BY DEF Over, NewTurn

LEMMA GivesUpOutput ==
  ASSUME Inv, NEW t \in Turn, Works(t), GiveUp(t)
  PROVE  ~turn'[t].output /\ (turn'[t].phase = "failed" \/ ~turn[t].output)
<1>. DEFINE again == [NewTurn EXCEPT !.phase = "acquire", !.conv = turn[t].conv,
                                     !.sig = turn[t].sig, !.again = TRUE,
                                     !.output = turn[t].output]
<1>1. turn \in [Turn -> TurnState] /\ turn[t].output \in BOOLEAN
  BY DEF Inv, Typed, TurnState
<1>2. CASE turn' = [turn EXCEPT ![t] = Over("failed")]
  BY <1>1, <1>2, OverIsOver
<1>3. CASE ~turn[t].output /\ turn' = [turn EXCEPT ![t] = again]
  <2>1. again.output = turn[t].output
    BY DEF NewTurn
  <2>. QED
    BY <1>1, <1>3, <2>1
<1>. QED
  BY <1>2, <1>3 DEF GiveUp, EndAs, MayRetry

LEMMA TurnOutput ==
  ASSUME Inv, NEW t \in Turn, TurnStep(t), NEW u \in Turn
  PROVE  Outputs(u)
<1>0. turn \in [Turn -> TurnState] /\ turn[t] \in TurnState
  BY DEF Inv, Typed
<1>a. ASSUME turn'[u] = turn[u] PROVE Outputs(u)
  BY <1>a DEF Outputs
<1>1. CASE GiveUp(t) /\ Works(t)
  <2>1. \A v \in Turn \ {t} : turn'[v] = turn[v]
    BY <1>1, GivesUp
  <2>. QED
    BY <1>1, <1>a, <2>1, GivesUpOutput DEF Outputs
<1>2. ASSUME NEW p \in {"answered", "failed", "oneshot"}, EndAs(t, p),
             p = "oneshot" => turn[t].phase \notin {"reading", "draining"}
      PROVE  Outputs(u)
  <2>1. turn'[t] = Over(p) /\ \A v \in Turn \ {t} : turn'[v] = turn[v]
    BY <1>0, <1>2 DEF EndAs
  <2>. QED
    <3>1. turn'[t].phase = p /\ turn'[t].output = FALSE
      BY <2>1, OverIsOver
    <3>. QED
      BY <1>2, <1>a, <2>1, <3>1 DEF Outputs
<1>3. ASSUME NEW p \in {"reading", "draining"}, Goto(t, p) PROVE Outputs(u)
  <2>1. turn'[t].phase = p /\ turn'[t].output = turn[t].output
        /\ \A v \in Turn \ {t} : turn'[v] = turn[v]
    BY <1>0, <1>3 DEF Goto, TurnState
  <2>. QED
    BY <1>a, <2>1 DEF Outputs
<1>4. CASE Reuse(t) \/ Spawn(t) \/ Send(t)
  <2>1. turn[t].phase = "acquire" \/ turn'[t].phase = turn[t].phase
    BY <1>0, <1>4 DEF Reuse, Spawn, Send, TurnState
  <2>2. /\ turn'[t].output = turn[t].output
        /\ \A v \in Turn \ {t} : turn'[v] = turn[v]
    <3>1. CASE Reuse(t)
      BY <1>0, <3>1 DEF Reuse, TurnState
    <3>2. CASE Spawn(t)
      BY <1>0, <3>2 DEF Spawn, TurnState
    <3>3. CASE Send(t)
      BY <1>0, <3>3 DEF Send, TurnState
    <3>. QED
      BY <1>4, <3>1, <3>2, <3>3
  <2>. QED
    BY <1>a, <2>1, <2>2 DEF Outputs
<1>5. CASE Read(t)
  <2>0. turn[t].phase = "reading"
    BY <1>5 DEF Read
  <2>1. CASE \E x : turn' = [turn EXCEPT ![t].started = x]
    BY <1>0, <1>a, <2>0, <2>1 DEF Outputs, TurnState
  <2>2. CASE turn' = [turn EXCEPT ![t].output = TRUE]
    BY <1>0, <1>a, <2>0, <2>2 DEF Outputs, TurnState
  <2>3. ASSUME NEW x, turn' = [turn EXCEPT ![t] = [Over("answered") EXCEPT !.answer = x]]
        PROVE  Outputs(u)
    <3>. DEFINE r == [Over("answered") EXCEPT !.answer = x]
    <3>1. r.output = FALSE /\ r.phase = "answered"
      BY DEF Over, NewTurn
    <3>2. turn'[t] = r /\ \A v \in Turn \ {t} : turn'[v] = turn[v]
      BY <1>0, <2>3
    <3>. QED
      BY <1>a, <3>1, <3>2 DEF Outputs
  <2>4. CASE turn' = [turn EXCEPT ![t] = [turn[t] EXCEPT !.phase = "draining", !.output = TRUE]]
    BY <1>0, <1>a, <2>0, <2>4 DEF Outputs, TurnState
  <2>. QED
    BY <1>5, <2>1, <2>2, <2>3, <2>4 DEF Read
<1>6. CASE Drain(t) /\ turn' = [turn EXCEPT ![t].output = TRUE]
  BY <1>0, <1>6 DEF Drain, Outputs, TurnState
<1>7. CASE Refused(t) \/ SpawnFails(t) \/ Spawned(t) \/ Cancelled(t) \/ SendFailed(t)
  <2>1. \/ EndAs(t, "oneshot") /\ turn[t].phase \notin {"reading", "draining"}
        \/ EndAs(t, "failed") \/ Goto(t, "reading") \/ Goto(t, "draining")
    BY <1>7 DEF Refused, SpawnFails, Spawned, Cancelled, SendFailed
  <2>. QED
    BY <1>2, <1>3, <2>1
<1>8. CASE Check(t) \/ Ended(t) \/ Drain(t)
  BY <1>1, <1>3, <1>6, <1>8 DEF Check, Ended, Drain, Works
<1>. QED
  BY <1>4, <1>5, <1>7, <1>8 DEF TurnStep

LEMMA StepOutput ==
  ASSUME Inv, [Next]_vars, NEW u \in Turn
  PROVE  Outputs(u)
<1>0. turn'[u] = turn[u] => Outputs(u)
  BY DEF Outputs
<1>1. CASE UNCHANGED turn
  BY <1>0, <1>1
<1>2. ASSUME NEW t \in Turn, NEW c \in Conv, NEW s \in Sig, Start(t, c, s) PROVE Outputs(u)
  <2>1. turn[t].phase = "new" /\ turn[t] \in TurnState /\ turn \in [Turn -> TurnState]
        /\ \/ turn' = [turn EXCEPT ![t] = Over("oneshot")]
           \/ turn' = [turn EXCEPT ![t] = [turn[t] EXCEPT !.phase = "acquire", !.conv = c,
                                                         !.sig = s]]
    BY <1>2 DEF Start, EndAs, Inv, Typed
  <2>2. (turn'[t].output = turn[t].output \/ ~turn'[t].output)
        /\ \A v \in Turn \ {t} : turn'[v] = turn[v]
    <3>1. CASE turn' = [turn EXCEPT ![t] = Over("oneshot")]
      BY <2>1, <3>1, OverIsOver
    <3>2. CASE turn' = [turn EXCEPT ![t] = [turn[t] EXCEPT !.phase = "acquire", !.conv = c,
                                                           !.sig = s]]
      BY <2>1, <3>2 DEF TurnState
    <3>. QED
      BY <2>1, <3>1, <3>2
  <2>. QED
    BY <1>0, <2>1, <2>2 DEF Outputs
<1>. QED
  BY <1>1, <1>2, TurnOutput DEF Next, HostStep, TimerFires, EvictIdle, GraceOver, TakeMessage,
     Speak, Finish, OwnTurn, Exit, Close, Toggle, vars

LEMMA OutputInvariance == Spec => []OutputInv
<1>1. Init => OutputInv
  BY DEF Init, OutputInv, NewTurn
<1>2. Inv /\ OutputInv /\ [Next]_vars => OutputInv'
  BY StepOutput DEF OutputInv, Outputs
<1>. QED
  BY <1>1, <1>2, Invariance, PTL DEF Spec

(* A turn that has heard a part of its answer is not given to another       *)
(* process.                                                                 *)
THEOREM OutputStays == Spec => OutputIsFinal
<1>1. ASSUME Inv, OutputInv, [Next]_vars, NEW t \in Turn, turn[t].output
      PROVE  \/ turn'[t].phase \in {"answered", "failed"}
             \/ turn'[t].phase \in {"reading", "draining"} /\ turn'[t].output
  BY <1>1, StepOutput DEF OutputInv, Outputs
<1>2. Inv /\ OutputInv /\ [Next]_vars =>
        [\A t \in Turn : turn[t].output =>
           \/ turn'[t].phase \in {"answered", "failed"}
           \/ turn'[t].phase \in {"reading", "draining"} /\ turn'[t].output]_vars
  BY <1>1
<1>. QED
  BY <1>2, Invariance, OutputInvariance, PTL DEF Spec, OutputIsFinal

-----------------------------------------------------------------------------
(* The answer is the turn's own.                                            *)

(* The lines from the replay of a message up to the answer to it.           *)
Opens(line, t) == line.kind \in {"replay", "text"} /\ line.of = t
GoesOn(line, t) == line.kind \in {"text", "result", "error"} /\ line.of = t

(* In the lines q of a process that works on w, or is gone, the replay of a *)
(* message is followed by texts about it and by the answer to it, as far as *)
(* they have been written.                                                  *)
Echo(q, w, gone) ==
    \A i \in 1..Len(q), t \in Turn : Opens(q[i], t) =>
        \/ i < Len(q) /\ GoesOn(q[i + 1], t)
        \/ i = Len(q) /\ (w = t \/ gone)

(* And so once a turn has read the replay of its message.                   *)
Heard(q, w, gone, t) ==
    \/ q # <<>> /\ GoesOn(Head(q), t)
    \/ q = <<>> /\ (w = t \/ gone)

Listens(t) == turn[t].phase = "reading" /\ turn[t].started

EchoInv ==
    /\ \A e \in Turn : Echo(out[e], work[e], state[e] = "gone")
    /\ \A t \in Turn :
         /\ Listens(t) => Heard(out[turn[t].proc], work[turn[t].proc],
                                state[turn[t].proc] = "gone", t)
         /\ turn[t].started => turn[t].phase \in {"reading", "draining"}
         /\ turn[t].phase = "answered" => turn[t].answer = t

(* What a process may add.                                                  *)
LEMMA EchoTaken ==
  ASSUME NEW q \in Seq(Line), NEW m \in Turn, Echo(q, None, FALSE)
  PROVE  /\ Echo(q \o <<Replay(m)>>, m, FALSE)
         /\ \A t \in Turn : Heard(q, None, FALSE, t) => Heard(q \o <<Replay(m)>>, m, FALSE, t)
<1>0. None \notin Turn
  BY PoolAssumption DEF None, Turn
<1>. DEFINE r == q \o <<Replay(m)>>
<1>1. <<Replay(m)>> \in Seq(Line)
  BY DEF Replay, Line
<1>2. /\ Len(r) = Len(q) + 1 /\ Len(q) \in Nat
      /\ \A i \in 1..Len(q) : r[i] = q[i]
      /\ r[Len(q) + 1] = Replay(m) /\ r \in Seq(Line)
  BY <1>1, ConcatProperties
<1>. HIDE DEF r
<1>3. Echo(r, m, FALSE)
  <2>. SUFFICES ASSUME NEW i \in 1..Len(r), NEW t \in Turn, Opens(r[i], t)
                PROVE  \/ i < Len(r) /\ GoesOn(r[i + 1], t)
                       \/ i = Len(r) /\ m = t
    BY DEF Echo
  <2>1. CASE i = Len(r)
    BY <1>2, <2>1 DEF Replay, Opens
  <2>2. CASE i < Len(q)
    BY <1>0, <1>2, <2>2 DEF Echo
  <2>3. CASE i = Len(q)
    BY <1>0, <1>2, <2>3 DEF Echo
  <2>. QED
    BY <1>2, <2>1, <2>2, <2>3
<1>4. ASSUME NEW t \in Turn, Heard(q, None, FALSE, t) PROVE Heard(r, m, FALSE, t)
  <2>1. q # <<>> /\ GoesOn(Head(q), t)
    BY <1>0, <1>4 DEF Heard
  <2>2. Len(q) > 0 /\ Head(q) = q[1]
    BY <2>1
  <2>3. r # <<>> /\ Head(r) = r[1]
    BY <1>2, <2>2
  <2>. QED
    BY <1>2, <2>1, <2>2, <2>3 DEF Heard
<1>. QED
  BY <1>3, <1>4 DEF r

LEMMA EchoSpoken ==
  ASSUME NEW q \in Seq(Line), NEW m \in Turn, Echo(q, m, FALSE)
  PROVE  /\ Echo(q \o <<Text(m)>>, m, FALSE)
         /\ \A t \in Turn : Heard(q, m, FALSE, t) => Heard(q \o <<Text(m)>>, m, FALSE, t)
<1>. DEFINE r == q \o <<Text(m)>>
<1>1. <<Text(m)>> \in Seq(Line)
  BY DEF Text, Line
<1>2. /\ Len(r) = Len(q) + 1 /\ Len(q) \in Nat
      /\ \A i \in 1..Len(q) : r[i] = q[i]
      /\ r[Len(q) + 1] = Text(m) /\ r \in Seq(Line)
  BY <1>1, ConcatProperties
<1>. HIDE DEF r
<1>3. \A t \in Turn : (Opens(Text(m), t) <=> t = m) /\ (GoesOn(Text(m), t) <=> t = m)
  BY DEF Opens, GoesOn, Text
<1>4. Echo(r, m, FALSE)
  <2>. SUFFICES ASSUME NEW i \in 1..Len(r), NEW t \in Turn, Opens(r[i], t)
                PROVE  \/ i < Len(r) /\ GoesOn(r[i + 1], t)
                       \/ i = Len(r) /\ m = t
    BY DEF Echo
  <2>1. CASE i = Len(r)
    BY <1>2, <1>3, <2>1
  <2>2. CASE i < Len(q)
    BY <1>2, <2>2 DEF Echo
  <2>3. CASE i = Len(q)
    BY <1>2, <1>3, <2>3 DEF Echo
  <2>. QED
    BY <1>2, <2>1, <2>2, <2>3
<1>5. ASSUME NEW t \in Turn, Heard(q, m, FALSE, t) PROVE Heard(r, m, FALSE, t)
  <2>0. r # <<>> /\ Head(r) = r[1]
    BY <1>2
  <2>1. CASE q # <<>>
    <3>1. Len(q) > 0 /\ Head(q) = q[1]
      BY <2>1
    <3>. QED
      BY <1>2, <1>5, <2>0, <2>1, <3>1 DEF Heard
  <2>2. CASE q = <<>>
    BY <1>2, <1>3, <1>5, <2>0, <2>2 DEF Heard
  <2>. QED
    BY <2>1, <2>2
<1>. QED
  BY <1>4, <1>5 DEF r

LEMMA EchoAnswered ==
  ASSUME NEW q \in Seq(Line), NEW w \in Turn \cup {None}, Echo(q, w, FALSE),
         NEW a \in Line, a.kind \in {"result", "error"}, a.of = w
  PROVE  /\ Echo(q \o <<a, Lifecycle>>, None, FALSE)
         /\ \A t \in Turn : Heard(q, w, FALSE, t) =>
               Heard(q \o <<a, Lifecycle>>, None, FALSE, t)
<1>0. None \notin Turn
  BY PoolAssumption DEF None, Turn
<1>. DEFINE r == q \o <<a, Lifecycle>>
<1>1. <<a, Lifecycle>> \in Seq(Line) /\ Len(<<a, Lifecycle>>) = 2
  BY DEF Lifecycle, Line
<1>2. /\ Len(r) = Len(q) + 2 /\ Len(q) \in Nat
      /\ \A i \in 1..Len(q) : r[i] = q[i]
      /\ r[Len(q) + 1] = a /\ r[Len(q) + 2] = Lifecycle /\ r \in Seq(Line)
  BY <1>1, ConcatProperties
<1>. HIDE DEF r
<1>3. \A t \in Turn : ~Opens(a, t) /\ ~Opens(Lifecycle, t)
  BY DEF Opens, Lifecycle
<1>4. Echo(r, None, FALSE)
  <2>. SUFFICES ASSUME NEW i \in 1..Len(r), NEW t \in Turn, Opens(r[i], t)
                PROVE  i < Len(r) /\ GoesOn(r[i + 1], t)
    BY DEF Echo
  <2>1. i \in 1..Len(q)
    BY <1>2, <1>3
  <2>2. CASE i < Len(q)
    BY <1>2, <2>1, <2>2 DEF Echo
  <2>3. CASE i = Len(q)
    BY <1>2, <2>1, <2>3 DEF Echo, GoesOn
  <2>. QED
    BY <1>2, <2>1, <2>2, <2>3
<1>5. ASSUME NEW t \in Turn, Heard(q, w, FALSE, t) PROVE Heard(r, None, FALSE, t)
  <2>0. r # <<>> /\ Head(r) = r[1]
    BY <1>2
  <2>1. CASE q # <<>>
    <3>1. Len(q) > 0 /\ Head(q) = q[1]
      BY <2>1
    <3>. QED
      BY <1>2, <1>5, <2>0, <2>1, <3>1 DEF Heard
  <2>2. CASE q = <<>>
    BY <1>2, <1>5, <2>0, <2>2 DEF Heard, GoesOn
  <2>. QED
    BY <2>1, <2>2
<1>. QED
  BY <1>4, <1>5 DEF r

LEMMA EchoOwn ==
  ASSUME NEW q \in Seq(Line), Echo(q, None, FALSE), NEW a \in Line, a.kind = "result"
  PROVE  /\ Echo(q \o <<a>>, None, FALSE)
         /\ \A t \in Turn : Heard(q, None, FALSE, t) => Heard(q \o <<a>>, None, FALSE, t)
<1>0. None \notin Turn
  BY PoolAssumption DEF None, Turn
<1>. DEFINE r == q \o <<a>>
<1>1. <<a>> \in Seq(Line)
  OBVIOUS
<1>2. /\ Len(r) = Len(q) + 1 /\ Len(q) \in Nat
      /\ \A i \in 1..Len(q) : r[i] = q[i]
      /\ r[Len(q) + 1] = a /\ r \in Seq(Line)
  BY <1>1, ConcatProperties
<1>. HIDE DEF r
<1>3. \A t \in Turn : ~Opens(a, t)
  BY DEF Opens
<1>4. Echo(r, None, FALSE)
  <2>. SUFFICES ASSUME NEW i \in 1..Len(r), NEW t \in Turn, Opens(r[i], t)
                PROVE  i < Len(r) /\ GoesOn(r[i + 1], t)
    BY DEF Echo
  <2>1. i \in 1..Len(q)
    BY <1>2, <1>3
  <2>. QED
    BY <1>0, <1>2, <2>1 DEF Echo
<1>5. ASSUME NEW t \in Turn, Heard(q, None, FALSE, t) PROVE Heard(r, None, FALSE, t)
  <2>1. q # <<>> /\ GoesOn(Head(q), t)
    BY <1>0, <1>5 DEF Heard
  <2>2. Len(q) > 0 /\ Head(q) = q[1]
    BY <2>1
  <2>3. r # <<>> /\ Head(r) = r[1]
    BY <1>2, <2>2
  <2>. QED
    BY <1>2, <2>1, <2>2, <2>3 DEF Heard
<1>. QED
  BY <1>4, <1>5 DEF r

(* What a turn reads.                                                       *)
LEMMA EchoRead ==
  ASSUME NEW q \in Seq(Line), NEW w, NEW gone \in BOOLEAN, Echo(q, w, gone), q # <<>>
  PROVE  /\ Echo(Tail(q), w, gone)
         /\ \A t \in Turn : Opens(Head(q), t) => Heard(Tail(q), w, gone, t)
<1>. DEFINE r == Tail(q)
<1>0. /\ Head(q) = q[1] /\ r \in Seq(Line) /\ Len(r) = Len(q) - 1
      /\ \A i \in 1..Len(r) : r[i] = q[i + 1]
  BY HeadTailProperties
<1>1. Len(q) \in Nat /\ Len(q) > 0 /\ Len(r) \in Nat
  BY <1>0, EmptySeq
<1>. HIDE DEF r
<1>2. Echo(r, w, gone)
  <2>. SUFFICES ASSUME NEW i \in 1..Len(r), NEW t \in Turn, Opens(r[i], t)
                PROVE  \/ i < Len(r) /\ GoesOn(r[i + 1], t)
                       \/ i = Len(r) /\ (w = t \/ gone)
    BY DEF Echo
  <2>1. i + 1 \in 1..Len(q) /\ Opens(q[i + 1], t)
    BY <1>0, <1>1
  <2>2. \/ i + 1 < Len(q) /\ GoesOn(q[(i + 1) + 1], t)
        \/ i + 1 = Len(q) /\ (w = t \/ gone)
    BY <2>1 DEF Echo
  <2>3. CASE i + 1 < Len(q)
    <3>1. i + 1 \in 1..Len(r) /\ i < Len(r)
      BY <1>0, <1>1, <2>3
    <3>2. r[i + 1] = q[(i + 1) + 1]
      BY <1>0, <3>1
    <3>3. GoesOn(q[(i + 1) + 1], t)
      BY <2>2, <2>3, <1>1
    <3>. QED
      BY <3>1, <3>2, <3>3
  <2>4. CASE i + 1 = Len(q)
    BY <1>0, <1>1, <2>2, <2>4
  <2>. QED
    BY <2>2, <2>3, <2>4
<1>3. ASSUME NEW t \in Turn, Opens(Head(q), t) PROVE Heard(r, w, gone, t)
  <2>0. 1 \in 1..Len(q) /\ Opens(q[1], t)
    BY <1>0, <1>1, <1>3
  <2>1. \/ Len(q) > 1 /\ GoesOn(q[1 + 1], t)
        \/ Len(q) = 1 /\ (w = t \/ gone)
    BY <1>1, <2>0 DEF Echo
  <2>2. CASE Len(q) > 1
    <3>1. 1 \in 1..Len(r) /\ r # <<>>
      BY <1>0, <1>1, <2>2
    <3>2. Head(r) = r[1] /\ r[1] = q[1 + 1]
      BY <1>0, <3>1, HeadTailProperties
    <3>. QED
      BY <2>1, <2>2, <3>1, <3>2 DEF Heard
  <2>3. CASE Len(q) = 1
    <3>1. r = <<>>
      BY <1>0, <1>1, <2>3, EmptySeq
    <3>2. ~(Len(q) > 1)
      BY <1>1, <2>3
    <3>. QED
      BY <2>1, <3>1, <3>2 DEF Heard
  <2>. QED
    BY <2>1, <2>2, <2>3
<1>. QED
  BY <1>2, <1>3 DEF r

LEMMA EchoMisc ==
  /\ \A w, gone : Echo(<<>>, w, gone)
  /\ \A q, w, gone, v : Echo(q, w, gone) => Echo(q, v, TRUE)
  /\ \A q, w, gone, v, t : Heard(q, w, gone, t) => Heard(q, v, TRUE, t)
  /\ \A v, t : Heard(<<>>, v, TRUE, t)
BY DEF Echo, Heard

(* What a step does to the lines of a process: nothing, or the process      *)
(* ends, or they are dropped when nobody listens any more, or it speaks.    *)
Adds(x, lines) == out'[x] = out[x] \o lines /\ state[x] # "gone" /\ state'[x] # "gone"

Lines(x) ==
    \/ /\ out'[x] = out[x] /\ work'[x] = work[x]
       /\ (state'[x] = "gone") = (state[x] = "gone")
    \/ out'[x] = out[x] /\ state'[x] = "gone"
    \/ /\ out'[x] = <<>>
       /\ state'[x] = "gone" \/ \A u \in Turn : Listens(u)' => turn'[u].proc # x
    \/ \E m \in Turn : Adds(x, <<Replay(m)>>) /\ work[x] = None /\ work'[x] = m
    \/ \E m \in Turn : Adds(x, <<Text(m)>>) /\ work[x] = m /\ work'[x] = m
    \/ \E a \in Line : /\ Adds(x, <<a, Lifecycle>>) /\ work'[x] = None
                       /\ a.kind \in {"result", "error"} /\ a.of = work[x]
    \/ \E a \in Line : /\ Adds(x, <<a>>) /\ a.kind = "result"
                       /\ work[x] = None /\ work'[x] = None

(* What it does to a turn, unless the turn reads a line.                    *)
Hears(u) ==
    /\ turn'[u].started => /\ turn[u].started /\ turn'[u].phase \in {"reading", "draining"}
                           /\ turn'[u].phase = "reading" => turn[u].phase = "reading"
                           /\ turn'[u].proc = turn[u].proc
    /\ turn'[u].phase = "answered" => turn'[u] = turn[u]

LEMMA EchoLine ==
  ASSUME Inv, Inv', EchoInv, NEW x \in Turn, Lines(x)
  PROVE  /\ Echo(out'[x], work'[x], state'[x] = "gone")
         /\ \A t \in Turn : /\ Heard(out[x], work[x], state[x] = "gone", t)
                            /\ Listens(t)' /\ turn'[t].proc = x
                            => Heard(out'[x], work'[x], state'[x] = "gone", t)
<1>0. /\ out[x] \in Seq(Line) /\ work[x] \in Turn \cup {None}
      /\ Echo(out[x], work[x], state[x] = "gone")
  BY DEF Inv, Typed, ProcsTyped, EchoInv
<1>1. CASE /\ out'[x] = out[x] /\ work'[x] = work[x]
           /\ (state'[x] = "gone") = (state[x] = "gone")
  BY <1>0, <1>1
<1>2. CASE out'[x] = out[x] /\ state'[x] = "gone"
  <2>1. (state'[x] = "gone") = TRUE
    BY <1>2
  <2>. QED
    BY <1>0, <1>2, <2>1, EchoMisc
<1>3. CASE /\ out'[x] = <<>>
           /\ state'[x] = "gone" \/ \A u \in Turn : Listens(u)' => turn'[u].proc # x
  <2>1. state'[x] = "gone" => (state'[x] = "gone") = TRUE
    OBVIOUS
  <2>. QED
    BY <1>3, <2>1, EchoMisc
<1>4. ASSUME NEW m \in Turn, Adds(x, <<Replay(m)>>), work[x] = None, work'[x] = m
      PROVE  /\ Echo(out'[x], m, FALSE)
             /\ \A t \in Turn : Heard(out[x], None, FALSE, t) => Heard(out'[x], m, FALSE, t)
  <2>1. (state[x] = "gone") = FALSE
    BY <1>4 DEF Adds
  <2>2. Echo(out[x], None, FALSE)
    BY <1>0, <1>4, <2>1
  <2>. QED
    BY <1>0, <1>4, <2>2, EchoTaken DEF Adds
<1>5. ASSUME NEW a \in Line, Adds(x, <<a, Lifecycle>>), work'[x] = None,
             a.kind \in {"result", "error"}, a.of = work[x]
      PROVE  /\ Echo(out'[x], None, FALSE)
             /\ \A t \in Turn : Heard(out[x], work[x], FALSE, t) => Heard(out'[x], None, FALSE, t)
  <2>1. (state[x] = "gone") = FALSE
    BY <1>5 DEF Adds
  <2>2. Echo(out[x], work[x], FALSE)
    BY <1>0, <2>1
  <2>. QED
    BY <1>0, <1>5, <2>2, EchoAnswered DEF Adds
<1>6. ASSUME NEW a \in Line, Adds(x, <<a>>), a.kind = "result", work[x] = None, work'[x] = None
      PROVE  /\ Echo(out'[x], None, FALSE)
             /\ \A t \in Turn : Heard(out[x], None, FALSE, t) => Heard(out'[x], None, FALSE, t)
  <2>1. (state[x] = "gone") = FALSE
    BY <1>6 DEF Adds
  <2>2. Echo(out[x], None, FALSE)
    BY <1>0, <1>6, <2>1
  <2>. QED
    BY <1>0, <1>6, <2>2, EchoOwn DEF Adds
<1>7. ASSUME NEW m \in Turn, Adds(x, <<Text(m)>>), work[x] = m, work'[x] = m
      PROVE  /\ Echo(out'[x], m, FALSE)
             /\ \A t \in Turn : Heard(out[x], m, FALSE, t) => Heard(out'[x], m, FALSE, t)
  <2>1. (state[x] = "gone") = FALSE
    BY <1>7 DEF Adds
  <2>2. Echo(out[x], m, FALSE)
    BY <1>0, <1>7, <2>1
  <2>. QED
    BY <1>0, <1>7, <2>2, EchoSpoken DEF Adds
<1>8. CASE \E lines : Adds(x, lines)
  <2>1. (state[x] = "gone") = FALSE /\ (state'[x] = "gone") = FALSE
    BY <1>8 DEF Adds
  <2>2. CASE \E m \in Turn : Adds(x, <<Replay(m)>>) /\ work[x] = None /\ work'[x] = m
    BY <2>1, <2>2, <1>4
  <2>3. CASE \E a \in Line : /\ Adds(x, <<a, Lifecycle>>) /\ work'[x] = None
                             /\ a.kind \in {"result", "error"} /\ a.of = work[x]
    BY <2>1, <2>3, <1>5
  <2>4. CASE \E a \in Line : /\ Adds(x, <<a>>) /\ a.kind = "result"
                             /\ work[x] = None /\ work'[x] = None
    BY <2>1, <2>4, <1>6
  <2>5. CASE \E m \in Turn : Adds(x, <<Text(m)>>) /\ work[x] = m /\ work'[x] = m
    BY <2>1, <2>5, <1>7
  <2>. QED
    BY <1>1, <1>2, <1>3, <2>2, <2>3, <2>4, <2>5 DEF Lines
<1>. QED
  BY <1>1, <1>2, <1>3, <1>8 DEF Lines

LEMMA EchoKept ==
  ASSUME Inv, Inv', EchoInv, \A x \in Turn : Lines(x), \A u \in Turn : Hears(u)
  PROVE  EchoInv'
<1>1. \A e \in Turn : Echo(out'[e], work'[e], state'[e] = "gone")
  BY EchoLine
<1>2. ASSUME NEW t \in Turn, Listens(t)'
      PROVE  Heard(out'[turn'[t].proc], work'[turn'[t].proc], state'[turn'[t].proc] = "gone", t)
  <2>1. Listens(t) /\ turn'[t].proc = turn[t].proc /\ Works(t)
    BY <1>2 DEF Hears, Listens, Works
  <2>2. turn[t].proc \in Turn
    BY <2>1, HasProcess
  <2>3. Heard(out[turn[t].proc], work[turn[t].proc], state[turn[t].proc] = "gone", t)
    BY <2>1 DEF EchoInv
  <2>. QED
    BY <1>2, <2>1, <2>2, <2>3, EchoLine
<1>. QED
  BY <1>1, <1>2 DEF EchoInv, Hears

(* Turns that do not read a line.                                           *)
LEMMA NothingSaid ==
  ASSUME Inv, UNCHANGED <<work, out>>,
         \A x \in Turn : state'[x] # state[x] => state'[x] = "gone" \/ state[x] # "gone"
  PROVE  \A x \in Turn : Lines(x)
BY DEF Lines

LEMMA Gone ==
  ASSUME Inv, NEW e \in Turn, Kill(e)
  PROVE  \A x \in Turn : Lines(x)
BY DEF Lines, Kill, Inv, Typed, ProcsTyped

LEMMA RetiredGone ==
  ASSUME Inv, NEW E, state' = Retired(E)
  PROVE  \A x \in Turn : state'[x] # state[x] => state'[x] = "gone" \/ state[x] # "gone"
BY DEF Retired, Inv, Typed, ProcsTyped

LEMMA HearsNothing ==
  ASSUME Inv, EchoInv, NEW t \in Turn,
         \A u \in Turn \ {t} : turn'[u] = turn[u],
         \/ ~turn'[t].started /\ turn'[t].phase # "answered"
         \/ /\ turn'[t].started = turn[t].started /\ turn'[t].proc = turn[t].proc
            /\ \/ turn'[t].phase = turn[t].phase /\ turn[t].phase # "answered"
               \/ turn[t].phase \in {"spawning", "checking"} /\ turn'[t].phase = "reading"
               \/ turn'[t].phase = "draining"
  PROVE  \A u \in Turn : Hears(u)
BY DEF EchoInv, Hears

LEMMA Ends ==
  ASSUME Inv, NEW t \in Turn, NEW p \in {"failed", "oneshot"}, EndAs(t, p)
  PROVE  /\ \A u \in Turn \ {t} : turn'[u] = turn[u]
         /\ ~turn'[t].started /\ turn'[t].phase # "answered"
<1>1. turn'[t] = Over(p) /\ \A u \in Turn \ {t} : turn'[u] = turn[u]
  BY DEF EndAs, Inv, Typed
<1>2. Over(p).phase = p /\ Over(p).started = FALSE
  BY OverIsOver
<1>. QED
  BY <1>1, <1>2

LEMMA GivesUpSilent ==
  ASSUME Inv, NEW t \in Turn, Works(t), GiveUp(t)
  PROVE  /\ \A u \in Turn \ {t} : turn'[u] = turn[u]
         /\ ~turn'[t].started /\ turn'[t].phase # "answered"
<1>. DEFINE again == [NewTurn EXCEPT !.phase = "acquire", !.conv = turn[t].conv,
                                     !.sig = turn[t].sig, !.again = TRUE,
                                     !.output = turn[t].output]
<1>1. again.started = FALSE
  BY DEF NewTurn
<1>2. \/ EndAs(t, "failed")
      \/ turn' = [turn EXCEPT ![t] = again]
  BY DEF GiveUp
<1>3. CASE EndAs(t, "failed")
  BY <1>3, Ends
<1>4. CASE turn' = [turn EXCEPT ![t] = again]
  <2>1. turn'[t] = again
    BY <1>4 DEF Inv, Typed
  <2>. QED
    BY <1>1, <2>1, GivesUp
<1>. QED
  BY <1>2, <1>3, <1>4

LEMMA GoesTo ==
  ASSUME Inv, NEW t \in Turn, NEW p, Goto(t, p)
  PROVE  /\ \A u \in Turn \ {t} : turn'[u] = turn[u]
         /\ turn'[t].started = turn[t].started /\ turn'[t].proc = turn[t].proc
         /\ turn'[t].phase = p
<1>1. turn[t] \in TurnState /\ turn' = [turn EXCEPT ![t].phase = p]
      /\ turn \in [Turn -> TurnState]
  BY DEF Goto, Inv, Typed
<1>. QED
  BY <1>1 DEF TurnState

(* A turn that empties its process drops what only it would have read.      *)
LEMMA Emptied ==
  ASSUME Inv, EchoInv, NEW t \in Turn, Works(t), out' = [out EXCEPT ![turn[t].proc] = <<>>],
         UNCHANGED <<work, state>>, \A u \in Turn : Hears(u), ~Listens(t)'
  PROVE  \A x \in Turn : Lines(x)
<1>1. turn[t].proc \in Turn /\ \A u \in Turn \ {t} : Works(u) => turn[u].proc # turn[t].proc
  BY HasProcess
<1>2. \A u \in Turn : Listens(u)' => u # t /\ Works(u) /\ turn'[u].proc = turn[u].proc
  BY DEF Hears, Listens, Works
<1>3. out'[turn[t].proc] = <<>> /\ \A x \in Turn \ {turn[t].proc} : out'[x] = out[x]
  BY <1>1 DEF Inv, Typed, ProcsTyped
<1>4. Lines(turn[t].proc)
  BY <1>1, <1>2, <1>3 DEF Lines
<1>. QED
  BY <1>3, <1>4 DEF Lines

(* Every turn that does not read a line keeps it so.                        *)
LEMMA AskingEcho ==
  ASSUME Inv, Inv', EchoInv, NEW t \in Turn,
         Refused(t) \/ Reuse(t) \/ Spawn(t) \/ SpawnFails(t) \/ Spawned(t)
  PROVE  EchoInv'
<1>0. turn[t] \in TurnState /\ turn \in [Turn -> TurnState] /\ ProcsTyped
  BY DEF Inv, Typed
<1>1. \A u \in Turn : Hears(u)
  <2>1. CASE EndAs(t, "oneshot")
    BY <2>1, Ends, HearsNothing
  <2>2. CASE Goto(t, "reading") /\ turn[t].phase = "spawning"
    BY <2>2, GoesTo, HearsNothing
  <2>3. CASE Reuse(t)
    <3>1. ~turn[t].started /\ turn'[t].started = turn[t].started
          /\ turn'[t].phase = "checking" /\ \A u \in Turn \ {t} : turn'[u] = turn[u]
      BY <1>0, <2>3 DEF Reuse, TurnState, EchoInv
    <3>. QED
      BY <3>1, HearsNothing
  <2>4. CASE Spawn(t)
    <3>1. ~turn[t].started /\ turn'[t].started = turn[t].started
          /\ turn'[t].phase = "spawning" /\ \A u \in Turn \ {t} : turn'[u] = turn[u]
      BY <1>0, <2>4 DEF Spawn, TurnState, EchoInv
    <3>. QED
      BY <3>1, HearsNothing
  <2>. QED
    BY <2>1, <2>2, <2>3, <2>4 DEF Refused, SpawnFails, Spawned
<1>2. UNCHANGED <<work, out>>
  BY DEF Refused, Reuse, Spawn, SpawnFails, Spawned, procVars
<1>3. \A x \in Turn : state'[x] # state[x] => state'[x] = "gone" \/ state[x] # "gone"
  <2>1. CASE Spawn(t)
    <3>1. state[t] = "none"
      BY <2>1 DEF Spawn, Inv, Working
    <3>. QED
      BY <1>0, <2>1, <3>1 DEF Spawn, ProcsTyped, Retired
  <2>2. CASE turn[t].phase = "spawning"
    <3>1. state[t] = "spawning"
      BY <2>2 DEF Inv, Working
    <3>. QED
      BY <1>0, <2>2, <3>1 DEF Refused, Reuse, Spawn, SpawnFails, Spawned, ProcsTyped
  <2>. QED
    BY <2>1, <2>2 DEF Refused, Reuse, SpawnFails, Spawned, procVars
<1>. QED
  BY <1>1, <1>2, <1>3, NothingSaid, EchoKept

LEMMA CheckEcho ==
  ASSUME Inv, Inv', EchoInv, NEW t \in Turn, Check(t)
  PROVE  EchoInv'
<1>. DEFINE e == turn[t].proc
<1>0. turn[t].phase = "checking" /\ Works(t) /\ ~turn[t].started /\ e \in Turn
  BY HasProcess DEF Check, Works, EchoInv
<1>1. CASE Goto(t, "reading") /\ out' = [out EXCEPT ![e] = <<>>] /\ UNCHANGED <<work, state>>
  <2>1. (\A u \in Turn : Hears(u)) /\ ~Listens(t)'
    BY <1>0, <1>1, GoesTo, HearsNothing DEF Listens
  <2>. QED
    BY <1>0, <1>1, <2>1, Emptied, EchoKept
<1>2. CASE Kill(e) /\ GiveUp(t)
  <2>1. \A u \in Turn : Hears(u)
    BY <1>0, <1>2, GivesUpSilent, HearsNothing
  <2>. QED
    BY <1>0, <1>2, <2>1, Gone, EchoKept
<1>. QED
  BY <1>1, <1>2 DEF Check

LEMMA SendEcho ==
  ASSUME Inv, Inv', EchoInv, NEW t \in Turn, Send(t) \/ SendFailed(t)
  PROVE  EchoInv'
<1>0. turn[t] \in TurnState /\ turn \in [Turn -> TurnState]
  BY DEF Inv, Typed
<1>1. CASE Send(t)
  <2>1. /\ turn'[t].started = turn[t].started /\ turn'[t].proc = turn[t].proc
        /\ turn'[t].phase = turn[t].phase /\ turn[t].phase = "reading"
        /\ \A u \in Turn \ {t} : turn'[u] = turn[u]
    BY <1>0, <1>1 DEF Send, TurnState
  <2>2. UNCHANGED <<work, out, state>>
    BY <1>1 DEF Send
  <2>. QED
    BY <2>1, <2>2, HearsNothing, NothingSaid, EchoKept
<1>2. CASE SendFailed(t)
  <2>1. \A u \in Turn : Hears(u)
    BY <1>2, GoesTo, HearsNothing DEF SendFailed
  <2>2. UNCHANGED <<work, out>> /\ state' = Retired({turn[t].proc})
    BY <1>2 DEF SendFailed
  <2>. QED
    BY <2>1, <2>2, RetiredGone, NothingSaid, EchoKept
<1>. QED
  BY <1>1, <1>2

LEMMA OverEcho ==
  ASSUME Inv, Inv', EchoInv, NEW t \in Turn, Ended(t) \/ Cancelled(t) \/ Drain(t)
  PROVE  EchoInv'
<1>. DEFINE e == turn[t].proc
<1>0. turn[t] \in TurnState /\ turn \in [Turn -> TurnState] /\ ProcsTyped
      /\ Works(t) /\ e \in Turn
  BY HasProcess DEF Inv, Typed, Ended, Cancelled, Drain, Works
<1>1. CASE GiveUp(t) /\ UNCHANGED <<work, out, state>>
  BY <1>0, <1>1, GivesUpSilent, HearsNothing, NothingSaid, EchoKept
<1>2. CASE Cancelled(t)
  <2>1. \A u \in Turn : Hears(u)
    BY <1>2, Ends, HearsNothing DEF Cancelled
  <2>. QED
    BY <1>0, <1>2, <2>1, Gone, EchoKept DEF Cancelled
<1>3. CASE /\ turn[t].phase = "draining" /\ out' = [out EXCEPT ![e] = <<>>]
           /\ turn' = [turn EXCEPT ![t].output = TRUE] /\ UNCHANGED <<work, state>>
  <2>1. /\ turn'[t].started = turn[t].started /\ turn'[t].proc = turn[t].proc
        /\ turn'[t].phase = turn[t].phase
        /\ \A u \in Turn \ {t} : turn'[u] = turn[u]
    BY <1>0, <1>3 DEF TurnState
  <2>2. (\A u \in Turn : Hears(u)) /\ ~Listens(t)'
    BY <1>3, <2>1, HearsNothing DEF Listens
  <2>. QED
    BY <1>0, <1>3, <2>2, Emptied, EchoKept
<1>. QED
  BY <1>1, <1>2, <1>3 DEF Ended, Drain, procVars

(* What a turn returns is the answer to what it was asked.                  *)
LEMMA ReadEcho ==
  ASSUME Inv, Inv', EchoInv, NEW t \in Turn, Read(t)
  PROVE  EchoInv'
<1>. DEFINE e == turn[t].proc
            q == out[e]
            line == Head(q)
            gone == state[e] = "gone"
<1>0. /\ turn[t] \in TurnState /\ turn \in [Turn -> TurnState] /\ ProcsTyped
      /\ turn[t].phase = "reading" /\ Works(t) /\ out' = [out EXCEPT ![e] = Tail(@)]
      /\ q # <<>> /\ UNCHANGED work
  BY DEF Inv, Typed, Read, Works
<1>1. e \in Turn /\ \A u \in Turn \ {t} : Works(u) => turn[u].proc \in Turn /\ turn[u].proc # e
  BY <1>0, HasProcess
<1>2. q \in Seq(Line) /\ Echo(q, work[e], gone) /\ gone \in BOOLEAN
  BY <1>0, <1>1 DEF ProcsTyped, EchoInv
<1>3. /\ Echo(Tail(q), work[e], gone)
      /\ Opens(line, t) => Heard(Tail(q), work[e], gone, t)
  BY <1>0, <1>2, EchoRead
<1>4. turn[t].started => GoesOn(line, t)
  BY <1>0, <1>1 DEF EchoInv, Listens, Heard
<1>5. \A x \in Turn : (state'[x] = "gone") = (state[x] = "gone")
  BY <1>0 DEF Read, Release, Retired, ProcsTyped
<1>6. out'[e] = Tail(q) /\ \A x \in Turn \ {e} : out'[x] = out[x]
  BY <1>0, <1>1 DEF ProcsTyped
<1>7. \A x \in Turn : Echo(out'[x], work'[x], state'[x] = "gone")
  <2>1. \A x \in Turn \ {e} : Echo(out'[x], work'[x], state'[x] = "gone")
    BY <1>0, <1>5, <1>6 DEF EchoInv
  <2>. QED
    BY <1>0, <1>1, <1>3, <1>5, <1>6, <2>1
<1>8. /\ \A u \in Turn \ {t} : turn'[u] = turn[u]
      /\ \/ /\ ~IsOutput(turn[t], line)
            /\ turn'[t].started = (turn[t].started \/ line = Replay(t))
            /\ turn'[t].phase = "reading" /\ turn'[t].proc = e
         \/ /\ turn[t].started /\ line.kind \notin {"result", "error"}
            /\ turn'[t].phase = "reading" /\ turn'[t].proc = e
         \/ /\ turn[t].started /\ turn'[t].answer = line.of
            /\ turn'[t].phase = "answered" /\ ~turn'[t].started
         \/ turn[t].started /\ turn'[t].phase = "draining"
  <2>1. CASE /\ ~IsOutput(turn[t], line)
             /\ turn' = [turn EXCEPT ![t].started =
                           @ \/ line = [kind |-> "replay", of |-> t]]
    BY <1>0, <2>1 DEF TurnState, Replay
  <2>2. CASE /\ turn[t].started
             /\ turn' = [turn EXCEPT ![t] = [Over("answered") EXCEPT !.answer = line.of]]
    <3>. DEFINE r == [Over("answered") EXCEPT !.answer = line.of]
    <3>1. r.answer = line.of /\ r.phase = "answered" /\ r.started = FALSE
      BY DEF Over, NewTurn
    <3>2. turn'[t] = r /\ \A u \in Turn \ {t} : turn'[u] = turn[u]
      BY <1>0, <2>2
    <3>. QED
      BY <2>2, <3>1, <3>2
  <2>3. CASE /\ turn[t].started
             /\ turn' = [turn EXCEPT ![t] = [turn[t] EXCEPT !.phase = "draining",
                                                            !.output = TRUE]]
    BY <1>0, <2>3 DEF TurnState
  <2>4. CASE /\ turn[t].started /\ line.kind \notin {"result", "error"}
             /\ turn' = [turn EXCEPT ![t].output = TRUE]
    BY <1>0, <2>4 DEF TurnState
  <2>. QED
    BY <2>1, <2>2, <2>3, <2>4 DEF Read, IsOutput
<1>9. ASSUME NEW u \in Turn \ {t}
      PROVE  /\ Listens(u)' => Heard(out'[turn'[u].proc], work'[turn'[u].proc],
                                     state'[turn'[u].proc] = "gone", u)
             /\ turn'[u].started => turn'[u].phase \in {"reading", "draining"}
             /\ turn'[u].phase = "answered" => turn'[u].answer = u
  <2>1. turn'[u] = turn[u]
    BY <1>8
  <2>2. Listens(u) => turn[u].proc \in Turn \ {e}
    BY <1>1 DEF Listens, Works
  <2>3. Listens(u) => Heard(out[turn[u].proc], work[turn[u].proc],
                            state[turn[u].proc] = "gone", u)
    BY DEF EchoInv
  <2>4. Listens(u)' <=> Listens(u)
    BY <2>1 DEF Listens
  <2>5. Listens(u)' => Heard(out'[turn'[u].proc], work'[turn'[u].proc],
                             state'[turn'[u].proc] = "gone", u)
    BY <1>0, <1>5, <1>6, <2>1, <2>2, <2>3, <2>4
  <2>. QED
    BY <2>1, <2>5 DEF EchoInv
<1>10. /\ Listens(t)' => Heard(out'[turn'[t].proc], work'[turn'[t].proc],
                               state'[turn'[t].proc] = "gone", t)
       /\ turn'[t].started => turn'[t].phase \in {"reading", "draining"}
       /\ turn'[t].phase = "answered" => turn'[t].answer = t
  <2>1. CASE /\ ~IsOutput(turn[t], line)
             /\ turn'[t].started = (turn[t].started \/ line = Replay(t))
             /\ turn'[t].phase = "reading" /\ turn'[t].proc = e
    <3>1. ~turn[t].started
      BY <1>4, <2>1 DEF IsOutput, GoesOn
    <3>2. turn'[t].started => Heard(Tail(q), work[e], gone, t)
      <4>1. Opens(Replay(t), t)
        BY DEF Opens, Replay
      <4>. QED
        BY <1>3, <2>1, <3>1, <4>1
    <3>3. turn'[t].started => Heard(out'[e], work'[e], state'[e] = "gone", t)
      BY <1>0, <1>1, <1>5, <1>6, <3>2
    <3>. QED
      BY <2>1, <3>3 DEF Listens
  <2>2. CASE /\ turn[t].started /\ turn'[t].answer = line.of
             /\ turn'[t].phase = "answered" /\ ~turn'[t].started
    BY <1>4, <2>2 DEF GoesOn, Listens
  <2>3. CASE turn[t].started /\ turn'[t].phase = "draining"
    BY <2>3 DEF Listens
  <2>4. CASE /\ turn[t].started /\ line.kind \notin {"result", "error"}
             /\ turn'[t].phase = "reading" /\ turn'[t].proc = e
    <3>1. Opens(line, t)
      BY <1>4, <2>4 DEF GoesOn, Opens
    <3>2. Heard(out'[e], work'[e], state'[e] = "gone", t)
      BY <1>0, <1>1, <1>3, <1>5, <1>6, <3>1
    <3>. QED
      BY <2>4, <3>2 DEF Listens
  <2>. QED
    BY <1>8, <2>1, <2>2, <2>3, <2>4
<1>. QED
  BY <1>7, <1>9, <1>10 DEF EchoInv

(* The steps that no turn takes, and the start of one.                      *)
LEMMA SilentEcho ==
  ASSUME Inv, Inv', EchoInv, UNCHANGED turn, \A x \in Turn : Lines(x)
  PROVE  EchoInv'
<1>1. \A u \in Turn : Hears(u)
  BY DEF Hears, EchoInv
<1>. QED
  BY <1>1, EchoKept

LEMMA StartEcho ==
  ASSUME Inv, Inv', EchoInv, NEW t \in Turn, NEW c \in Conv, NEW s \in Sig, Start(t, c, s)
  PROVE  EchoInv'
<1>0. turn[t] \in TurnState /\ turn \in [Turn -> TurnState] /\ turn[t].phase = "new"
      /\ ~turn[t].started /\ UNCHANGED <<work, out>>
  BY DEF Start, Inv, Typed, EchoInv
<1>1. CASE /\ turn' = [turn EXCEPT ![t] = [turn[t] EXCEPT !.phase = "acquire", !.conv = c,
                                                          !.sig = s]]
           /\ UNCHANGED state
  <2>1. /\ turn'[t].started = turn[t].started /\ turn'[t].phase = "acquire"
        /\ \A u \in Turn \ {t} : turn'[u] = turn[u]
    BY <1>0, <1>1 DEF TurnState
  <2>. QED
    BY <1>0, <1>1, <2>1, HearsNothing, NothingSaid, EchoKept
<1>2. CASE EndAs(t, "oneshot") /\ state' = Retired(Idle)
  <2>1. \A u \in Turn : Hears(u)
    BY <1>2, Ends, HearsNothing
  <2>. QED
    BY <1>0, <1>2, <2>1, RetiredGone, NothingSaid, EchoKept
<1>. QED
  BY <1>1, <1>2 DEF Start, poolVars

LEMMA ProcessEcho ==
  ASSUME Inv, Inv', EchoInv, NEW e \in Turn,
         \/ TakeMessage(e) \/ Speak(e) \/ Finish(e)
         \/ OwnTurn(e) \/ Exit(e) \/ GraceOver(e)
  PROVE  EchoInv'
<1>0. ProcsTyped /\ out[e] \in Seq(Line) /\ inbox[e] \in Turn \cup {None}
      /\ work[e] \in Turn \cup {None} /\ UNCHANGED turn
  BY DEF Inv, Typed, ProcsTyped, TakeMessage, Speak, Finish, OwnTurn, Exit, GraceOver
<1>1. CASE TakeMessage(e)
  <2>1. /\ inbox[e] \in Turn /\ work[e] = None /\ work'[e] = inbox[e]
        /\ Adds(e, <<Replay(inbox[e])>>)
        /\ \A x \in Turn \ {e} : out'[x] = out[x] /\ work'[x] = work[x]
        /\ UNCHANGED state
    BY <1>0, <1>1 DEF TakeMessage, Says, Reading, ProcsTyped, Adds
  <2>. QED
    BY <1>0, <2>1, SilentEcho DEF Lines
<1>2. CASE Finish(e)
  <2>1. PICK kind \in {"result", "error"} :
           Says(e, <<[kind |-> kind, of |-> work[e]], Lifecycle>>)
    BY <1>2 DEF Finish
  <2>. DEFINE a == [kind |-> kind, of |-> work[e]]
  <2>2. a \in Line /\ a.kind \in {"result", "error"} /\ a.of = work[e]
    BY <1>0 DEF Line
  <2>. HIDE DEF a
  <2>3. /\ work'[e] = None /\ Adds(e, <<a, Lifecycle>>)
        /\ \A x \in Turn \ {e} : out'[x] = out[x] /\ work'[x] = work[x]
        /\ UNCHANGED state
    BY <1>0, <1>2, <2>1 DEF Finish, Says, Reading, ProcsTyped, Adds, a
  <2>. QED
    BY <1>0, <2>2, <2>3, SilentEcho DEF Lines
<1>3. CASE OwnTurn(e)
  <2>. DEFINE a == [kind |-> "result", of |-> None]
  <2>2. a \in Line /\ a.kind = "result"
    BY DEF Line
  <2>. HIDE DEF a
  <2>3. /\ work[e] = None /\ work'[e] = None /\ Adds(e, <<a>>)
        /\ \A x \in Turn \ {e} : out'[x] = out[x] /\ work'[x] = work[x]
        /\ UNCHANGED state
    BY <1>0, <1>3 DEF OwnTurn, Says, Reading, ProcsTyped, Adds, a
  <2>. QED
    BY <1>0, <2>2, <2>3, SilentEcho DEF Lines
<1>4. CASE Exit(e)
  <2>1. /\ state'[e] = "gone" /\ (out'[e] = out[e] \/ out'[e] = <<>>)
        /\ \A x \in Turn \ {e} : out'[x] = out[x] /\ work'[x] = work[x] /\ state'[x] = state[x]
    BY <1>0, <1>4 DEF Exit, ProcsTyped
  <2>. QED
    BY <1>0, <2>1, SilentEcho DEF Lines
<1>5. CASE GraceOver(e)
  BY <1>0, <1>5, Gone, SilentEcho DEF GraceOver
<1>6. CASE Speak(e)
  <2>1. /\ work[e] \in Turn /\ work'[e] = work[e] /\ Adds(e, <<Text(work[e])>>)
        /\ \A x \in Turn \ {e} : out'[x] = out[x] /\ work'[x] = work[x]
        /\ UNCHANGED state
    BY <1>0, <1>6 DEF Speak, Says, Reading, ProcsTyped, Adds
  <2>. QED
    BY <1>0, <2>1, SilentEcho DEF Lines
<1>. QED
  BY <1>1, <1>2, <1>3, <1>4, <1>5, <1>6

LEMMA OthersEcho ==
  ASSUME Inv, Inv', EchoInv, UNCHANGED <<turn, work, out>>,
         (state' = state) \/ \E E : state' = Retired(E)
  PROVE  EchoInv'
BY RetiredGone, NothingSaid, SilentEcho

LEMMA EchoInvariance == Spec => []EchoInv
<1>1. Init => EchoInv
  BY EchoMisc DEF Init, EchoInv, Listens, NewTurn
<1>2. Inv /\ Inv' /\ EchoInv /\ [Next]_vars => EchoInv'
  <2>. SUFFICES ASSUME Inv, Inv', EchoInv, [Next]_vars PROVE EchoInv'
    OBVIOUS
  <2>1. ASSUME NEW t \in Turn, TurnStep(t) PROVE EchoInv'
    BY <2>1, AskingEcho, CheckEcho, SendEcho, ReadEcho, OverEcho DEF TurnStep
  <2>2. ASSUME NEW e \in Turn, TimerFires(e) \/ EvictIdle(e) PROVE EchoInv'
    BY <2>2, OthersEcho DEF TimerFires, EvictIdle, procVars
  <2>3. CASE Close \/ Toggle \/ UNCHANGED vars
    BY <2>3, OthersEcho DEF Close, Toggle, procVars, vars
  <2>. QED
    BY <2>1, <2>2, <2>3, StartEcho, ProcessEcho DEF Next, HostStep
<1>. QED
  BY <1>1, <1>2, Invariance, PTL DEF Spec

(* The answer that a turn returns is the one to its own prompt.             *)
THEOREM AnswersAreOwn == Spec => []AnswerIsOwn
<1>1. EchoInv => AnswerIsOwn
  BY DEF EchoInv, AnswerIsOwn
<1>. QED
  BY <1>1, EchoInvariance, PTL

-----------------------------------------------------------------------------
(* No process is forgotten: what runs and is not being retired is pooled.   *)
UpIsPooled == \A e \in Turn : state[e] = "up" => e \in Pooled

LEMMA PoolAsItWas ==
  ASSUME Inv, UpIsPooled, UNCHANGED pool, \A x \in Turn : state'[x] = "up" => state[x] = "up"
  PROVE  UpIsPooled'
BY DEF UpIsPooled, Pooled

LEMMA PoolWithout ==
  ASSUME Inv, UpIsPooled, NEW E \in SUBSET Turn, Remove(E),
         \A x \in Turn : state'[x] = "up" => state[x] = "up" /\ x \notin E
  PROVE  UpIsPooled'
BY Removed DEF UpIsPooled, Inv, Typed

LEMMA RetiredAre ==
  ASSUME Inv, NEW E, state' = Retired(E)
  PROVE  \A x \in Turn : state'[x] = "up" => state[x] = "up" /\ x \notin E
BY DEF Retired, Inv, Typed, ProcsTyped

LEMMA KilledIs ==
  ASSUME Inv, NEW e \in Turn, state' = [state EXCEPT ![e] = "gone"]
  PROVE  \A x \in Turn : state'[x] = "up" => state[x] = "up" /\ x \notin {e}
BY DEF Inv, Typed, ProcsTyped

LEMMA UpStep ==
  ASSUME Inv, Inv', UpIsPooled, [Next]_vars
  PROVE  UpIsPooled'
<1>. USE DEF Inv, Typed
<1>0. Pooled \in SUBSET Turn /\ Idle \in SUBSET Turn
  BY DEF Pooled, Idle
<1>1. ASSUME NEW E \in SUBSET Turn, Remove(E), state' = Retired(E) PROVE UpIsPooled'
  BY <1>1, PoolWithout, RetiredAre
<1>2. CASE UNCHANGED <<pool, state>>
  BY <1>2, PoolAsItWas
<1>3. ASSUME NEW t \in Turn, TurnStep(t) PROVE UpIsPooled'
  <2>. DEFINE e == turn[t].proc
  <2>1. CASE Refused(t) \/ Reuse(t) \/ Send(t) \/ Drain(t)
    BY <1>2, <2>1 DEF Refused, Reuse, Send, Drain, poolVars, procVars
  <2>2. CASE Spawn(t)
    <3>. DEFINE old == pool[turn[t].conv]
                stale == {old} \ {None}
                E == stale \cup RoomIn(Pooled \ stale)
    <3>1. /\ pool' = [[c \in Conv |-> IF pool[c] \in E THEN None ELSE pool[c]]
                        EXCEPT ![turn[t].conv] = t]
          /\ state' = [Retired(E) EXCEPT ![t] = "spawning"]
          /\ turn[t].conv \in Conv
      BY <2>2 DEF Spawn, Working
    <3>2. old \in E \/ old = None
      OBVIOUS
    <3>. HIDE DEF E
    <3>3. \A x \in Turn : state'[x] = "up" => state[x] = "up" /\ x \notin E
      BY <3>1 DEF Retired, ProcsTyped
    <3>4. ASSUME NEW x \in Turn, state'[x] = "up" PROVE x \in Pooled'
      <4>0. None \notin Turn
        BY PoolAssumption DEF None, Turn
      <4>1. x \notin E /\ x \in Pooled
        BY <3>3, <3>4 DEF UpIsPooled
      <4>2. PICK c \in Conv : pool[c] = x
        BY <4>1 DEF Pooled
      <4>3. c # turn[t].conv
        BY <3>2, <4>0, <4>1, <4>2
      <4>4. pool'[c] = x
        BY <3>1, <4>1, <4>2, <4>3
      <4>. QED
        BY <4>4 DEF Pooled
    <3>. QED
      BY <3>4 DEF UpIsPooled
  <2>3. CASE SpawnFails(t)
    BY <2>3, KilledIs, PoolWithout DEF SpawnFails
  <2>4. CASE Spawned(t)
    <3>1. UNCHANGED pool /\ turn[t].conv \in Conv
      BY <2>4 DEF Spawned, poolVars, Working, Works
    <3>2. CASE state' = [state EXCEPT ![t] = "gone"]
      BY <3>1, <3>2, KilledIs, PoolAsItWas
    <3>3. CASE state' = [state EXCEPT ![t] = "up"] /\ pool[turn[t].conv] = t
      <4>1. t \in Pooled'
        BY <3>1, <3>3 DEF Pooled
      <4>2. \A x \in Turn \ {t} : state'[x] = "up" => x \in Pooled'
        BY <3>1, <3>3 DEF ProcsTyped, UpIsPooled, Pooled
      <4>. QED
        BY <4>1, <4>2 DEF UpIsPooled
    <3>. QED
      BY <2>4, <3>2, <3>3 DEF Spawned
  <2>5. CASE Remove({e}) /\ Kill(e) /\ Works(t)
    <3>1. e \in Turn
      BY <2>5, HasProcess
    <3>. QED
      BY <2>5, <3>1, KilledIs, PoolWithout DEF Kill
  <2>6. CASE Check(t) \/ Cancelled(t)
    <3>1. Works(t)
      BY <2>6 DEF Check, Cancelled, Works
    <3>. QED
      BY <1>2, <2>5, <2>6, <3>1 DEF Check, Cancelled
  <2>7. CASE SendFailed(t)
    BY <1>1, <2>7, HasProcess DEF SendFailed, Works
  <2>8. CASE Read(t)
    <3>1. Works(t)
      BY <2>8 DEF Read, Works
    <3>2. e \in Turn
      BY <3>1, HasProcess
    <3>. QED
      BY <1>1, <1>2, <2>8, <3>2 DEF Read, Release, poolVars
  <2>9. CASE Ended(t)
    <3>1. Works(t) /\ state[e] = "gone" /\ Remove({e}) /\ state' = state
      BY <2>9 DEF Ended, Works, procVars
    <3>2. e \in Turn
      BY <3>1, HasProcess
    <3>3. \A x \in Turn : state'[x] = "up" => state[x] = "up" /\ x \notin {e}
      BY <3>1
    <3>. QED
      BY <3>1, <3>2, <3>3, PoolWithout
  <2>. QED
    BY <1>3, <2>1, <2>2, <2>3, <2>4, <2>6, <2>7, <2>8, <2>9 DEF TurnStep
<1>4. ASSUME NEW e \in Turn, TimerFires(e) \/ EvictIdle(e) \/ GraceOver(e) PROVE UpIsPooled'
  <2>1. CASE GraceOver(e)
    BY <2>1, KilledIs, PoolAsItWas DEF GraceOver, Kill, poolVars
  <2>. QED
    BY <1>1, <1>2, <1>4, <2>1 DEF TimerFires, EvictIdle, procVars
<1>5. ASSUME NEW e \in Turn, TakeMessage(e) \/ Speak(e) \/ Finish(e) \/ OwnTurn(e) \/ Exit(e)
      PROVE  UpIsPooled'
  <2>1. CASE Exit(e)
    BY <2>1, KilledIs, PoolAsItWas DEF Exit
  <2>. QED
    BY <1>2, <1>5, <2>1 DEF TakeMessage, Speak, Finish, OwnTurn, poolVars
<1>6. ASSUME NEW t \in Turn, NEW c \in Conv, NEW s \in Sig, Start(t, c, s) PROVE UpIsPooled'
  BY <1>0, <1>1, <1>2, <1>6 DEF Start, poolVars
<1>7. CASE Close \/ Toggle \/ UNCHANGED vars
  BY <1>0, <1>1, <1>2, <1>7 DEF Close, Toggle, poolVars, procVars, vars
<1>. QED
  BY <1>3, <1>4, <1>5, <1>6, <1>7 DEF Next, HostStep

(* A process that runs is pooled, so that somebody retires it.              *)
THEOREM NoneIsForgotten == Spec => []EveryProcessIsOwned
<1>1. Init => UpIsPooled
  BY DEF Init, UpIsPooled
<1>2. UpIsPooled => EveryProcessIsOwned
  BY DEF UpIsPooled, EveryProcessIsOwned
<1>. QED
  BY <1>1, <1>2, UpStep, Invariance, PTL DEF Spec

-----------------------------------------------------------------------------
(* Room in the pool.                                                        *)

(* lastUsed orders the idle processes by the time of their release.         *)
Ordered ==
    /\ \A x \in Turn : <<x, x>> \notin lastUsed
    /\ \A x, y, z \in Turn :
         <<x, y>> \in lastUsed /\ <<y, z>> \in lastUsed => <<x, z>> \in lastUsed

Older(P, x) == {y \in P \cap Idle : <<y, x>> \in lastUsed}

(* A set of numbers that is not empty has a least one.                      *)
LEMMA LeastNumber ==
  ASSUME NEW T \in SUBSET Nat, T # {}
  PROVE  \E n \in T : \A m \in T : n <= m
<1>1. PICK n \in T : \A m \in T : ~ (<<m, n>> \in OpToRel(<, Nat))
  BY NatLessThanWellFounded, WFMin
<1>2. ASSUME NEW m \in T PROVE n <= m
  <2>1. <<m, n>> \notin OpToRel(<, Nat)
    BY <1>1
  <2>2. ~ (m < n)
    BY <2>1 DEF OpToRel
  <2>. QED
    BY <2>2
<1>. QED
  BY <1>2

(* If an idle process is not asked to make room, those that are make enough *)
(* of it: the least used of the others is younger than them only.           *)
LEMMA MakesRoom ==
  ASSUME Ordered, NEW P \in SUBSET Turn, NEW idle \in (P \cap Idle) \ RoomIn(P)
  PROVE  /\ IsFiniteSet(P \ RoomIn(P))
         /\ Cardinality(P \ RoomIn(P)) + 1 <= Cap
<1>. DEFINE R == RoomIn(P)
            m == Cardinality(P) - Cap
            size(x) == Cardinality(Older(P, x))
            T == {size(x) : x \in (P \cap Idle) \ R}
<1>1. IsFiniteSet(P)
  <2>1. IsFiniteSet(Turn)
    BY PoolAssumption, FS_Interval DEF Turn
  <2>. QED
    BY <2>1, FS_Subset
<1>2. R = {x \in P \cap Idle : size(x) <= m} /\ R \in SUBSET P
  BY DEF RoomIn, Older
<1>3. ASSUME NEW x PROVE IsFiniteSet(Older(P, x)) /\ size(x) \in Nat
  <2>1. Older(P, x) \in SUBSET P
    BY DEF Older
  <2>2. IsFiniteSet(Older(P, x))
    BY <1>1, <2>1, FS_Subset
  <2>. QED
    BY <2>2, FS_CardinalityType
<1>4. T \in SUBSET Nat /\ T # {}
  BY <1>3
<1>5. PICK x \in (P \cap Idle) \ R : \A y \in (P \cap Idle) \ R : size(x) <= size(y)
  <2>1. PICK n \in T : \A k \in T : n <= k
    BY <1>4, LeastNumber
  <2>2. PICK x \in (P \cap Idle) \ R : n = size(x)
    BY <2>1
  <2>3. \A y \in (P \cap Idle) \ R : size(y) \in T
    OBVIOUS
  <2>. QED
    BY <2>1, <2>2, <2>3
<1>6. Older(P, x) \subseteq R
  <2>. SUFFICES ASSUME NEW y \in Older(P, x), y \notin R PROVE FALSE
    OBVIOUS
  <2>1. y \in (P \cap Idle) \ R /\ <<y, x>> \in lastUsed /\ y \in Turn /\ x \in Turn
    BY DEF Older
  <2>2. Older(P, y) \in SUBSET Older(P, x) /\ y \notin Older(P, y)
    BY <2>1 DEF Older, Ordered
  <2>3. size(y) <= size(x) /\ size(y) # size(x)
    BY <1>3, <2>2, FS_Subset
  <2>4. size(x) <= size(y) /\ size(x) \in Nat /\ size(y) \in Nat
    BY <1>3, <1>5, <2>1
  <2>. QED
    BY <2>3, <2>4
<1>7. Cardinality(P) \in Nat /\ Cap \in Nat
  BY <1>1, FS_CardinalityType, PoolAssumption
<1>8. size(x) \in Nat /\ ~ (size(x) <= m)
  BY <1>2, <1>3
<1>9. IsFiniteSet(R) /\ Cardinality(R) \in Nat
  BY <1>1, <1>2, FS_Subset, FS_CardinalityType
<1>10. size(x) <= Cardinality(R)
  BY <1>6, <1>9, FS_Subset
<1>11. IsFiniteSet(P \ R) /\ Cardinality(P \ R) = Cardinality(P) - Cardinality(R)
  <2>1. P \cap R = R
    BY <1>2
  <2>. QED
    BY <1>1, <2>1, FS_Difference
<1>. HIDE DEF R, size
<1>12. Cardinality(P \ R) + 1 <= Cap
  BY <1>7, <1>8, <1>9, <1>10, <1>11
<1>. QED
  BY <1>11, <1>12 DEF R

(* A process that is released is younger than those that idle already.      *)
LEMMA YoungestIsLast ==
  ASSUME Inv, Ordered, NEW e \in Turn \ Idle, lastUsed' = lastUsed \cup (Idle \X {e})
  PROVE  Ordered'
<1>1. lastUsed \in SUBSET (Idle \X Idle) /\ Idle \in SUBSET Turn
  BY DEF Inv, Typed, PoolTyped, Idle, Pooled
<1>. QED
  BY <1>1 DEF Ordered

LEMMA FewerAreOrdered ==
  ASSUME Ordered, NEW E, lastUsed' = Without(E)
  PROVE  Ordered'
BY DEF Ordered, Without

LEMMA OrderedStep ==
  ASSUME Inv, Ordered, [Next]_vars
  PROVE  Ordered'
<1>1. CASE UNCHANGED lastUsed
  BY <1>1 DEF Ordered
<1>2. ASSUME NEW E, Remove(E) PROVE Ordered'
  BY <1>2, FewerAreOrdered DEF Remove
<1>3. ASSUME NEW t \in Turn, TurnStep(t) PROVE Ordered'
  <2>1. CASE Refused(t) \/ Send(t) \/ Drain(t) \/ Spawned(t)
    BY <1>1, <2>1 DEF Refused, Send, Drain, Spawned, poolVars
  <2>2. CASE Reuse(t)
    BY <2>2, FewerAreOrdered DEF Reuse
  <2>3. CASE Spawn(t)
    BY <2>3, FewerAreOrdered DEF Spawn
  <2>4. CASE SpawnFails(t) \/ SendFailed(t) \/ Ended(t) \/ Cancelled(t)
    BY <1>2, <2>4 DEF SpawnFails, SendFailed, Ended, Cancelled
  <2>5. CASE Check(t)
    BY <1>1, <1>2, <2>5 DEF Check
  <2>6. CASE Read(t)
    <3>. DEFINE e == turn[t].proc
    <3>1. CASE Remove({e}) \/ UNCHANGED poolVars
      BY <1>1, <1>2, <3>1 DEF poolVars
    <3>2. CASE /\ e \in Pooled /\ enabled /\ ~closed
               /\ lastUsed' = lastUsed \cup (Idle \X {e})
      <4>1. turn[t].phase = "reading" /\ e \in Turn
        BY <2>6, HasProcess DEF Read, Works
      <4>2. busy[e]
        BY <3>2, <4>1 DEF Inv, Working
      <4>3. e \in Turn \ Idle
        BY <4>1, <4>2 DEF Idle
      <4>. QED
        BY <3>2, <4>3, YoungestIsLast
    <3>. QED
      BY <2>6, <3>1, <3>2 DEF Read, Release
  <2>. QED
    BY <1>3, <2>1, <2>2, <2>3, <2>4, <2>5, <2>6 DEF TurnStep
<1>4. ASSUME NEW e \in Turn,
             \/ TimerFires(e) \/ EvictIdle(e) \/ GraceOver(e)
             \/ TakeMessage(e) \/ Speak(e) \/ Finish(e) \/ OwnTurn(e) \/ Exit(e)
      PROVE  Ordered'
  BY <1>1, <1>2, <1>4 DEF TimerFires, EvictIdle, GraceOver, TakeMessage, Speak,
     Finish, OwnTurn, Exit, poolVars
<1>5. ASSUME NEW t \in Turn, NEW c \in Conv, NEW s \in Sig, Start(t, c, s) PROVE Ordered'
  BY <1>1, <1>2, <1>5 DEF Start, poolVars
<1>6. CASE Close \/ Toggle \/ UNCHANGED vars
  BY <1>1, <1>2, <1>6 DEF Close, Toggle, poolVars, vars
<1>. QED
  BY <1>3, <1>4, <1>5, <1>6 DEF Next, HostStep

(* Only a turn that asks for a process starts one.                          *)
LEMMA OnlySpawnStarts ==
  ASSUME Inv, [Next]_vars, NEW e \in Turn, state[e] = "none", state'[e] = "spawning"
  PROVE  \E t \in Turn : Spawn(t)
<1>1. state \in [Turn -> ProcState]
  BY DEF Inv, Typed, ProcsTyped
<1>2. ASSUME NEW E, state' = Retired(E) PROVE FALSE
  BY <1>1, <1>2 DEF Retired
<1>3. ASSUME NEW x \in Turn, NEW v \in {"gone", "up"}, state' = [state EXCEPT ![x] = v]
      PROVE  FALSE
  BY <1>1, <1>3
<1>4. CASE UNCHANGED state
  BY <1>4
<1>5. ASSUME NEW t \in Turn, TurnStep(t), ~Spawn(t) PROVE FALSE
  <2>. DEFINE p == turn[t].proc
  <2>1. CASE Refused(t) \/ Reuse(t) \/ Send(t) \/ Drain(t) \/ Ended(t)
    BY <1>4, <2>1 DEF Refused, Reuse, Send, Drain, Ended, procVars
  <2>2. CASE SpawnFails(t) \/ Spawned(t)
    BY <1>3, <2>2 DEF SpawnFails, Spawned
  <2>3. CASE Check(t) \/ Cancelled(t)
    <3>1. p \in Turn
      BY <2>3, HasProcess DEF Check, Cancelled, Works
    <3>. QED
      BY <1>3, <1>4, <2>3, <3>1 DEF Check, Cancelled, Kill
  <2>4. CASE SendFailed(t) \/ Read(t)
    BY <1>2, <1>4, <2>4 DEF SendFailed, Read, Release
  <2>. QED
    BY <1>5, <2>1, <2>2, <2>3, <2>4 DEF TurnStep
<1>6. ASSUME NEW x \in Turn,
             \/ TimerFires(x) \/ EvictIdle(x) \/ GraceOver(x)
             \/ TakeMessage(x) \/ Speak(x) \/ Finish(x) \/ OwnTurn(x) \/ Exit(x)
      PROVE  FALSE
  BY <1>2, <1>3, <1>4, <1>6 DEF TimerFires, EvictIdle, GraceOver, TakeMessage, Speak,
     Finish, OwnTurn, Exit, Kill, procVars
<1>7. ASSUME NEW t \in Turn, NEW c \in Conv, NEW s \in Sig, Start(t, c, s) PROVE FALSE
  BY <1>2, <1>4, <1>7 DEF Start
<1>8. CASE Close \/ Toggle \/ UNCHANGED vars
  BY <1>2, <1>4, <1>8 DEF Close, Toggle, procVars, vars
<1>. QED
  BY <1>5, <1>6, <1>7, <1>8 DEF Next, HostStep

LEMMA SpawnKeepsCap ==
  ASSUME Inv, Ordered, NEW t \in Turn, Spawn(t), NEW x \in Pooled', ~busy'[x]
  PROVE  Cardinality(Pooled') <= Cap
<1>. DEFINE c == turn[t].conv
            stale == {pool[c]} \ {None}
            P == Pooled \ stale
            E == stale \cup RoomIn(P)
<1>0. None \notin Turn
  BY PoolAssumption DEF None, Turn
<1>1. /\ pool \in [Conv -> Turn \cup {None}] /\ busy \in [Turn -> BOOLEAN]
      /\ c \in Conv /\ P \in SUBSET Turn
  BY DEF Inv, Typed, PoolTyped, Working, Spawn, Pooled
<1>2. /\ pool' = [[d \in Conv |-> IF pool[d] \in E THEN None ELSE pool[d]] EXCEPT ![c] = t]
      /\ busy' = [y \in Turn |-> y = t \/ (busy[y] /\ y \notin E)]
  BY DEF Spawn
<1>3. pool[c] = None \/ pool[c] \in E
  OBVIOUS
<1>4. Pooled \ E = P \ RoomIn(P) /\ RoomIn(P) \subseteq E
  OBVIOUS
<1>. HIDE DEF c, P, E
<1>5. \A d \in Conv : pool'[d] =
         IF d = c THEN t ELSE IF pool[d] \in E THEN None ELSE pool[d]
  BY <1>1, <1>2
<1>6. Pooled' = (P \ RoomIn(P)) \cup {t}
  BY <1>0, <1>1, <1>3, <1>4, <1>5 DEF Pooled
<1>7. x \in Turn /\ x # t /\ x \in P \ RoomIn(P) /\ x \in Pooled \ E
  BY <1>2, <1>4, <1>6 DEF Pooled
<1>8. x \in Idle
  BY <1>2, <1>7 DEF Idle
<1>9. IsFiniteSet(P \ RoomIn(P)) /\ Cardinality(P \ RoomIn(P)) + 1 <= Cap
  BY <1>1, <1>7, <1>8, MakesRoom
<1>10. /\ Cardinality(P \ RoomIn(P)) \in Nat
       /\ \/ Cardinality(Pooled') = Cardinality(P \ RoomIn(P))
          \/ Cardinality(Pooled') = Cardinality(P \ RoomIn(P)) + 1
  BY <1>6, <1>9, FS_AddElement, FS_CardinalityType
<1>. QED
  BY <1>9, <1>10, PoolAssumption

(* The pool outgrows max_workers only while every process in it works for a *)
(* turn: those that idle are retired, the longest unused first, until there *)
(* is room for one more (acquire, runner_persistent.go:400-413).            *)
THEOREM CapIsKept == Spec => CapUnlessAllBusy
<1>1. Init => Ordered
  BY DEF Init, Ordered
<1>2. Inv /\ Ordered /\ [Next]_vars =>
        [\A e \in Turn :
           state[e] = "none" /\ state'[e] = "spawning" =>
              \/ Cardinality(Pooled') <= Cap
              \/ \A x \in Pooled' : busy'[x]]_vars
  BY OnlySpawnStarts, SpawnKeepsCap
<1>. QED
  BY <1>1, <1>2, OrderedStep, Invariance, PTL DEF Spec, CapUnlessAllBusy
=============================================================================
