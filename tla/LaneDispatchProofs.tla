------------------------- MODULE LaneDispatchProofs -------------------------
(***************************************************************************)
(* Theorems about LaneDispatch for every set of lanes and messages, every  *)
(* worker limit and any number of turns: types, slots and order; then that *)
(* no lane waits for nothing and no message is lost; then that             *)
(* LaneDispatch implements ConversationTurns, interactive lanes included.  *)
(***************************************************************************)
EXTENDS LaneDispatch, SequenceTheorems, FiniteSetTheorems, TLAPS

(* The head entry of a queue lies within it; only an empty queue has none.  *)
HeadFits(l) ==
    /\ l.merged <= Len(l.queue)
    /\ l.merged = 0 <=> l.queue = <<>>

TypeInv ==
    /\ TypeOK
    /\ \A k \in DOMAIN lanes : HeadFits(lanes[k])

-----------------------------------------------------------------------------
(* The queue operators.                                                     *)

(* Popping splits the queue into its head entry and the rest.               *)
LEMMA PoppedSplits ==
    ASSUME NEW l \in LaneState, HeadFits(l)
    PROVE  /\ HeadOf(l) \in Seq(Message)
           /\ Popped(l) \in LaneState
           /\ HeadFits(Popped(l))
           /\ l.queue = HeadOf(l) \o Popped(l).queue
           /\ Popped(l).running = l.running
           /\ Popped(l).interactive = l.interactive
           /\ Popped(l).inFlight = l.inFlight
<1> DEFINE q == l.queue
           rest == SubSeq(q, l.merged + 1, Len(q))
<1>1. /\ q \in Seq(Message) /\ l.merged \in Nat
      /\ Len(q) \in Nat /\ l.merged <= Len(q)
  BY DEF LaneState, HeadFits
<1>2. \A i \in 1..Len(q) : q[i] \in Message
  BY <1>1, ElementOfSeq
<1>3. HeadOf(l) \in Seq(Message)
  BY <1>1, <1>2, SubSeqProperties DEF HeadOf
<1>4. rest \in Seq(Message)
  <2>1. /\ l.merged + 1 \in Int /\ Len(q) \in Int
        /\ \A i \in (l.merged + 1)..Len(q) : q[i] \in Message
    BY <1>1, <1>2
  <2> HIDE DEF q
  <2> QED
    BY <2>1, SubSeqProperties
<1>5. q = HeadOf(l) \o rest
  <2>1. /\ 1 \in 1..(Len(q) + 1)
        /\ l.merged \in (1 - 1)..Len(q)
        /\ Len(q) \in l.merged..Len(q)
    BY <1>1
  <2>2. SubSeq(q, 1, l.merged) \o SubSeq(q, l.merged + 1, Len(q))
           = SubSeq(q, 1, Len(q))
    BY <1>1, <2>1, ConcatAdjacentSubSeq
  <2> QED
    BY <1>1, <2>2, SubSeqFull DEF HeadOf
<1>6. /\ Popped(l).queue = rest
      /\ Popped(l).merged = IF rest = <<>> THEN 0 ELSE 1
      /\ Popped(l).running = l.running
      /\ Popped(l).interactive = l.interactive
      /\ Popped(l).inFlight = l.inFlight
  BY DEF Popped, LaneState
<1>7. Popped(l) \in LaneState
  BY <1>4, <1>6 DEF Popped, LaneState
<1>8. HeadFits(Popped(l))
  BY <1>4, <1>6, EmptySeq DEF HeadFits
<1> QED
  BY <1>3, <1>5, <1>6, <1>7, <1>8

(* Pushing appends to the queue and keeps a head entry that is there.       *)
LEMMA PushedAppends ==
    ASSUME NEW l \in LaneState, HeadFits(l), NEW m \in Message
    PROVE  /\ Pushed(l, m) \in LaneState
           /\ HeadFits(Pushed(l, m))
           /\ Pushed(l, m).queue = Append(l.queue, m)
           /\ l.queue # <<>> => HeadOf(Pushed(l, m)) = HeadOf(l)
           /\ Pushed(l, m).running = l.running
           /\ Pushed(l, m).interactive = l.interactive
           /\ Pushed(l, m).inFlight = l.inFlight
<1> DEFINE p == Pushed(l, m)
<1>1. /\ l.queue \in Seq(Message) /\ l.merged \in Nat
      /\ Len(l.queue) \in Nat /\ l.merged <= Len(l.queue)
  BY DEF LaneState, HeadFits
<1>2. /\ p.queue = Append(l.queue, m)
      /\ p.merged = IF l.merged = 0 THEN 1 ELSE l.merged
      /\ p.running = l.running
      /\ p.interactive = l.interactive
      /\ p.inFlight = l.inFlight
  BY DEF Pushed, LaneState
<1>3. /\ p.queue \in Seq(Message) /\ p.queue # <<>>
      /\ Len(p.queue) = Len(l.queue) + 1
      /\ \A i \in 1..Len(l.queue) : p.queue[i] = l.queue[i]
  BY <1>1, <1>2, AppendProperties
<1>4. p \in LaneState
  BY <1>1, <1>2, <1>3 DEF Pushed, LaneState
<1>5. HeadFits(p)
  BY <1>1, <1>2, <1>3 DEF HeadFits
<1>6. ASSUME l.queue # <<>>
      PROVE  HeadOf(p) = HeadOf(l)
  <2>1. p.merged = l.merged
    BY <1>2, <1>6 DEF HeadFits
  <2>2. \A i \in 1..l.merged : p.queue[i] = l.queue[i]
    BY <1>1, <1>3
  <2> QED
    BY <1>1, <1>3, <2>1, <2>2 DEF HeadOf
<1> QED
  BY <1>2, <1>4, <1>5, <1>6

-----------------------------------------------------------------------------
(* scheduleLocked.                                                          *)

(* The lanes that the first n + 1 ready entries start are those of the      *)
(* first n, and at most one more.                                           *)
LEMMA PromotedGrows ==
    ASSUME NEW lns, NEW n \in Nat, IsFiniteSet(Promoted(lns, n))
    PROVE  /\ IsFiniteSet(Promoted(lns, n + 1))
           /\ Cardinality(Promoted(lns, n + 1))
                 <= Cardinality(Promoted(lns, n)) + 1
<1> DEFINE p == Promoted(lns, n)
           e == readyLanes[n + 1]
<1>1. 1..(n + 1) = 1..n \cup {n + 1}
  OBVIOUS
<1>2. Promoted(lns, n + 1) = p \/ Promoted(lns, n + 1) = p \cup {e}
  BY <1>1 DEF Promoted
<1>3. /\ IsFiniteSet(p \cup {e})
      /\ Cardinality(p \cup {e}) <= Cardinality(p) + 1
      /\ Cardinality(p) \in Nat
  BY FS_AddElement, FS_CardinalityType
<1> QED
  BY <1>2, <1>3

LEMMA PromotedFinite ==
    ASSUME NEW lns, NEW n \in Nat
    PROVE  IsFiniteSet(Promoted(lns, n))
<1> DEFINE img == {readyLanes[i] : i \in 1..n}
           f == [i \in 1..n |-> readyLanes[i]]
<1>1. f \in Surjection(1..n, img)
  BY DEF Surjection
<1>2. IsFiniteSet(img)
  <2>1. IsFiniteSet(1..n)
    BY FS_Interval
  <2> HIDE DEF img, f
  <2> QED
    BY <1>1, <2>1, FS_Surjection
<1>3. Promoted(lns, n) \in SUBSET img
  BY DEF Promoted
<1> QED
  BY <1>2, <1>3, FS_Subset

(* One call of scheduleLocked starts a finite set of idle lanes with work,  *)
(* and none once the limit is reached.                                      *)
Starts(lns, running, ts, started) ==
    /\ IsFiniteSet(started)
    /\ \A k \in started : ~lns[k].running /\ lns[k].queue # <<>>
    /\ runningLanes' = running + Cardinality(started)
    /\ started = {} \/ runningLanes' <= maxWorkers
    /\ lanes' = [k \in DOMAIN lns |->
                    IF k \in started THEN Started(lns[k]) ELSE lns[k]]
    /\ turns' = ts \cup {NewTurn(k, HeadOf(lns[k]), TRUE) : k \in started}

LEMMA ScheduleEffect ==
    ASSUME NEW lns, NEW running \in Int, NEW ts,
           readyLanes \in Seq(Lane), maxWorkers \in Nat,
           ScheduleLocked(lns, running, ts)
    PROVE  /\ readyLanes' \in Seq(Lane)
           /\ \E started \in SUBSET (DOMAIN lns) : Starts(lns, running, ts, started)
<1>1. PICK n \in 0..Len(readyLanes) :
        /\ \A i \in 0..(n - 1) :
              running + Cardinality(Promoted(lns, i)) < maxWorkers
        /\ readyLanes' = SubSeq(readyLanes, n + 1, Len(readyLanes))
        /\ runningLanes' = running + Cardinality(Promoted(lns, n))
        /\ lanes' = [k \in DOMAIN lns |->
                        IF k \in Promoted(lns, n) THEN Started(lns[k]) ELSE lns[k]]
        /\ turns' = ts \cup {NewTurn(k, HeadOf(lns[k]), TRUE) : k \in Promoted(lns, n)}
  BY DEF ScheduleLocked
<1> DEFINE started == Promoted(lns, n)
<1>2. Len(readyLanes) \in Nat /\ n \in Nat
  BY LenProperties
<1>3. readyLanes' \in Seq(Lane)
  <2>1. \A i \in (n + 1)..Len(readyLanes) : readyLanes[i] \in Lane
    BY <1>2, ElementOfSeq
  <2>2. n + 1 \in Int /\ Len(readyLanes) \in Int
    BY <1>2
  <2> QED
    BY <1>1, <2>1, <2>2, SubSeqProperties
<1>4. IsFiniteSet(started)
  BY <1>2, PromotedFinite
<1>5. started \in SUBSET (DOMAIN lns)
  BY DEF Promoted
<1>6. \A k \in started : ~lns[k].running /\ lns[k].queue # <<>>
  BY DEF Promoted
<1>7. started = {} \/ running + Cardinality(started) <= maxWorkers
  <2>1. CASE n = 0
    <3>1. started = {}
      BY <2>1 DEF Promoted
    <3> QED
      BY <3>1
  <2>2. CASE n > 0
    <3>1. /\ n - 1 \in Nat /\ (n - 1) + 1 = n /\ n - 1 \in 0..(n - 1)
      BY <1>2, <2>2
    <3>2. IsFiniteSet(Promoted(lns, n - 1))
      BY <3>1, PromotedFinite
    <3>3. Cardinality(started) <= Cardinality(Promoted(lns, n - 1)) + 1
      BY <3>1, <3>2, PromotedGrows
    <3>4. /\ Cardinality(started) \in Nat
          /\ Cardinality(Promoted(lns, n - 1)) \in Nat
      BY <1>4, <3>2, FS_CardinalityType
    <3>5. running + Cardinality(Promoted(lns, n - 1)) < maxWorkers
      BY <1>1, <3>1
    <3> HIDE DEF started
    <3> QED
      BY <3>3, <3>4, <3>5
  <2> QED
    BY <1>2, <2>1, <2>2
<1>8. /\ runningLanes' = running + Cardinality(started)
      /\ lanes' = [k \in DOMAIN lns |->
                      IF k \in started THEN Started(lns[k]) ELSE lns[k]]
      /\ turns' = ts \cup {NewTurn(k, HeadOf(lns[k]), TRUE) : k \in started}
  BY <1>1
<1> HIDE DEF started
<1> QED
  BY <1>3, <1>4, <1>5, <1>6, <1>7, <1>8 DEF Starts

-----------------------------------------------------------------------------
(* Type correctness.                                                        *)

LanesOK ==
    /\ DOMAIN lanes \subseteq Lane
    /\ lanes \in [DOMAIN lanes -> LaneState]
    /\ \A k \in DOMAIN lanes : HeadFits(lanes[k])

LEMMA LaneForType ==
    ASSUME TypeInv, NEW k \in Lane
    PROVE  /\ LaneFor(k) \in LaneState
           /\ HeadFits(LaneFor(k))
<1>1. CASE k \in DOMAIN lanes
  BY <1>1 DEF TypeInv, TypeOK, LaneFor
<1>2. CASE k \notin DOMAIN lanes
  <2>1. IsInteractive(k) \in BOOLEAN
    BY LaneAssumption DEF TypeInv, TypeOK, ConvState, IsInteractive
  <2>2. <<>> \in Seq(Message) /\ Len(<<>>) = 0
    BY EmptySeq
  <2>3. LaneFor(k) = [queue |-> <<>>, merged |-> 0, running |-> FALSE,
                      interactive |-> IsInteractive(k), inFlight |-> 0]
    BY <1>2 DEF LaneFor
  <2> QED
    BY <2>1, <2>2, <2>3 DEF LaneState, HeadFits
<1> QED
  BY <1>1, <1>2

LEMMA WithLaneType ==
    ASSUME TypeInv, NEW k \in Lane, NEW l \in LaneState, HeadFits(l),
           lanes' = WithLane(k, l)
    PROVE  LanesOK'
BY DEF TypeInv, TypeOK, LanesOK, WithLane

LEMMA NewTurnType ==
    ASSUME NEW k \in Lane, NEW msgs \in Seq(Message), NEW queued \in BOOLEAN
    PROVE  NewTurn(k, msgs, queued) \in Turn
BY DEF NewTurn, Turn

LEMMA StartedType ==
    ASSUME NEW l \in LaneState, HeadFits(l)
    PROVE  Started(l) \in LaneState /\ HeadFits(Started(l))
<1>1. /\ Started(l).queue = l.queue /\ Started(l).merged = l.merged
      /\ Started(l).running = TRUE /\ Started(l).inFlight = 1
      /\ Started(l).interactive = l.interactive
  BY DEF Started, LaneState
<1> DEFINE l1 == [l EXCEPT !.running = TRUE]
<1>2. l1 \in LaneState
  BY DEF LaneState
<1>3. [l1 EXCEPT !.inFlight = 1] \in LaneState
  <2> HIDE DEF l1
  <2> QED
    BY <1>2 DEF LaneState
<1> QED
  BY <1>1, <1>3 DEF HeadFits, Started

(* The part of the state that dispatch and finishTurn change.               *)
DispatcherOK ==
    /\ LanesOK
    /\ readyLanes \in Seq(Lane)
    /\ runningLanes \in Int
    /\ turns \subseteq Turn

LEMMA ScheduleType ==
    ASSUME TypeInv,
           NEW lns, DOMAIN lns \subseteq Lane, lns \in [DOMAIN lns -> LaneState],
           \A k \in DOMAIN lns : HeadFits(lns[k]),
           NEW running \in Int, NEW ts \in SUBSET Turn,
           ScheduleLocked(lns, running, ts)
    PROVE  DispatcherOK'
<1>1. readyLanes \in Seq(Lane) /\ maxWorkers \in Nat
  BY LimitAssumption DEF TypeInv, TypeOK
<1>2. readyLanes' \in Seq(Lane)
  BY <1>1, ScheduleEffect
<1>3. PICK started \in SUBSET (DOMAIN lns) : Starts(lns, running, ts, started)
  BY <1>1, ScheduleEffect
<1>4. runningLanes' \in Int
  BY <1>3, FS_CardinalityType DEF Starts
<1>5. LanesOK'
  <2>1. \A k \in DOMAIN lns :
           Started(lns[k]) \in LaneState /\ HeadFits(Started(lns[k]))
    BY StartedType
  <2> QED
    BY <1>3, <2>1 DEF LanesOK, Starts
<1>6. \A k \in started : NewTurn(k, HeadOf(lns[k]), TRUE) \in Turn
  <2> TAKE k \in started
  <2>1. k \in Lane /\ HeadOf(lns[k]) \in Seq(Message)
    BY PoppedSplits
  <2> QED
    BY <2>1, NewTurnType
<1>7. turns' \subseteq Turn
  BY <1>3, <1>6 DEF Starts
<1> QED
  BY <1>2, <1>4, <1>5, <1>7 DEF DispatcherOK

LEMMA ChainType ==
    ASSUME TypeInv, NEW k \in Lane, NEW l \in LaneState, HeadFits(l),
           NEW ts \in SUBSET Turn, Chain(k, l, ts)
    PROVE  DispatcherOK'
<1> DEFINE l1 == [l EXCEPT !.inFlight = 1]
<1>1. l1 \in LaneState /\ HeadFits(l1)
  BY DEF LaneState, HeadFits
<1>2. LanesOK'
  BY <1>1, WithLaneType DEF Chain
<1>3. NewTurn(k, HeadOf(l), TRUE) \in Turn
  BY PoppedSplits, NewTurnType
<1> QED
  BY <1>2, <1>3 DEF Chain, DispatcherOK, TypeInv, TypeOK

LEMMA ReleaseType ==
    ASSUME TypeInv, NEW k, NEW ts \in SUBSET Turn, Release(k, ts)
    PROVE  DispatcherOK'
<1> DEFINE lns == [x \in DOMAIN lanes \ {k} |-> lanes[x]]
<1>1. /\ DOMAIN lns \subseteq Lane
      /\ lns \in [DOMAIN lns -> LaneState]
      /\ \A x \in DOMAIN lns : HeadFits(lns[x])
  BY DEF TypeInv, TypeOK
<1>2. runningLanes - 1 \in Int
  BY DEF TypeInv, TypeOK
<1>3. ScheduleLocked(lns, runningLanes - 1, ts)
  BY DEF Release
<1> HIDE DEF lns
<1> QED
  BY <1>1, <1>2, <1>3, ScheduleType

LEMMA DispatchType ==
    ASSUME TypeInv, NEW m \in Message, Dispatch(m)
    PROVE  TypeInv'
<1> DEFINE k == LaneOf[m]
           l == LaneFor(k)
<1>1. k \in Lane
  BY LaneAssumption
<1>2. l \in LaneState /\ HeadFits(l)
  BY <1>1, LaneForType
<1>3. /\ accepted' \in [Lane -> Seq(Message)]
      /\ maxWorkers' = maxWorkers /\ conv' = conv /\ done' = done
  <2>1. Append(accepted[k], m) \in Seq(Message)
    BY <1>1, AppendProperties DEF TypeInv, TypeOK
  <2> QED
    BY <1>1, <2>1 DEF TypeInv, TypeOK, Dispatch
<1>4. DispatcherOK'
  <2> DEFINE p == Pushed(l, m)
  <2>1. /\ p \in LaneState /\ HeadFits(p)
        /\ HeadOf(p) \in Seq(Message)
        /\ Started(p) \in LaneState /\ HeadFits(Started(p))
    BY <1>2, PushedAppends, PoppedSplits, StartedType
  <2> HIDE DEF p, l, k
  <2>2. CASE Steer(m, k, l)
    <3>1. /\ [l EXCEPT !.inFlight = @ + 1] \in LaneState
          /\ HeadFits([l EXCEPT !.inFlight = @ + 1])
      BY <1>2 DEF LaneState, HeadFits
    <3>2. LanesOK'
      BY <1>1, <2>2, <3>1, WithLaneType DEF Steer
    <3>3. NewTurn(k, <<m>>, FALSE) \in Turn
      <4>1. <<m>> \in Seq(Message)
        OBVIOUS
      <4> QED
        BY <1>1, <4>1, NewTurnType
    <3> QED
      BY <2>2, <3>2, <3>3 DEF Steer, DispatcherOK, TypeInv, TypeOK
  <2>3. CASE Queue(m, k, l)
    <3>1. LanesOK'
      BY <1>1, <2>1, <2>3, WithLaneType DEF Queue, p
    <3> QED
      BY <2>3, <3>1 DEF Queue, DispatcherOK, TypeInv, TypeOK
  <2>4. CASE StartNow(m, k, l)
    <3>1. LanesOK'
      BY <1>1, <2>1, <2>4, WithLaneType DEF StartNow, p
    <3>2. NewTurn(k, HeadOf(p), TRUE) \in Turn
      BY <1>1, <2>1, NewTurnType
    <3>3. /\ turns' = turns \cup {NewTurn(k, HeadOf(p), TRUE)}
          /\ runningLanes' = runningLanes + 1
          /\ readyLanes' = readyLanes
      BY <2>4 DEF StartNow, p
    <3>4. runningLanes' \in Int
      BY <3>3 DEF TypeInv, TypeOK
    <3> QED
      BY <3>1, <3>2, <3>3, <3>4 DEF DispatcherOK, TypeInv, TypeOK
  <2>5. CASE WaitForSlot(m, k, l)
    <3>1. LanesOK'
      BY <1>1, <2>1, <2>5, WithLaneType DEF WaitForSlot, p
    <3>2. readyLanes' \in Seq(Lane)
      BY <1>1, <2>5, AppendProperties DEF WaitForSlot, TypeInv, TypeOK
    <3> QED
      BY <2>5, <3>1, <3>2 DEF WaitForSlot, DispatcherOK, TypeInv, TypeOK
  <2> QED
    BY <2>2, <2>3, <2>4, <2>5 DEF Dispatch, k, l
<1> QED
  BY <1>3, <1>4 DEF TypeInv, TypeOK, DispatcherOK, LanesOK

LEMMA BeginType ==
    ASSUME TypeInv, NEW t \in turns, Begin(t)
    PROVE  TypeInv'
<1>1. [t EXCEPT !.pc = "working", !.client = ClientFor(t.lane)] \in Turn
  BY DEF Turn, ClientFor, TypeInv, TypeOK
<1> QED
  BY <1>1 DEF Begin, TypeInv, TypeOK

LEMMA FinishType ==
    ASSUME TypeInv, NEW t \in turns, Finish(t)
    PROVE  TypeInv'
<1> DEFINE ts == turns \ {t}
           k == t.lane
           l == lanes[k]
<1>1. t \in Turn /\ k \in Lane /\ t.msgs \in Seq(Message) /\ ts \in SUBSET Turn
  BY DEF TypeInv, TypeOK, Turn
<1>2. /\ done' \in [Lane -> Seq(Message)]
      /\ maxWorkers' = maxWorkers /\ conv' = conv /\ accepted' = accepted
  <2>1. done[k] \o t.msgs \in Seq(Message)
    BY <1>1, ConcatProperties DEF TypeInv, TypeOK
  <2> QED
    BY <1>1, <2>1 DEF TypeInv, TypeOK, Finish
<1>3. DispatcherOK'
  <2>1. CASE k \notin DOMAIN lanes
    BY <1>1, <2>1 DEF Finish, DispatcherOK, LanesOK, TypeInv, TypeOK
  <2>2. CASE k \in DOMAIN lanes /\ FinishInteractive(t, l, ts)
    <3>1. l \in LaneState /\ HeadFits(l)
      BY <2>2 DEF TypeInv, TypeOK
    <3> DEFINE left == [l EXCEPT !.inFlight = @ - 1]
               after == IF t.queued /\ l.queue # <<>> THEN Popped(left) ELSE left
    <3>2. left \in LaneState /\ HeadFits(left)
      BY <3>1 DEF LaneState, HeadFits
    <3> HIDE DEF left
    <3>3. after \in LaneState /\ HeadFits(after)
      BY <3>2, PoppedSplits
    <3>4. \/ /\ lanes' = WithLane(k, after)
             /\ turns' = ts
             /\ UNCHANGED <<readyLanes, runningLanes>>
          \/ Chain(k, after, ts)
          \/ Release(k, ts)
      BY <2>2 DEF FinishInteractive, left
    <3> HIDE DEF after, l, k, ts
    <3>5. CASE /\ lanes' = WithLane(k, after)
               /\ turns' = ts
               /\ UNCHANGED <<readyLanes, runningLanes>>
      <4>1. LanesOK'
        BY <1>1, <3>3, <3>5, WithLaneType
      <4> QED
        BY <1>1, <3>5, <4>1 DEF DispatcherOK, TypeInv, TypeOK
    <3>6. CASE Chain(k, after, ts)
      BY <1>1, <3>3, <3>6, ChainType
    <3>7. CASE Release(k, ts)
      BY <1>1, <3>7, ReleaseType
    <3> QED
      BY <3>4, <3>5, <3>6, <3>7
  <2>3. CASE k \in DOMAIN lanes /\ FinishSerial(t, l, ts)
    <3>1. l \in LaneState /\ HeadFits(l)
      BY <2>3 DEF TypeInv, TypeOK
    <3> DEFINE after == IF l.queue # <<>> THEN Popped(l) ELSE l
    <3>2. after \in LaneState /\ HeadFits(after)
      BY <3>1, PoppedSplits
    <3>3. \/ /\ after.queue # <<>>
             /\ \E n \in 1..Len(after.queue) :
                   Chain(k, [after EXCEPT !.merged = n], ts)
          \/ Release(k, ts)
      BY <2>3 DEF FinishSerial
    <3> HIDE DEF after, l, k, ts
    <3>4. ASSUME after.queue # <<>>, NEW n \in 1..Len(after.queue),
                 Chain(k, [after EXCEPT !.merged = n], ts)
          PROVE  DispatcherOK'
      <4> DEFINE an == [after EXCEPT !.merged = n]
      <4>1. an \in LaneState /\ HeadFits(an)
        BY <3>2, <3>4 DEF LaneState, HeadFits
      <4> HIDE DEF an
      <4>2. Chain(k, an, ts)
        BY <3>4 DEF an
      <4> QED
        BY <1>1, <4>1, <4>2, ChainType
    <3>5. CASE Release(k, ts)
      BY <1>1, <3>5, ReleaseType
    <3> QED
      BY <3>3, <3>4, <3>5
  <2> QED
    BY <2>1, <2>2, <2>3 DEF Finish
<1> QED
  BY <1>2, <1>3 DEF TypeInv, TypeOK, DispatcherOK, LanesOK

LEMMA SettingType ==
    ASSUME TypeInv,
           \/ \E n \in WorkerLimits : ReloadLimit(n)
           \/ \E k \in WebLane, on \in BOOLEAN : SetInteractive(k, on)
           \/ \E k \in WebLane, claude \in BOOLEAN : SetChannelBackend(k, claude)
    PROVE  TypeInv'
<1>1. ASSUME NEW n \in WorkerLimits, ReloadLimit(n) PROVE TypeInv'
  BY <1>1 DEF ReloadLimit, TypeInv, TypeOK
<1>2. ASSUME NEW k \in WebLane, NEW on \in BOOLEAN, SetInteractive(k, on)
      PROVE  TypeInv'
  BY <1>2 DEF SetInteractive, TypeInv, TypeOK, ConvState
<1>3. ASSUME NEW k \in WebLane, NEW claude \in BOOLEAN, SetChannelBackend(k, claude)
      PROVE  TypeInv'
  BY <1>3 DEF SetChannelBackend, TypeInv, TypeOK, ConvState
<1> QED
  BY <1>1, <1>2, <1>3

LEMMA InitType == Init => TypeInv
BY LaneAssumption, EmptySeq
   DEF Init, TypeInv, TypeOK, ConvState, HeadFits, LaneState

LEMMA NextType == TypeInv /\ [Next]_vars => TypeInv'
<1> SUFFICES ASSUME TypeInv, [Next]_vars PROVE TypeInv'
  OBVIOUS
<1>1. ASSUME NEW m \in Message, Dispatch(m) PROVE TypeInv'
  BY <1>1, DispatchType
<1>2. CASE TurnStep
  BY <1>2, BeginType, FinishType DEF TurnStep
<1>3. CASE UNCHANGED vars
  BY <1>3 DEF vars, TypeInv, TypeOK
<1> QED
  BY <1>1, <1>2, <1>3, SettingType DEF Next

(* The dispatcher's state keeps its types (TypeOK): the head entry of every *)
(* queue lies within the queue, which is what makes popping it well-typed.  *)
THEOREM TypeCorrect == Spec => []TypeOK
<1>1. TypeInv => TypeOK
  BY DEF TypeInv
<1> QED
  BY <1>1, InitType, NextType, PTL DEF Spec

-----------------------------------------------------------------------------
(* The turns of a lane.  A lane's record l, its turns T and the messages    *)
(* acc that it accepted fit together; the lemmas below say what each of the *)
(* dispatcher's steps does to such a triple.                                *)

LaneTurnsOK(l, T, acc) ==
    /\ IsFiniteSet(T)
    /\ l.inFlight = Cardinality(T)
    /\ l.inFlight > 0
    /\ \A t \in T : t.queued => t.msgs = HeadOf(l) /\ l.queue # <<>>
    /\ \A t \in T : ~t.queued => /\ l.interactive
                                 /\ \E i \in 1..Len(acc) : t.msgs = <<acc[i]>>
    /\ \A t, u \in T : t # u =>
          /\ l.interactive
          /\ ~(t.queued /\ u.queued)
          /\ ~t.queued /\ ~u.queued => t.msgs # u.msgs

(* A message that is new to the lane joins it as one more turn.             *)
LEMMA SteerTurns ==
    ASSUME NEW l \in LaneState, NEW T, NEW acc \in Seq(Message),
           LaneTurnsOK(l, T, acc), l.interactive,
           NEW m \in Message, m \notin ElementsOf(acc), NEW k
    PROVE  LaneTurnsOK([l EXCEPT !.inFlight = @ + 1],
                       T \cup {NewTurn(k, <<m>>, FALSE)}, Append(acc, m))
<1> DEFINE l1 == [l EXCEPT !.inFlight = @ + 1]
           n == NewTurn(k, <<m>>, FALSE)
           acc1 == Append(acc, m)
<1>1. /\ l1.inFlight = l.inFlight + 1 /\ l1.interactive = l.interactive
      /\ l1.queue = l.queue /\ HeadOf(l1) = HeadOf(l)
  BY DEF LaneState, HeadOf
<1>2. n.queued = FALSE /\ n.msgs = <<m>>
  BY DEF NewTurn
<1>3. /\ Len(acc) \in Nat /\ Len(acc1) = Len(acc) + 1 /\ acc1[Len(acc) + 1] = m
      /\ \A i \in 1..Len(acc) : acc1[i] = acc[i]
  BY AppendProperties, LenProperties
<1>4. \A t \in T : ~t.queued => t.msgs # <<m>>
  <2> SUFFICES ASSUME NEW t \in T, ~t.queued, t.msgs = <<m>> PROVE FALSE
    OBVIOUS
  <2>1. PICK i \in 1..Len(acc) : t.msgs = <<acc[i]>>
    BY DEF LaneTurnsOK
  <2>2. <<m>>[1] = <<acc[i]>>[1]
    BY <2>1
  <2> QED
    BY <2>2 DEF ElementsOf
<1>5. /\ IsFiniteSet(T \cup {n})
      /\ Cardinality(T \cup {n}) = Cardinality(T) + 1
      /\ Cardinality(T) \in Nat
  <2> HIDE DEF n
  <2>1. n \notin T
    BY <1>2, <1>4
  <2>2. IsFiniteSet(T)
    BY DEF LaneTurnsOK
  <2> QED
    BY <2>1, <2>2, FS_AddElement, FS_CardinalityType
<1>6. \A t \in T \cup {n} : ~t.queued =>
         l1.interactive /\ \E i \in 1..Len(acc1) : t.msgs = <<acc1[i]>>
  <2> TAKE t \in T \cup {n}
  <2>1. CASE t = n
    <3>1. Len(acc) + 1 \in 1..Len(acc1)
      BY <1>3
    <3> QED
      BY <1>1, <1>2, <1>3, <2>1, <3>1
  <2>2. ASSUME t \in T, ~t.queued
        PROVE  l1.interactive /\ \E i \in 1..Len(acc1) : t.msgs = <<acc1[i]>>
    <3>1. PICK i \in 1..Len(acc) : t.msgs = <<acc[i]>>
      BY <2>2 DEF LaneTurnsOK
    <3>2. i \in 1..Len(acc1) /\ acc1[i] = acc[i]
      BY <1>3
    <3> QED
      BY <1>1, <3>1, <3>2
  <2> QED
    BY <2>1, <2>2
<1> HIDE DEF n, l1, acc1
<1>7. \A t, u \in T \cup {n} : t # u =>
         /\ l1.interactive
         /\ ~(t.queued /\ u.queued)
         /\ ~t.queued /\ ~u.queued => t.msgs # u.msgs
  BY <1>1, <1>2, <1>4 DEF LaneTurnsOK
<1>8. \A t \in T \cup {n} : t.queued => t.msgs = HeadOf(l1) /\ l1.queue # <<>>
  BY <1>1, <1>2 DEF LaneTurnsOK
<1>9. l1.inFlight = Cardinality(T \cup {n}) /\ l1.inFlight > 0
  BY <1>1, <1>5 DEF LaneTurnsOK
<1>10. LaneTurnsOK(l1, T \cup {n}, acc1)
  BY <1>5, <1>6, <1>7, <1>8, <1>9 DEF LaneTurnsOK
<1> QED
  BY <1>10 DEF l1, n, acc1

(* A message queues behind the turn of a serial lane.                       *)
LEMMA PushTurns ==
    ASSUME NEW l \in LaneState, HeadFits(l), NEW T, NEW acc,
           LaneTurnsOK(l, T, acc), ~l.interactive,
           NEW m \in Message, NEW acc1
    PROVE  LaneTurnsOK(Pushed(l, m), T, acc1)
<1>1. /\ l.queue # <<>> => HeadOf(Pushed(l, m)) = HeadOf(l)
      /\ Pushed(l, m).interactive = l.interactive
      /\ Pushed(l, m).inFlight = l.inFlight
      /\ Pushed(l, m).queue # <<>>
  BY PushedAppends, AppendProperties DEF LaneState
<1> QED
  BY <1>1 DEF LaneTurnsOK

(* A lane without turns starts the head of its queue.                       *)
LEMMA HeadTurn ==
    ASSUME NEW l \in LaneState, l.queue # <<>>, NEW k, NEW acc, NEW l1,
           l1.inFlight = 1, l1.queue = l.queue, l1.merged = l.merged
    PROVE  LaneTurnsOK(l1, {NewTurn(k, HeadOf(l), TRUE)}, acc)
<1> DEFINE n == NewTurn(k, HeadOf(l), TRUE)
<1>1. n.queued = TRUE /\ n.msgs = HeadOf(l1)
  BY DEF NewTurn, HeadOf
<1>2. IsFiniteSet({n}) /\ Cardinality({n}) = 1
  BY FS_Singleton
<1> HIDE DEF n
<1>3. LaneTurnsOK(l1, {n}, acc)
  BY <1>1, <1>2 DEF LaneTurnsOK
<1> QED
  BY <1>3 DEF n

(* A spawned turn gets to work.                                             *)
LEMMA BeginTurns ==
    ASSUME NEW l, NEW T, NEW acc, LaneTurnsOK(l, T, acc), l.inFlight \in Int,
           NEW t \in T, NEW n,
           n.queued = t.queued, n.msgs = t.msgs, n # t
    PROVE  LaneTurnsOK(l, (T \ {t}) \cup {n}, acc)
<1> DEFINE U == T \ {t}
<1>1. n \notin T
  <2> SUFFICES ASSUME n \in T PROVE FALSE
    OBVIOUS
  <2> QED
    BY DEF LaneTurnsOK
<1>2. /\ IsFiniteSet(U) /\ Cardinality(U) = Cardinality(T) - 1
      /\ Cardinality(T) \in Nat
  BY FS_RemoveElement, FS_CardinalityType DEF LaneTurnsOK
<1>3. /\ IsFiniteSet(U \cup {n})
      /\ Cardinality(U \cup {n}) = Cardinality(U) + 1
  BY <1>1, <1>2, FS_AddElement
<1>4. l.inFlight = Cardinality(U \cup {n}) /\ l.inFlight > 0
  BY <1>2, <1>3 DEF LaneTurnsOK
<1>5. \A u \in U \cup {n} : \E v \in T : u.queued = v.queued /\ u.msgs = v.msgs
  OBVIOUS
<1>6. \A u, v \in U \cup {n} : u # v => l.interactive
  BY DEF LaneTurnsOK
<1>7. \A u, v \in U \cup {n} : u # v =>
         /\ ~(u.queued /\ v.queued)
         /\ ~u.queued /\ ~v.queued => u.msgs # v.msgs
  BY DEF LaneTurnsOK
<1>8. /\ \A u \in U \cup {n} : u.queued => u.msgs = HeadOf(l) /\ l.queue # <<>>
      /\ \A u \in U \cup {n} : ~u.queued =>
            l.interactive /\ \E i \in 1..Len(acc) : u.msgs = <<acc[i]>>
  BY DEF LaneTurnsOK
<1> QED
  BY <1>3, <1>4, <1>6, <1>7, <1>8 DEF LaneTurnsOK

(* A turn of an interactive lane ends while others go on: the queue's head  *)
(* goes with it exactly if the turn came from the queue.                    *)
LEMMA LeaveTurns ==
    ASSUME NEW l \in LaneState, NEW T, NEW acc, LaneTurnsOK(l, T, acc),
           NEW t \in T, NEW l1,
           l1.inFlight = l.inFlight - 1, l1.inFlight > 0,
           l1.interactive = l.interactive,
           ~t.queued => l1.queue = l.queue /\ l1.merged = l.merged
    PROVE  LaneTurnsOK(l1, T \ {t}, acc)
<1> DEFINE U == T \ {t}
<1>1. /\ IsFiniteSet(U) /\ Cardinality(U) = Cardinality(T) - 1
      /\ Cardinality(T) \in Nat
  BY FS_RemoveElement, FS_CardinalityType DEF LaneTurnsOK
<1>2. l1.inFlight = Cardinality(U)
  BY <1>1 DEF LaneTurnsOK
<1>3. \A u \in U : u.queued => u.msgs = HeadOf(l1) /\ l1.queue # <<>>
  BY DEF LaneTurnsOK, HeadOf
<1>4. /\ \A u \in U : ~u.queued =>
            l1.interactive /\ \E i \in 1..Len(acc) : u.msgs = <<acc[i]>>
      /\ \A u, v \in U : u # v =>
            /\ l1.interactive
            /\ ~(u.queued /\ v.queued)
            /\ ~u.queued /\ ~v.queued => u.msgs # v.msgs
  BY DEF LaneTurnsOK
<1> QED
  BY <1>1, <1>2, <1>3, <1>4 DEF LaneTurnsOK

(* When no turn of a lane is in flight after t, t was its only one.         *)
LEMMA LastTurn ==
    ASSUME NEW l \in LaneState, NEW T, NEW acc, LaneTurnsOK(l, T, acc),
           NEW t \in T, ~l.interactive \/ l.inFlight - 1 <= 0
    PROVE  T \ {t} = {}
<1>1. CASE ~l.interactive
  BY <1>1 DEF LaneTurnsOK
<1>2. CASE l.inFlight - 1 <= 0
  <2>1. /\ IsFiniteSet(T \ {t}) /\ Cardinality(T \ {t}) = Cardinality(T) - 1
        /\ Cardinality(T) \in Nat
    BY FS_RemoveElement, FS_CardinalityType DEF LaneTurnsOK
  <2>2. Cardinality(T \ {t}) = 0
    <3>1. Cardinality(T \ {t}) \in Nat
      BY <2>1, FS_CardinalityType
    <3> QED
      BY <1>2, <2>1, <3>1 DEF LaneTurnsOK
  <2> QED
    BY <2>1, <2>2, FS_EmptySet
<1> QED
  BY <1>1, <1>2

-----------------------------------------------------------------------------
(* The invariant of every lane.                                             *)

LaneInvAt(k) ==
    IF k \in Running
    THEN LaneTurnsOK(lanes[k], TurnsOf(k), accepted[k])
    ELSE TurnsOf(k) = {}

LaneInv == \A k \in Lane : LaneInvAt(k)

(* Only a conversation that can be interactive has an interactive lane.     *)
ModeInv == \A k \in DOMAIN lanes : lanes[k].interactive => ~Serial(k)

TurnInv == TypeInv /\ LaneInv /\ ModeInv

(* A step that leaves a lane, its turns and its messages alone keeps its    *)
(* invariant.                                                               *)
LEMMA OtherLane ==
    ASSUME NEW k, LaneInvAt(k),
           k \in DOMAIN lanes' <=> k \in DOMAIN lanes,
           k \in DOMAIN lanes => lanes'[k] = lanes[k],
           TurnsOf(k)' = TurnsOf(k),
           accepted'[k] = accepted[k]
    PROVE  LaneInvAt(k)'
<1>1. k \in Running' <=> k \in Running
  BY DEF Running
<1> QED
  BY <1>1 DEF LaneInvAt, Running

LEMMA DispatchLanes ==
    ASSUME TurnInv, NEW m \in Message, Dispatch(m)
    PROVE  LaneInv' /\ ModeInv'
<1> DEFINE k == LaneOf[m]
           l == LaneFor(k)
           acc == accepted[k]
           p == Pushed(l, m)
           T == TurnsOf(k)
<1>1. /\ k \in Lane /\ l \in LaneState /\ HeadFits(l)
      /\ acc \in Seq(Message)
  BY LaneAssumption, LaneForType DEF TurnInv, TypeInv, TypeOK
<1>2. l.interactive => ~Serial(k)
  BY <1>1 DEF TurnInv, ModeInv, LaneFor, IsInteractive, Serial
<1>3. /\ p \in LaneState /\ HeadFits(p) /\ p.queue # <<>>
      /\ p.running = l.running /\ p.interactive = l.interactive
      /\ Started(p).running = TRUE /\ Started(p).inFlight = 1
      /\ Started(p).queue = p.queue /\ Started(p).merged = p.merged
      /\ Started(p).interactive = p.interactive
  <2>1. /\ p \in LaneState /\ HeadFits(p) /\ p.queue # <<>>
        /\ p.running = l.running /\ p.interactive = l.interactive
    BY <1>1, PushedAppends, AppendProperties DEF LaneState
  <2> HIDE DEF p
  <2> QED
    BY <2>1 DEF Started, LaneState
<1>4. /\ m \notin ElementsOf(acc)
      /\ accepted'[k] = Append(acc, m)
      /\ \A x \in Lane : x # k => accepted'[x] = accepted[x]
  BY <1>1 DEF Dispatch, TurnInv, TypeInv, TypeOK
<1>5. l.running => /\ k \in Running /\ lanes[k] = l
                   /\ LaneTurnsOK(l, T, acc)
  BY <1>1 DEF LaneFor, Running, TurnInv, LaneInv, LaneInvAt
<1>6. ~l.running => k \notin Running /\ T = {}
  BY <1>1 DEF LaneFor, Running, TurnInv, LaneInv, LaneInvAt
<1>7. ASSUME NEW l1, lanes' = WithLane(k, l1), NEW n,
             turns' = turns \/ (turns' = turns \cup {n} /\ n.lane = k),
             l1.interactive = l.interactive,
             LaneInvAt(k)'
      PROVE  LaneInv' /\ ModeInv'
  <2>1. ASSUME NEW x \in Lane, x # k PROVE LaneInvAt(x)'
    <3>1. /\ x \in DOMAIN lanes' <=> x \in DOMAIN lanes
          /\ x \in DOMAIN lanes => lanes'[x] = lanes[x]
      BY <1>7, <2>1 DEF WithLane
    <3>2. TurnsOf(x)' = TurnsOf(x)
      BY <1>7, <2>1 DEF TurnsOf
    <3>3. accepted'[x] = accepted[x]
      BY <1>4, <2>1
    <3>4. LaneInvAt(x)
      BY DEF TurnInv, LaneInv
    <3> QED
      BY <3>1, <3>2, <3>3, <3>4, OtherLane
  <2>2. ModeInv'
    BY <1>2, <1>7 DEF ModeInv, TurnInv, WithLane, Serial
  <2> QED
    BY <1>7, <2>1, <2>2 DEF LaneInv
<1> HIDE DEF p, l, k
<1>8. CASE Steer(m, k, l)
  <2> DEFINE l1 == [l EXCEPT !.inFlight = @ + 1]
             n == NewTurn(k, <<m>>, FALSE)
  <2>1. /\ l.interactive /\ l.running /\ lanes' = WithLane(k, l1)
        /\ turns' = turns \cup {n}
    BY <1>8 DEF Steer
  <2>2. l1.running = l.running /\ l1.interactive = l.interactive
    BY <1>1 DEF LaneState
  <2>3. LaneTurnsOK(l1, T \cup {n}, Append(acc, m))
    BY <1>1, <1>4, <1>5, <2>1, SteerTurns
  <2>4. n.lane = k
    BY DEF NewTurn
  <2> HIDE DEF n, l1
  <2>5. k \in Running' /\ lanes'[k] = l1
    BY <2>1, <2>2 DEF Running, WithLane
  <2>6. TurnsOf(k)' = T \cup {n}
    BY <2>1, <2>4 DEF TurnsOf
  <2>7. LaneInvAt(k)'
    BY <1>4, <2>3, <2>5, <2>6 DEF LaneInvAt
  <2> QED
    BY <1>7, <2>1, <2>2, <2>4, <2>7
<1>9. CASE Queue(m, k, l)
  <2>1. /\ lanes' = WithLane(k, p) /\ turns' = turns
        /\ l.running => ~l.interactive
    BY <1>9 DEF Queue, p
  <2>2. TurnsOf(k)' = T /\ lanes'[k] = p
    BY <2>1 DEF TurnsOf, WithLane
  <2>3. CASE l.running
    <3>1. LaneTurnsOK(p, T, accepted'[k])
      BY <1>1, <1>5, <2>1, <2>3, PushTurns DEF p
    <3>2. k \in Running'
      BY <1>3, <2>1, <2>3 DEF Running, WithLane
    <3>3. LaneInvAt(k)'
      BY <2>2, <3>1, <3>2 DEF LaneInvAt
    <3> QED
      BY <1>3, <1>7, <2>1, <3>3
  <2>4. CASE ~l.running
    <3>1. k \notin Running'
      BY <1>3, <2>1, <2>4 DEF Running, WithLane
    <3>2. LaneInvAt(k)'
      BY <1>6, <2>2, <2>4, <3>1 DEF LaneInvAt
    <3> QED
      BY <1>3, <1>7, <2>1, <3>2
  <2> QED
    BY <2>3, <2>4
<1>10. CASE StartNow(m, k, l)
  <2> DEFINE n == NewTurn(k, HeadOf(p), TRUE)
             l1 == Started(p)
  <2>1. /\ ~l.running /\ lanes' = WithLane(k, l1)
        /\ turns' = turns \cup {n}
    BY <1>10 DEF StartNow, p
  <2>2. LaneTurnsOK(l1, {n}, accepted'[k])
    BY <1>3, HeadTurn
  <2>3. n.lane = k
    BY DEF NewTurn
  <2> HIDE DEF n, l1
  <2>4. l1.running = TRUE /\ l1.interactive = l.interactive
    BY <1>3 DEF l1
  <2>5. TurnsOf(k)' = {n}
    BY <1>6, <2>1, <2>3 DEF TurnsOf
  <2>6. k \in Running' /\ lanes'[k] = l1
    BY <2>1, <2>4 DEF Running, WithLane
  <2>7. LaneInvAt(k)'
    BY <2>2, <2>5, <2>6 DEF LaneInvAt
  <2> QED
    BY <1>7, <2>1, <2>3, <2>4, <2>7
<1>11. CASE WaitForSlot(m, k, l)
  <2>1. /\ lanes' = WithLane(k, p) /\ turns' = turns /\ ~l.running
    BY <1>11 DEF WaitForSlot, p
  <2>2. TurnsOf(k)' = T
    BY <2>1 DEF TurnsOf
  <2>3. k \notin Running'
    BY <1>3, <2>1 DEF Running, WithLane
  <2>4. LaneInvAt(k)'
    BY <1>6, <2>1, <2>2, <2>3 DEF LaneInvAt
  <2> QED
    BY <1>3, <1>7, <2>1, <2>4
<1> QED
  BY <1>8, <1>9, <1>10, <1>11 DEF Dispatch, k, l

LEMMA BeginLanes ==
    ASSUME TurnInv, NEW t \in turns, Begin(t)
    PROVE  LaneInv' /\ ModeInv'
<1> DEFINE k == t.lane
           n == [t EXCEPT !.pc = "working", !.client = ClientFor(t.lane)]
<1>1. t \in Turn /\ t.pc = "spawned"
  BY DEF TurnInv, TypeInv, TypeOK, Begin
<1>2. /\ n.queued = t.queued /\ n.msgs = t.msgs /\ n.lane = k /\ n.pc = "working"
  BY <1>1 DEF Turn
<1>3. /\ turns' = (turns \ {t}) \cup {n}
      /\ lanes' = lanes /\ accepted' = accepted
  BY DEF Begin
<1> HIDE DEF n
<1>4. n # t
  BY <1>1, <1>2
<1>5. ASSUME NEW x \in Lane, x # k PROVE LaneInvAt(x)'
  <2>1. TurnsOf(x)' = TurnsOf(x)
    BY <1>2, <1>3, <1>5 DEF TurnsOf
  <2>2. LaneInvAt(x)
    BY DEF TurnInv, LaneInv
  <2> QED
    BY <1>3, <2>1, <2>2, OtherLane
<1>6. k \in Lane /\ t \in TurnsOf(k)
  BY <1>1 DEF Turn, TurnsOf
<1>7. /\ k \in Running
      /\ LaneTurnsOK(lanes[k], TurnsOf(k), accepted[k])
  BY <1>6 DEF TurnInv, LaneInv, LaneInvAt
<1>8. lanes[k].inFlight \in Int
  BY <1>7 DEF Running, TurnInv, TypeInv, TypeOK, LaneState
<1>9. TurnsOf(k)' = (TurnsOf(k) \ {t}) \cup {n}
  BY <1>2, <1>3 DEF TurnsOf
<1>10. LaneTurnsOK(lanes[k], TurnsOf(k)', accepted[k])
  <2> HIDE DEF k
  <2> QED
    BY <1>2, <1>4, <1>6, <1>7, <1>8, <1>9, BeginTurns
<1>11. LaneInvAt(k)'
  BY <1>3, <1>7, <1>10 DEF LaneInvAt, Running
<1> QED
  BY <1>3, <1>5, <1>11 DEF LaneInv, ModeInv, TurnInv, Serial

(* The last turn of a lane ended and its slot goes to waiting lanes.        *)
LEMMA ReleaseLanes ==
    ASSUME TurnInv, NEW t \in turns, NEW k \in Lane, k = t.lane,
           TurnsOf(k) \ {t} = {}, Release(k, turns \ {t}),
           accepted' = accepted
    PROVE  LaneInv' /\ ModeInv'
<1> DEFINE lns == [x \in DOMAIN lanes \ {k} |-> lanes[x]]
           ts == turns \ {t}
<1>1. readyLanes \in Seq(Lane) /\ maxWorkers \in Nat /\ runningLanes - 1 \in Int
  BY LimitAssumption DEF TurnInv, TypeInv, TypeOK
<1>2. ScheduleLocked(lns, runningLanes - 1, ts)
  BY DEF Release
<1>3. /\ DOMAIN lns = DOMAIN lanes \ {k}
      /\ \A x \in DOMAIN lns : lns[x] = lanes[x]
  OBVIOUS
<1> HIDE DEF lns
<1>4. PICK started \in SUBSET (DOMAIN lns) :
         Starts(lns, runningLanes - 1, ts, started)
  BY <1>1, <1>2, ScheduleEffect
<1> DEFINE N(x) == NewTurn(x, HeadOf(lns[x]), TRUE)
<1>5. /\ lanes' = [x \in DOMAIN lns |->
                      IF x \in started THEN Started(lns[x]) ELSE lns[x]]
      /\ turns' = ts \cup {N(x) : x \in started}
      /\ \A x \in started : ~lns[x].running /\ lns[x].queue # <<>>
  BY <1>4 DEF Starts
<1>6. \A x \in started : N(x).lane = x
  BY DEF NewTurn
<1>7. \A x \in DOMAIN lns : lns[x] \in LaneState /\ x \in Lane
  BY <1>3 DEF TurnInv, TypeInv, TypeOK
<1>8. \A x \in DOMAIN lns :
         LET l == lns[x] IN
         /\ Started(l).running = TRUE /\ Started(l).inFlight = 1
         /\ Started(l).queue = l.queue /\ Started(l).merged = l.merged
         /\ Started(l).interactive = l.interactive
  BY <1>7 DEF Started, LaneState
<1>9. \A x \in started : \A acc :
         LaneTurnsOK(Started(lns[x]), {N(x)}, acc)
  BY <1>5, <1>7, <1>8, HeadTurn
<1> HIDE DEF N
<1>10. \A u : u \in turns' <=> u \in ts \/ \E x \in started : u = N(x)
  BY <1>5
<1>11. ASSUME NEW x \in started PROVE LaneInvAt(x)'
  <2>1. x \in DOMAIN lanes /\ x # k /\ x \in Lane /\ x \notin Running
    BY <1>3, <1>5, <1>7 DEF Running
  <2>2. TurnsOf(x) = {}
    BY <2>1 DEF TurnInv, LaneInv, LaneInvAt
  <2>3. TurnsOf(x)' = {N(x)}
    BY <1>6, <1>10, <2>2 DEF TurnsOf
  <2>4. x \in Running' /\ lanes'[x] = Started(lns[x])
    BY <1>5, <1>8 DEF Running
  <2> QED
    BY <1>9, <2>3, <2>4 DEF LaneInvAt
<1>12. ASSUME NEW x \in Lane, x \notin started, x # k PROVE LaneInvAt(x)'
  <2>1. TurnsOf(x)' = TurnsOf(x)
    BY <1>6, <1>10, <1>12 DEF TurnsOf
  <2>2. /\ x \in DOMAIN lanes' <=> x \in DOMAIN lanes
        /\ x \in DOMAIN lanes => lanes'[x] = lanes[x]
    BY <1>3, <1>5, <1>12
  <2>3. LaneInvAt(x)
    BY DEF TurnInv, LaneInv
  <2> QED
    BY <2>1, <2>2, <2>3, OtherLane
<1>13. LaneInvAt(k)'
  <2>1. TurnsOf(k)' = {}
    BY <1>3, <1>6, <1>10 DEF TurnsOf
  <2>2. k \notin Running'
    BY <1>3, <1>5 DEF Running
  <2> QED
    BY <2>1, <2>2 DEF LaneInvAt
<1>14. ModeInv'
  <2>1. \A x \in DOMAIN lanes' :
           x \in DOMAIN lanes /\ lanes'[x].interactive = lanes[x].interactive
    BY <1>3, <1>5, <1>8
  <2> QED
    BY <2>1 DEF ModeInv, TurnInv, Serial
<1> QED
  BY <1>11, <1>12, <1>13, <1>14 DEF LaneInv

(* The lane keeps its slot for the next entry of its queue.                 *)
LEMMA ChainLanes ==
    ASSUME TurnInv, NEW t \in turns, NEW k \in Lane, k = t.lane,
           k \in Running, TurnsOf(k) \ {t} = {},
           NEW l \in LaneState, l.queue # <<>>, l.running,
           l.interactive = lanes[k].interactive,
           Chain(k, l, turns \ {t}), accepted' = accepted
    PROVE  LaneInv' /\ ModeInv'
<1> DEFINE l1 == [l EXCEPT !.inFlight = 1]
           n == NewTurn(k, HeadOf(l), TRUE)
<1>1. /\ l1.inFlight = 1 /\ l1.queue = l.queue /\ l1.merged = l.merged
      /\ l1.running = l.running /\ l1.interactive = l.interactive
  BY DEF LaneState
<1>2. lanes' = WithLane(k, l1) /\ turns' = (turns \ {t}) \cup {n} /\ n.lane = k
  BY DEF Chain, NewTurn
<1>3. LaneTurnsOK(l1, {n}, accepted[k])
  BY <1>1, HeadTurn
<1> HIDE DEF l1, n
<1>4. TurnsOf(k)' = {n}
  BY <1>2 DEF TurnsOf
<1>5. k \in Running' /\ lanes'[k] = l1
  BY <1>1, <1>2 DEF WithLane, Running
<1>6. LaneInvAt(k)'
  BY <1>3, <1>4, <1>5 DEF LaneInvAt
<1>7. ASSUME NEW x \in Lane, x # k PROVE LaneInvAt(x)'
  <2>1. TurnsOf(x)' = TurnsOf(x)
    BY <1>2, <1>7 DEF TurnsOf
  <2>2. /\ x \in DOMAIN lanes' <=> x \in DOMAIN lanes
        /\ x \in DOMAIN lanes => lanes'[x] = lanes[x]
    BY <1>2, <1>7 DEF WithLane
  <2>3. LaneInvAt(x)
    BY DEF TurnInv, LaneInv
  <2> QED
    BY <2>1, <2>2, <2>3, OtherLane
<1>8. ModeInv'
  BY <1>1, <1>2 DEF ModeInv, TurnInv, WithLane, Running, Serial
<1> QED
  BY <1>6, <1>7, <1>8 DEF LaneInv

LEMMA FinishLanes ==
    ASSUME TurnInv, NEW t \in turns, Finish(t)
    PROVE  LaneInv' /\ ModeInv'
<1> DEFINE k == t.lane
           l == lanes[k]
           ts == turns \ {t}
<1>1. k \in Lane /\ t \in TurnsOf(k) /\ t.queued \in BOOLEAN
  BY DEF TurnInv, TypeInv, TypeOK, Turn, TurnsOf
<1>2. k \in Running /\ LaneTurnsOK(l, TurnsOf(k), accepted[k])
  BY <1>1 DEF TurnInv, LaneInv, LaneInvAt
<1>3. /\ l \in LaneState /\ HeadFits(l) /\ l.running
      /\ k \in DOMAIN lanes
  BY <1>2 DEF Running, TurnInv, TypeInv, TypeOK
<1>4. accepted' = accepted
  BY DEF Finish
<1>5. TurnInv
  OBVIOUS
<1> HIDE DEF l, k
<1>6. CASE FinishInteractive(t, l, ts)
  <2> DEFINE left == [l EXCEPT !.inFlight = @ - 1]
             after == IF t.queued /\ l.queue # <<>> THEN Popped(left) ELSE left
  <2>1. /\ left \in LaneState /\ HeadFits(left)
        /\ left.inFlight = l.inFlight - 1 /\ left.queue = l.queue
        /\ left.merged = l.merged /\ left.running = l.running
        /\ left.interactive = l.interactive
    <3>1. /\ left.inFlight = l.inFlight - 1 /\ left.queue = l.queue
          /\ left.merged = l.merged /\ left.running = l.running
          /\ left.interactive = l.interactive
      BY <1>3 DEF LaneState
    <3>2. left \in LaneState
      BY <1>3 DEF LaneState
    <3> QED
      BY <1>3, <3>1, <3>2 DEF HeadFits
  <2>2. \/ /\ after.inFlight > 0
           /\ lanes' = WithLane(k, after)
           /\ turns' = ts
        \/ /\ after.inFlight <= 0 /\ after.queue # <<>>
           /\ Chain(k, after, ts)
        \/ /\ after.inFlight <= 0
           /\ Release(k, ts)
    BY <1>6 DEF FinishInteractive, k
  <2> HIDE DEF left
  <2>3. /\ after \in LaneState
        /\ after.inFlight = l.inFlight - 1 /\ after.running = l.running
        /\ after.interactive = l.interactive
        /\ ~t.queued => after.queue = l.queue /\ after.merged = l.merged
    BY <2>1, PoppedSplits
  <2> HIDE DEF after
  <2>4. CASE /\ after.inFlight > 0
             /\ lanes' = WithLane(k, after)
             /\ turns' = ts
    <3>1. LaneTurnsOK(after, TurnsOf(k) \ {t}, accepted[k])
      BY <1>1, <1>2, <1>3, <2>3, <2>4, LeaveTurns
    <3>2. TurnsOf(k)' = TurnsOf(k) \ {t}
      BY <2>4 DEF TurnsOf
    <3>3. k \in Running' /\ lanes'[k] = after
      BY <1>3, <2>3, <2>4 DEF Running, WithLane
    <3>4. LaneInvAt(k)'
      BY <1>4, <3>1, <3>2, <3>3 DEF LaneInvAt
    <3>5. ASSUME NEW x \in Lane, x # k PROVE LaneInvAt(x)'
      <4>1. TurnsOf(x)' = TurnsOf(x)
        BY <2>4, <3>5 DEF TurnsOf, k
      <4>2. /\ x \in DOMAIN lanes' <=> x \in DOMAIN lanes
            /\ x \in DOMAIN lanes => lanes'[x] = lanes[x]
        BY <2>4, <3>5 DEF WithLane
      <4>3. LaneInvAt(x)
        BY DEF TurnInv, LaneInv
      <4> QED
        BY <1>4, <4>1, <4>2, <4>3, OtherLane
    <3>6. ModeInv'
      BY <1>3, <2>3, <2>4 DEF ModeInv, TurnInv, WithLane, Serial, l
    <3> QED
      BY <3>4, <3>5, <3>6 DEF LaneInv
  <2>5. ASSUME after.inFlight <= 0 PROVE TurnsOf(k) \ {t} = {}
    BY <1>1, <1>2, <1>3, <2>3, <2>5, LastTurn
  <2>6. CASE after.inFlight <= 0 /\ after.queue # <<>> /\ Chain(k, after, ts)
    BY <1>1, <1>2, <1>3, <1>4, <2>3, <2>5, <2>6, ChainLanes DEF k, l
  <2>7. CASE after.inFlight <= 0 /\ Release(k, ts)
    BY <1>1, <1>4, <2>5, <2>7, ReleaseLanes DEF k
  <2> QED
    BY <2>2, <2>4, <2>6, <2>7
<1>7. CASE FinishSerial(t, l, ts)
  <2> DEFINE after == IF l.queue # <<>> THEN Popped(l) ELSE l
  <2>1. /\ after \in LaneState /\ HeadFits(after)
        /\ after.running = l.running /\ after.interactive = l.interactive
    BY <1>3, PoppedSplits
  <2>2. /\ ~l.interactive
        /\ \/ /\ after.queue # <<>>
              /\ \E n \in 1..Len(after.queue) :
                    Chain(k, [after EXCEPT !.merged = n], ts)
           \/ Release(k, ts)
    BY <1>7 DEF FinishSerial, k
  <2>3. TurnsOf(k) \ {t} = {}
    BY <1>1, <1>2, <1>3, <2>2, LastTurn
  <2> HIDE DEF after
  <2>4. ASSUME after.queue # <<>>, NEW n \in 1..Len(after.queue),
               Chain(k, [after EXCEPT !.merged = n], ts)
        PROVE  LaneInv' /\ ModeInv'
    <3> DEFINE an == [after EXCEPT !.merged = n]
    <3>1. /\ an \in LaneState /\ an.queue # <<>> /\ an.running
          /\ an.interactive = lanes[k].interactive
      <4>1. /\ an.queue = after.queue /\ an.running = after.running
            /\ an.interactive = after.interactive
        BY <2>1 DEF LaneState
      <4>2. an \in LaneState
        BY <2>1 DEF LaneState
      <4> QED
        BY <1>3, <2>1, <2>4, <4>1, <4>2 DEF l
    <3> HIDE DEF an
    <3>2. Chain(k, an, ts)
      BY <2>4 DEF an
    <3> QED
      BY <1>1, <1>2, <1>4, <2>3, <3>1, <3>2, ChainLanes DEF k
  <2>5. CASE Release(k, ts)
    BY <1>1, <1>4, <2>3, <2>5, ReleaseLanes DEF k
  <2> QED
    BY <2>2, <2>4, <2>5
<1> QED
  BY <1>3, <1>6, <1>7 DEF Finish, k, l

LEMMA SettingLanes ==
    ASSUME TurnInv, UNCHANGED <<lanes, turns, accepted>>
    PROVE  LaneInv' /\ ModeInv'
<1>1. ASSUME NEW k \in Lane PROVE LaneInvAt(k)'
  <2>1. TurnsOf(k)' = TurnsOf(k)
    BY DEF TurnsOf
  <2>2. LaneInvAt(k)
    BY DEF TurnInv, LaneInv
  <2> QED
    BY <2>1, <2>2, OtherLane
<1> QED
  BY <1>1 DEF LaneInv, ModeInv, TurnInv, Serial

LEMMA InitTurns == Init => TurnInv
<1> SUFFICES ASSUME Init PROVE TurnInv
  OBVIOUS
<1>1. LaneInv /\ ModeInv
  BY DEF Init, LaneInv, LaneInvAt, Running, TurnsOf, ModeInv
<1> QED
  BY <1>1, InitType DEF TurnInv

LEMMA NextTurns == TurnInv /\ [Next]_vars => TurnInv'
<1> SUFFICES ASSUME TurnInv, [Next]_vars PROVE LaneInv' /\ ModeInv'
  BY NextType DEF TurnInv
<1>1. ASSUME NEW m \in Message, Dispatch(m) PROVE LaneInv' /\ ModeInv'
  BY <1>1, DispatchLanes
<1>2. CASE TurnStep
  BY <1>2, BeginLanes, FinishLanes DEF TurnStep
<1>3. CASE \/ UNCHANGED vars
           \/ \E n \in WorkerLimits : ReloadLimit(n)
           \/ \E k \in WebLane, on \in BOOLEAN : SetInteractive(k, on)
           \/ \E k \in WebLane, claude \in BOOLEAN : SetChannelBackend(k, claude)
  <2>1. UNCHANGED <<lanes, turns, accepted>>
    BY <1>3 DEF vars, ReloadLimit, SetInteractive, SetChannelBackend
  <2> QED
    BY <2>1, SettingLanes
<1> QED
  BY <1>1, <1>2, <1>3 DEF Next

(* "Turns in the same lane never overlap" (bot.go:92-97, 568-577): for any  *)
(* number of lanes and messages, two turns of one lane exist only where the *)
(* lane is interactive, and a queued turn carries its queue's head.         *)
THEOREM OneTurn == Spec => []OneTurnPerLane
<1>1. TurnInv => OneTurnPerLane
  <2> SUFFICES ASSUME TurnInv PROVE OneTurnPerLane
    OBVIOUS
  <2>1. ASSUME NEW t \in turns
        PROVE  /\ t.lane \in Lane /\ t \in TurnsOf(t.lane) /\ t.lane \in Running
               /\ LaneTurnsOK(lanes[t.lane], TurnsOf(t.lane), accepted[t.lane])
    BY DEF TurnInv, TypeInv, TypeOK, Turn, TurnsOf, LaneInv, LaneInvAt
  <2>2. ASSUME NEW t \in turns, NEW u \in turns, t # u, t.lane = u.lane
        PROVE  /\ t.lane \in DOMAIN lanes /\ lanes[t.lane].interactive
               /\ ~(t.queued /\ u.queued)
    BY <2>1, <2>2 DEF LaneTurnsOK, Running
  <2>3. ASSUME NEW t \in turns
        PROVE  t.lane \in Running /\ (t.queued => t.msgs = HeadOf(lanes[t.lane]))
    BY <2>1 DEF LaneTurnsOK
  <2> QED
    BY <2>2, <2>3 DEF OneTurnPerLane
<1> QED
  BY <1>1, InitTurns, NextTurns, PTL DEF Spec

-----------------------------------------------------------------------------
(* Slots.                                                                   *)

CountInv ==
    /\ IsFiniteSet(DOMAIN lanes)
    /\ runningLanes = Cardinality(Running)

SlotInv == TurnInv /\ CountInv

(* What release does to the slots: it frees one, and starts a finite set of *)
(* other lanes, none if the limit forbids it.                               *)
LEMMA ReleaseStarts ==
    ASSUME TypeInv, NEW k, NEW ts, Release(k, ts)
    PROVE  \E started \in SUBSET (DOMAIN lanes \ {k}) :
              /\ IsFiniteSet(started)
              /\ started \cap Running = {}
              /\ runningLanes' = runningLanes - 1 + Cardinality(started)
              /\ started = {} \/ runningLanes' <= maxWorkers
              /\ DOMAIN lanes' = DOMAIN lanes \ {k}
              /\ \A x \in DOMAIN lanes' :
                    /\ lanes'[x].running <=> lanes[x].running \/ x \in started
                    /\ lanes'[x].queue = lanes[x].queue
                    /\ lanes'[x].merged = lanes[x].merged
                    /\ lanes'[x].interactive = lanes[x].interactive
<1> DEFINE lns == [x \in DOMAIN lanes \ {k} |-> lanes[x]]
<1>1. readyLanes \in Seq(Lane) /\ maxWorkers \in Nat /\ runningLanes - 1 \in Int
  BY LimitAssumption DEF TypeInv, TypeOK
<1>2. ScheduleLocked(lns, runningLanes - 1, ts)
  BY DEF Release
<1>3. /\ DOMAIN lns = DOMAIN lanes \ {k}
      /\ \A x \in DOMAIN lns : lns[x] = lanes[x] /\ lns[x] \in LaneState
  BY DEF TypeInv, TypeOK
<1> HIDE DEF lns
<1>4. PICK started \in SUBSET (DOMAIN lns) :
         Starts(lns, runningLanes - 1, ts, started)
  BY <1>1, <1>2, ScheduleEffect
<1>5. \A x \in DOMAIN lns :
         /\ Started(lns[x]).running = TRUE
         /\ Started(lns[x]).queue = lns[x].queue
         /\ Started(lns[x]).merged = lns[x].merged
         /\ Started(lns[x]).interactive = lns[x].interactive
  BY <1>3 DEF Started, LaneState
<1>6. /\ DOMAIN lanes' = DOMAIN lanes \ {k}
      /\ \A x \in DOMAIN lanes' :
            /\ lanes'[x].running <=> lanes[x].running \/ x \in started
            /\ lanes'[x].queue = lanes[x].queue
            /\ lanes'[x].merged = lanes[x].merged
            /\ lanes'[x].interactive = lanes[x].interactive
  BY <1>3, <1>4, <1>5 DEF Starts
<1>7. started \cap Running = {} /\ started \in SUBSET (DOMAIN lanes \ {k})
  BY <1>3, <1>4 DEF Starts, Running
<1> QED
  BY <1>4, <1>6, <1>7 DEF Starts

LEMMA DispatchCount ==
    ASSUME SlotInv, NEW m \in Message, Dispatch(m)
    PROVE  CountInv'
<1> DEFINE k == LaneOf[m]
           l == LaneFor(k)
           p == Pushed(l, m)
<1>1. k \in Lane /\ l \in LaneState /\ HeadFits(l)
  BY LaneAssumption, LaneForType DEF SlotInv, TurnInv
<1>2. p.running = l.running /\ p \in LaneState
  BY <1>1, PushedAppends
<1>3. l.running <=> k \in Running
  BY DEF LaneFor, Running
<1>4. /\ IsFiniteSet(Running) /\ IsFiniteSet(DOMAIN lanes \cup {k})
      /\ Cardinality(Running) \in Nat
      /\ k \notin Running => Cardinality(Running \cup {k}) = Cardinality(Running) + 1
  <2>1. IsFiniteSet(DOMAIN lanes) /\ Running \in SUBSET (DOMAIN lanes)
    BY DEF SlotInv, CountInv, Running
  <2>2. IsFiniteSet(Running)
    BY <2>1, FS_Subset
  <2> QED
    BY <2>1, <2>2, FS_AddElement, FS_CardinalityType
<1> HIDE DEF k, l, p
<1>5. ASSUME NEW l1, lanes' = WithLane(k, l1), l1.running <=> l.running,
             runningLanes' = runningLanes
      PROVE  CountInv'
  <2>1. Running' = Running /\ DOMAIN lanes' = DOMAIN lanes \cup {k}
    BY <1>3, <1>5 DEF WithLane, Running
  <2> QED
    BY <1>4, <1>5, <2>1 DEF CountInv, SlotInv
<1>6. CASE Steer(m, k, l)
  <2>1. [l EXCEPT !.inFlight = @ + 1].running = l.running
    BY <1>1 DEF LaneState
  <2> QED
    BY <1>5, <1>6, <2>1 DEF Steer
<1>7. CASE Queue(m, k, l) \/ WaitForSlot(m, k, l)
  BY <1>2, <1>5, <1>7 DEF Queue, WaitForSlot, p
<1>8. CASE StartNow(m, k, l)
  <2>1. /\ lanes' = WithLane(k, Started(p)) /\ ~l.running
        /\ runningLanes' = runningLanes + 1
    BY <1>8 DEF StartNow, p
  <2>2. Started(p).running = TRUE
    BY <1>2 DEF Started, LaneState
  <2>3. Running' = Running \cup {k} /\ DOMAIN lanes' = DOMAIN lanes \cup {k}
    BY <2>1, <2>2 DEF WithLane, Running
  <2> QED
    BY <1>3, <1>4, <2>1, <2>3 DEF CountInv, SlotInv
<1> QED
  BY <1>6, <1>7, <1>8 DEF Dispatch, k, l

(* A turn that ends either leaves the set of lanes and of slots as it is,   *)
(* or releases its lane.                                                    *)
LEMMA FinishSlots ==
    ASSUME TurnInv, NEW t \in turns, Finish(t)
    PROVE  /\ t.lane \in Running
           /\ \/ /\ runningLanes' = runningLanes
                 /\ DOMAIN lanes' = DOMAIN lanes /\ Running' = Running
              \/ Release(t.lane, turns \ {t})
<1> DEFINE k == t.lane
           l == lanes[k]
           ts == turns \ {t}
<1>1. k \in Running /\ k \in DOMAIN lanes
  BY DEF TurnInv, TypeInv, TypeOK, Turn, TurnsOf, LaneInv, LaneInvAt, Running
<1>2. l \in LaneState /\ l.running /\ HeadFits(l)
  BY <1>1 DEF TurnInv, TypeInv, TypeOK, Running
<1> HIDE DEF k, l
<1>3. ASSUME NEW l1, lanes' = WithLane(k, l1), l1.running,
             runningLanes' = runningLanes
      PROVE  /\ runningLanes' = runningLanes
             /\ DOMAIN lanes' = DOMAIN lanes /\ Running' = Running
  BY <1>1, <1>3 DEF WithLane, Running
<1>4. ASSUME NEW l1 \in LaneState, l1.running, Chain(k, l1, ts)
      PROVE  /\ runningLanes' = runningLanes
             /\ DOMAIN lanes' = DOMAIN lanes /\ Running' = Running
  <2>1. [l1 EXCEPT !.inFlight = 1].running
    BY <1>4 DEF LaneState
  <2> QED
    BY <1>3, <1>4, <2>1 DEF Chain
<1>5. CASE FinishInteractive(t, l, ts)
  <2> DEFINE left == [l EXCEPT !.inFlight = @ - 1]
             after == IF t.queued /\ l.queue # <<>> THEN Popped(left) ELSE left
  <2>1. left \in LaneState /\ left.running /\ HeadFits(left)
    <3>1. /\ left.queue = l.queue /\ left.merged = l.merged
          /\ left.running = l.running
      BY <1>2 DEF LaneState
    <3>2. left \in LaneState
      BY <1>2 DEF LaneState
    <3> QED
      BY <1>2, <3>1, <3>2 DEF HeadFits
  <2>2. \/ lanes' = WithLane(k, after) /\ UNCHANGED <<readyLanes, runningLanes>>
        \/ Chain(k, after, ts)
        \/ Release(k, ts)
    BY <1>5 DEF FinishInteractive, k
  <2> HIDE DEF left
  <2>3. after \in LaneState /\ after.running
    BY <2>1, PoppedSplits
  <2> HIDE DEF after
  <2> QED
    BY <1>1, <1>3, <1>4, <2>2, <2>3 DEF k
<1>6. CASE FinishSerial(t, l, ts)
  <2> DEFINE after == IF l.queue # <<>> THEN Popped(l) ELSE l
  <2>1. after \in LaneState /\ after.running
    BY <1>2, PoppedSplits
  <2>2. \/ \E n \in 1..Len(after.queue) : Chain(k, [after EXCEPT !.merged = n], ts)
        \/ Release(k, ts)
    BY <1>6 DEF FinishSerial, k
  <2> HIDE DEF after
  <2>3. ASSUME NEW n \in Int, n >= 1
        PROVE  /\ [after EXCEPT !.merged = n] \in LaneState
               /\ [after EXCEPT !.merged = n].running
    BY <2>1, <2>3 DEF LaneState
  <2>4. ASSUME NEW n \in 1..Len(after.queue),
               Chain(k, [after EXCEPT !.merged = n], ts)
        PROVE  /\ runningLanes' = runningLanes
               /\ DOMAIN lanes' = DOMAIN lanes /\ Running' = Running
    <3> DEFINE an == [after EXCEPT !.merged = n]
    <3>1. an \in LaneState /\ an.running
      BY <2>3
    <3> HIDE DEF an
    <3>2. Chain(k, an, ts)
      BY <2>4 DEF an
    <3> QED
      BY <1>4, <3>1, <3>2
  <2> QED
    BY <1>1, <2>2, <2>4 DEF k
<1> QED
  BY <1>1, <1>5, <1>6 DEF Finish, k, l

LEMMA FinishCount ==
    ASSUME SlotInv, NEW t \in turns, Finish(t)
    PROVE  CountInv'
<1> DEFINE k == t.lane
<1>1. /\ IsFiniteSet(DOMAIN lanes) /\ IsFiniteSet(Running)
      /\ runningLanes = Cardinality(Running) /\ Cardinality(Running) \in Nat
  <2>1. IsFiniteSet(DOMAIN lanes) /\ Running \in SUBSET (DOMAIN lanes)
    BY DEF SlotInv, CountInv, Running
  <2> QED
    BY <2>1, FS_Subset, FS_CardinalityType DEF SlotInv, CountInv
<1>2. k \in Running
  BY FinishSlots DEF SlotInv
<1>3. CASE /\ runningLanes' = runningLanes
           /\ DOMAIN lanes' = DOMAIN lanes /\ Running' = Running
  BY <1>1, <1>3 DEF CountInv
<1>4. CASE Release(k, turns \ {t})
  <2>1. PICK started \in SUBSET (DOMAIN lanes \ {k}) :
           /\ IsFiniteSet(started)
           /\ started \cap Running = {}
           /\ runningLanes' = runningLanes - 1 + Cardinality(started)
           /\ started = {} \/ runningLanes' <= maxWorkers
           /\ DOMAIN lanes' = DOMAIN lanes \ {k}
           /\ \A x \in DOMAIN lanes' :
                 /\ lanes'[x].running <=> lanes[x].running \/ x \in started
                 /\ lanes'[x].queue = lanes[x].queue
                 /\ lanes'[x].merged = lanes[x].merged
                 /\ lanes'[x].interactive = lanes[x].interactive
    BY <1>4, ReleaseStarts DEF SlotInv, TurnInv
  <2>2. Running' = (Running \ {k}) \cup started
    BY <2>1 DEF Running
  <2>3. /\ IsFiniteSet(Running \ {k})
        /\ Cardinality(Running \ {k}) = Cardinality(Running) - 1
    BY <1>1, <1>2, FS_RemoveElement
  <2>4. (Running \ {k}) \cap started = {}
    BY <2>1
  <2>5. Cardinality(Running') = Cardinality(Running \ {k}) + Cardinality(started)
    <3>1. Cardinality((Running \ {k}) \cup started)
             = Cardinality(Running \ {k}) + Cardinality(started) - Cardinality({})
      BY <2>1, <2>3, <2>4, FS_Union
    <3>2. Cardinality(Running \ {k}) \in Nat /\ Cardinality(started) \in Nat
      BY <2>1, <2>3, FS_CardinalityType
    <3> QED
      BY <2>2, <3>1, <3>2, FS_EmptySet
  <2>6. Cardinality(started) \in Nat
    BY <2>1, FS_CardinalityType
  <2>7. IsFiniteSet(DOMAIN lanes')
    <3>1. IsFiniteSet(DOMAIN lanes \ {k})
      BY <1>1, FS_RemoveElement
    <3> QED
      BY <2>1, <3>1
  <2> QED
    BY <1>1, <2>1, <2>3, <2>5, <2>6, <2>7 DEF CountInv
<1> QED
  BY <1>3, <1>4, FinishSlots DEF SlotInv

LEMMA InitSlots == Init => SlotInv
<1> SUFFICES ASSUME Init PROVE CountInv
  BY InitTurns DEF SlotInv
<1>1. DOMAIN lanes = {} /\ Running = {} /\ runningLanes = 0
  BY DEF Init, Running
<1> QED
  BY <1>1, FS_EmptySet DEF CountInv

LEMMA NextSlots == SlotInv /\ [Next]_vars => SlotInv'
<1> SUFFICES ASSUME SlotInv, [Next]_vars PROVE CountInv'
  BY NextTurns DEF SlotInv
<1>1. ASSUME NEW m \in Message, Dispatch(m) PROVE CountInv'
  BY <1>1, DispatchCount
<1>2. ASSUME NEW t \in turns, Finish(t) PROVE CountInv'
  BY <1>2, FinishCount
<1>3. CASE UNCHANGED <<lanes, runningLanes>>
  BY <1>3 DEF CountInv, SlotInv, Running
<1> QED
  BY <1>1, <1>2, <1>3
     DEF Next, TurnStep, Begin, ReloadLimit, SetInteractive, SetChannelBackend, vars

(* Slots are neither leaked nor released twice (bot.go:711-753): the        *)
(* counter is the number of running lanes and a lane's inFlight the number  *)
(* of its turns, for any number of lanes, turns and limit changes.          *)
THEOREM SlotsExact == Spec => []SlotAccounting
<1>1. SlotInv => SlotAccounting
  <2> SUFFICES ASSUME SlotInv PROVE SlotAccounting
    OBVIOUS
  <2>1. ASSUME NEW k \in Running
        PROVE  /\ lanes[k].inFlight = Cardinality(TurnsOf(k))
               /\ lanes[k].inFlight > 0
    <3>1. k \in Lane
      BY DEF Running, SlotInv, TurnInv, TypeInv, TypeOK
    <3> QED
      BY <3>1 DEF SlotInv, TurnInv, LaneInv, LaneInvAt, LaneTurnsOK
  <2> QED
    BY <2>1 DEF SlotAccounting, SlotInv, CountInv
<1> QED
  BY <1>1, InitSlots, NextSlots, PTL DEF Spec

(* A step takes a slot only below the limit in force (bot.go:623, 676), for *)
(* any sequence of limits that reloads put in place.                        *)
THEOREM LimitKept == Spec => SlotLimit
<1> DEFINE Kept == runningLanes' > runningLanes => runningLanes' <= maxWorkers
<1>1. TurnInv /\ [Next]_vars => [Kept]_vars
  <2> SUFFICES ASSUME TurnInv, Next PROVE Kept
    OBVIOUS
  <2>1. runningLanes \in Int /\ maxWorkers \in Int
    BY LimitAssumption DEF TurnInv, TypeInv, TypeOK
  <2>2. ASSUME NEW m \in Message, Dispatch(m) PROVE Kept
    <3>1. \/ runningLanes' = runningLanes
          \/ runningLanes < maxWorkers /\ runningLanes' = runningLanes + 1
      BY <2>2 DEF Dispatch, Steer, Queue, StartNow, WaitForSlot
    <3> QED
      BY <2>1, <3>1
  <2>3. ASSUME NEW t \in turns, Finish(t) PROVE Kept
    <3>1. CASE runningLanes' = runningLanes
      BY <2>1, <3>1
    <3>2. CASE Release(t.lane, turns \ {t})
      <4>1. PICK started \in SUBSET (DOMAIN lanes \ {t.lane}) :
               /\ IsFiniteSet(started)
               /\ started \cap Running = {}
               /\ runningLanes' = runningLanes - 1 + Cardinality(started)
               /\ started = {} \/ runningLanes' <= maxWorkers
               /\ DOMAIN lanes' = DOMAIN lanes \ {t.lane}
               /\ \A x \in DOMAIN lanes' :
                     /\ lanes'[x].running <=> lanes[x].running \/ x \in started
                     /\ lanes'[x].queue = lanes[x].queue
                     /\ lanes'[x].merged = lanes[x].merged
                     /\ lanes'[x].interactive = lanes[x].interactive
        BY <3>2, ReleaseStarts DEF TurnInv
      <4> QED
        BY <2>1, <4>1, FS_EmptySet
    <3> QED
      BY <2>3, <3>1, <3>2, FinishSlots
  <2>4. CASE UNCHANGED runningLanes
    BY <2>1, <2>4
  <2> QED
    BY <2>2, <2>3, <2>4
       DEF Next, TurnStep, Begin, ReloadLimit, SetInteractive, SetChannelBackend
<1> QED
  BY <1>1, InitTurns, NextTurns, PTL DEF Spec, SlotLimit

-----------------------------------------------------------------------------
(* Order.                                                                   *)

OrderInv == TurnInv /\ AnsweredInOrder

LEMMA QueueType ==
    ASSUME TypeInv, NEW k
    PROVE  QueueOf(k) \in Seq(Message)
BY EmptySeq DEF TypeInv, TypeOK, QueueOf, LaneState

LEMMA MessagesAssociate ==
    \A a, b, c \in Seq(Message) : (a \o b) \o c = a \o (b \o c)
<1>1. ASSUME NEW a \in Seq(Message), NEW b \in Seq(Message),
             NEW c \in Seq(Message)
      PROVE  (a \o b) \o c = a \o (b \o c)
  BY ConcatAssociative
<1> QED
  BY <1>1, Zenon

LEMMA DispatchOrder ==
    ASSUME OrderInv, NEW m \in Message, Dispatch(m)
    PROVE  AnsweredInOrder'
<1> DEFINE k == LaneOf[m]
           l == LaneFor(k)
           p == Pushed(l, m)
<1>1. /\ k \in Lane /\ l \in LaneState /\ HeadFits(l)
  BY LaneAssumption, LaneForType DEF OrderInv, TurnInv
<1>2. /\ done' = done
      /\ accepted'[k] = Append(accepted[k], m)
      /\ \A x \in Lane : x # k => accepted'[x] = accepted[x]
  BY <1>1 DEF Dispatch, OrderInv, TurnInv, TypeInv, TypeOK
<1>3. l.queue = QueueOf(k)
  BY DEF LaneFor, QueueOf
<1>4. p.queue = Append(l.queue, m) /\ Started(p).queue = p.queue
  <2>1. p.queue = Append(l.queue, m) /\ p \in LaneState
    BY <1>1, PushedAppends
  <2> HIDE DEF p
  <2> QED
    BY <2>1 DEF Started, LaneState
<1>5. l.interactive => k \notin SerialLane
  BY <1>1 DEF OrderInv, TurnInv, ModeInv, LaneFor, IsInteractive, Serial, SerialLane
<1>6. \A l1 : lanes' = WithLane(k, l1) =>
         /\ QueueOf(k)' = l1.queue
         /\ \A x \in Lane : x # k => QueueOf(x)' = QueueOf(x)
  BY DEF WithLane, QueueOf
<1> HIDE DEF p, l
<1>7. /\ \A x \in Lane : x # k => QueueOf(x)' = QueueOf(x)
      /\ k \in SerialLane => QueueOf(k)' = Append(QueueOf(k), m)
  <2>1. CASE Steer(m, k, l)
    BY <1>5, <1>6, <2>1 DEF Steer
  <2>2. CASE Queue(m, k, l)
    BY <1>3, <1>4, <1>6, <2>2 DEF Queue, p
  <2>3. CASE StartNow(m, k, l)
    BY <1>3, <1>4, <1>6, <2>3 DEF StartNow, p
  <2>4. CASE WaitForSlot(m, k, l)
    BY <1>3, <1>4, <1>6, <2>4 DEF WaitForSlot, p
  <2> QED
    BY <2>1, <2>2, <2>3, <2>4 DEF Dispatch, l
<1>8. /\ done[k] \in Seq(Message) /\ QueueOf(k) \in Seq(Message)
      /\ <<m>> \in Seq(Message)
  BY <1>1, QueueType DEF OrderInv, TurnInv, TypeInv, TypeOK
<1> HIDE DEF k
<1>9. ASSUME k \in SerialLane PROVE accepted'[k] = done'[k] \o QueueOf(k)'
  <2>1. accepted[k] = done[k] \o QueueOf(k)
    BY <1>9 DEF OrderInv, AnsweredInOrder
  <2>2. done[k] \o QueueOf(k) \in Seq(Message)
    BY <1>8, ConcatProperties
  <2>3. Append(done[k] \o QueueOf(k), m) = (done[k] \o QueueOf(k)) \o <<m>>
    BY <2>2, AppendIsConcat
  <2>4. Append(QueueOf(k), m) = QueueOf(k) \o <<m>>
    BY <1>8, AppendIsConcat
  <2>5. (done[k] \o QueueOf(k)) \o <<m>> = done[k] \o (QueueOf(k) \o <<m>>)
    BY <1>8, MessagesAssociate, Zenon
  <2> QED
    BY <1>2, <1>7, <1>9, <2>1, <2>3, <2>4, <2>5
<1> QED
  BY <1>2, <1>7, <1>9 DEF OrderInv, AnsweredInOrder, SerialLane, Serial

(* A turn that ends takes its entry out of its lane's queue if it has one   *)
(* there, as every turn of a serial lane has.                               *)
LEMMA FinishQueue ==
    ASSUME TurnInv, NEW t \in turns, Finish(t)
    PROVE  /\ \A x \in Lane : x # t.lane => QueueOf(x)' = QueueOf(x)
           /\ t.queued => QueueOf(t.lane) = t.msgs \o QueueOf(t.lane)'
           /\ ~t.queued => QueueOf(t.lane)' = QueueOf(t.lane)
           /\ Serial(t.lane) => t.queued
<1> DEFINE k == t.lane
           l == lanes[k]
           ts == turns \ {t}
           Others == \A x \in Lane : x # k => QueueOf(x)' = QueueOf(x)
<1>1. /\ k \in Lane /\ t \in TurnsOf(k) /\ k \in Running /\ k \in DOMAIN lanes
      /\ LaneTurnsOK(l, TurnsOf(k), accepted[k])
  BY DEF TurnInv, TypeInv, TypeOK, Turn, TurnsOf, LaneInv, LaneInvAt, Running
<1>2. l \in LaneState /\ HeadFits(l) /\ QueueOf(k) = l.queue
  BY <1>1 DEF TurnInv, TypeInv, TypeOK, QueueOf
<1>3. l.interactive => ~Serial(k)
  BY <1>1 DEF TurnInv, ModeInv
<1> HIDE DEF k, l, Others
<1>4. ASSUME NEW l1, lanes' = WithLane(k, l1)
      PROVE  QueueOf(k)' = l1.queue /\ Others
  BY <1>4 DEF WithLane, QueueOf, Others
<1>5. ASSUME NEW l1 \in LaneState, Chain(k, l1, ts)
      PROVE  QueueOf(k)' = l1.queue /\ Others
  <2>1. [l1 EXCEPT !.inFlight = 1].queue = l1.queue
    BY <1>5 DEF LaneState
  <2> QED
    BY <1>4, <1>5, <2>1 DEF Chain
<1>6. ASSUME Release(k, ts)
      PROVE  QueueOf(k)' = <<>> /\ Others
  <2>1. /\ DOMAIN lanes' = DOMAIN lanes \ {k}
        /\ \A x \in DOMAIN lanes' : lanes'[x].queue = lanes[x].queue
    BY <1>6, ReleaseStarts DEF TurnInv
  <2> QED
    BY <2>1 DEF QueueOf, Others
<1>7. CASE FinishInteractive(t, l, ts)
  <2> DEFINE left == [l EXCEPT !.inFlight = @ - 1]
             after == IF t.queued /\ l.queue # <<>> THEN Popped(left) ELSE left
  <2>1. /\ left \in LaneState /\ HeadFits(left)
        /\ left.queue = l.queue /\ HeadOf(left) = HeadOf(l)
    <3>1. left.queue = l.queue /\ left.merged = l.merged
      BY <1>2 DEF LaneState
    <3>2. left \in LaneState
      BY <1>2 DEF LaneState
    <3> QED
      BY <1>2, <3>1, <3>2 DEF HeadFits, HeadOf
  <2>2. \/ lanes' = WithLane(k, after)
        \/ Chain(k, after, ts)
        \/ after.queue = <<>> /\ Release(k, ts)
    BY <1>7 DEF FinishInteractive, k
  <2> HIDE DEF left
  <2>3. after \in LaneState
    BY <2>1, PoppedSplits
  <2>4. ~Serial(k)
    BY <1>3, <1>7 DEF FinishInteractive
  <2>5. /\ t.queued => l.queue = t.msgs \o after.queue
        /\ ~t.queued => after.queue = l.queue
    <3>1. t.queued => t.msgs = HeadOf(l) /\ l.queue # <<>>
      BY <1>1 DEF LaneTurnsOK
    <3>2. left.queue = HeadOf(left) \o Popped(left).queue
      BY <2>1, PoppedSplits
    <3> QED
      BY <2>1, <3>1, <3>2
  <2> HIDE DEF after
  <2>6. Others /\ QueueOf(k)' = after.queue
    BY <1>4, <1>5, <1>6, <2>2, <2>3
  <2> QED
    BY <1>2, <2>4, <2>5, <2>6 DEF Others, k
<1>8. CASE FinishSerial(t, l, ts)
  <2> DEFINE after == Popped(l)
  <2>1. t.msgs = HeadOf(l) /\ l.queue # <<>> /\ t.queued
    BY <1>1, <1>8 DEF LaneTurnsOK, FinishSerial
  <2>2. after \in LaneState /\ l.queue = t.msgs \o after.queue
    BY <1>2, <2>1, PoppedSplits
  <2>3. \/ \E n \in 1..Len(after.queue) : Chain(k, [after EXCEPT !.merged = n], ts)
        \/ after.queue = <<>> /\ Release(k, ts)
    BY <1>8, <2>1 DEF FinishSerial, k
  <2> HIDE DEF after
  <2>4. ASSUME NEW n \in 1..Len(after.queue),
               Chain(k, [after EXCEPT !.merged = n], ts)
        PROVE  QueueOf(k)' = after.queue /\ Others
    <3> DEFINE an == [after EXCEPT !.merged = n]
    <3>1. an \in LaneState /\ an.queue = after.queue
      <4>1. n \in Nat
        BY <2>2 DEF LaneState
      <4> QED
        BY <2>2, <4>1 DEF LaneState
    <3> HIDE DEF an
    <3>2. Chain(k, an, ts)
      BY <2>4 DEF an
    <3> QED
      BY <1>5, <3>1, <3>2
  <2>5. QueueOf(k)' = after.queue /\ Others
    BY <1>6, <2>3, <2>4
  <2> QED
    BY <1>2, <2>1, <2>2, <2>5 DEF Others, k
<1> QED
  BY <1>1, <1>7, <1>8 DEF Finish, k, l

LEMMA FinishOrder ==
    ASSUME OrderInv, NEW t \in turns, Finish(t)
    PROVE  AnsweredInOrder'
<1> DEFINE k == t.lane
           rest == QueueOf(k)'
<1>1. /\ k \in Lane /\ t.msgs \in Seq(Message) /\ done[k] \in Seq(Message)
      /\ done \in [Lane -> Seq(Message)]
  BY DEF OrderInv, TurnInv, TypeInv, TypeOK, Turn
<1>2. rest \in Seq(Message)
  <2>1. TypeInv'
    BY FinishType DEF OrderInv, TurnInv
  <2> QED
    BY <2>1, EmptySeq DEF TypeInv, TypeOK, QueueOf, LaneState
<1>3. /\ accepted' = accepted
      /\ done'[k] = done[k] \o t.msgs
      /\ \A x \in Lane : x # k => done'[x] = done[x]
  BY <1>1 DEF Finish
<1>4. /\ \A x \in Lane : x # k => QueueOf(x)' = QueueOf(x)
      /\ Serial(k) => QueueOf(k) = t.msgs \o rest
  BY FinishQueue DEF OrderInv
<1> HIDE DEF rest, k
<1>5. ASSUME Serial(k) PROVE accepted'[k] = done'[k] \o QueueOf(k)'
  <2>1. accepted[k] = done[k] \o (t.msgs \o rest)
    BY <1>1, <1>4, <1>5 DEF OrderInv, AnsweredInOrder, SerialLane
  <2>2. (done[k] \o t.msgs) \o rest = done[k] \o (t.msgs \o rest)
    BY <1>1, <1>2, MessagesAssociate, Zenon
  <2> QED
    BY <1>3, <2>1, <2>2 DEF rest
<1> QED
  BY <1>3, <1>4, <1>5 DEF OrderInv, AnsweredInOrder, SerialLane, Serial

LEMMA InitOrder == Init => OrderInv
<1> SUFFICES ASSUME Init PROVE AnsweredInOrder
  BY InitTurns DEF OrderInv
<1>1. <<>> \o <<>> = <<>>
  BY EmptySeq, ConcatEmptySeq
<1> QED
  BY <1>1 DEF Init, AnsweredInOrder, QueueOf, SerialLane

LEMMA NextOrder == OrderInv /\ [Next]_vars => OrderInv'
<1> SUFFICES ASSUME OrderInv, [Next]_vars PROVE AnsweredInOrder'
  BY NextTurns DEF OrderInv
<1>1. ASSUME NEW m \in Message, Dispatch(m) PROVE AnsweredInOrder'
  BY <1>1, DispatchOrder
<1>2. ASSUME NEW t \in turns, Finish(t) PROVE AnsweredInOrder'
  BY <1>2, FinishOrder
<1>3. CASE UNCHANGED <<lanes, accepted, done>>
  BY <1>3 DEF OrderInv, AnsweredInOrder, QueueOf, SerialLane, Serial
<1> QED
  BY <1>1, <1>2, <1>3
     DEF Next, TurnStep, Begin, ReloadLimit, SetInteractive, SetChannelBackend, vars

(* In a lane that is never interactive the answered messages followed by    *)
(* the queue are the accepted ones, in order: nothing is lost, repeated or  *)
(* overtaken by merging, chaining or slot hand-over (bot.go:92-97).         *)
THEOREM InOrder == Spec => []AnsweredInOrder
<1>1. OrderInv => AnsweredInOrder
  BY DEF OrderInv
<1> QED
  BY <1>1, InitOrder, NextOrder, PTL DEF Spec

-----------------------------------------------------------------------------
(* Work conservation.                                                       *)

LEMMA ReleaseIsBusy ==
    ASSUME TypeInv, NEW k, NEW ts, Release(k, ts)
    PROVE  readyLanes' # <<>> => runningLanes' >= maxWorkers
<1> DEFINE lns == [x \in DOMAIN lanes \ {k} |-> lanes[x]]
<1>1. PICK n \in 0..Len(readyLanes) :
         /\ n < Len(readyLanes) =>
               runningLanes - 1 + Cardinality(Promoted(lns, n)) >= maxWorkers
         /\ readyLanes' = SubSeq(readyLanes, n + 1, Len(readyLanes))
         /\ runningLanes' = runningLanes - 1 + Cardinality(Promoted(lns, n))
  BY DEF Release, ScheduleLocked
<1>2. readyLanes \in Seq(Lane) /\ Len(readyLanes) \in Nat
  BY LenProperties DEF TypeInv, TypeOK
<1>3. CASE n < Len(readyLanes)
  BY <1>1, <1>3
<1>4. CASE n = Len(readyLanes)
  BY <1>1, <1>2, <1>4, SubSeqEmpty
<1> QED
  BY <1>2, <1>3, <1>4

LEMMA FinishIsBusy ==
    ASSUME TypeInv, NEW t \in turns, Finish(t), NoIdleSlotWhileWaiting
    PROVE  NoIdleSlotWhileWaiting'
<1>1. \/ readyLanes' = readyLanes /\ runningLanes' = runningLanes
      \/ Release(t.lane, turns \ {t})
  BY DEF Finish, FinishInteractive, FinishSerial, Chain
<1>2. CASE Release(t.lane, turns \ {t})
  <2>1. readyLanes' # <<>> => runningLanes' >= maxWorkers
    BY <1>2, ReleaseIsBusy
  <2> QED
    BY <2>1 DEF NoIdleSlotWhileWaiting, TypeInv, TypeOK
<1> QED
  BY <1>1, <1>2 DEF NoIdleSlotWhileWaiting

LEMMA DispatchIsBusy ==
    ASSUME TypeInv, NEW m \in Message, Dispatch(m), NoIdleSlotWhileWaiting
    PROVE  NoIdleSlotWhileWaiting'
<1>1. runningLanes \in Int /\ maxWorkers \in WorkerLimits /\ WorkerLimits \subseteq Nat
  BY LimitAssumption DEF TypeInv, TypeOK
<1>2. \/ readyLanes' = readyLanes /\ runningLanes' = runningLanes
      \/ readyLanes' = readyLanes /\ runningLanes' = runningLanes + 1
      \/ runningLanes >= maxWorkers /\ runningLanes' = runningLanes
  BY DEF Dispatch, Steer, Queue, StartNow, WaitForSlot
<1>3. CASE readyLanes' = readyLanes /\ runningLanes' = runningLanes + 1
  BY <1>1, <1>3 DEF NoIdleSlotWhileWaiting
<1> QED
  BY <1>1, <1>2, <1>3 DEF NoIdleSlotWhileWaiting

(* A lane that waits means that as many lanes run as some limit in use      *)
(* allows (bot.go:619-676): no slot is left idle by a lane that ends, by a  *)
(* ready lane that is skipped or by a limit that changes.                   *)
THEOREM NoIdleSlot == Spec => []NoIdleSlotWhileWaiting
<1>1. Init => NoIdleSlotWhileWaiting
  BY DEF Init, NoIdleSlotWhileWaiting
<1>2. TypeInv /\ NoIdleSlotWhileWaiting /\ [Next]_vars => NoIdleSlotWhileWaiting'
  <2> SUFFICES ASSUME TypeInv, NoIdleSlotWhileWaiting, [Next]_vars
               PROVE  NoIdleSlotWhileWaiting'
    OBVIOUS
  <2>1. ASSUME NEW m \in Message, Dispatch(m) PROVE NoIdleSlotWhileWaiting'
    BY <2>1, DispatchIsBusy
  <2>2. ASSUME NEW t \in turns, Finish(t) PROVE NoIdleSlotWhileWaiting'
    BY <2>2, FinishIsBusy
  <2>3. CASE UNCHANGED <<readyLanes, runningLanes>>
    BY <2>3 DEF NoIdleSlotWhileWaiting
  <2> QED
    BY <2>1, <2>2, <2>3
       DEF Next, TurnStep, Begin, ReloadLimit, SetInteractive, SetChannelBackend, vars
<1> QED
  BY <1>1, <1>2, InitType, NextType, PTL DEF Spec

-----------------------------------------------------------------------------
(* Nothing is lost.                                                         *)

LEMMA ElementsConcat ==
    ASSUME NEW s \in Seq(Message), NEW u \in Seq(Message)
    PROVE  /\ ElementsOf(s \o u) = ElementsOf(s) \cup ElementsOf(u)
           /\ Len(s \o u) = Len(s) + Len(u)
<1>1. /\ Len(s \o u) = Len(s) + Len(u)
      /\ \A i \in 1..(Len(s) + Len(u)) :
            (s \o u)[i] = IF i <= Len(s) THEN s[i] ELSE u[i - Len(s)]
      /\ Len(s) \in Nat /\ Len(u) \in Nat
  BY ConcatProperties, LenProperties
<1>2. ElementsOf(s) \subseteq ElementsOf(s \o u)
  BY <1>1 DEF ElementsOf
<1>3. ElementsOf(u) \subseteq ElementsOf(s \o u)
  <2>1. ASSUME NEW i \in 1..Len(u) PROVE u[i] \in ElementsOf(s \o u)
    <3>1. /\ Len(s) + i \in 1..(Len(s) + Len(u)) /\ ~(Len(s) + i <= Len(s))
          /\ (Len(s) + i) - Len(s) = i
      BY <1>1
    <3>2. (s \o u)[Len(s) + i] = u[i]
      BY <1>1, <3>1
    <3> QED
      BY <1>1, <3>1, <3>2 DEF ElementsOf
  <2> QED
    BY <2>1 DEF ElementsOf
<1>4. ElementsOf(s \o u) \subseteq ElementsOf(s) \cup ElementsOf(u)
  <2>1. ASSUME NEW i \in 1..(Len(s) + Len(u))
        PROVE  (s \o u)[i] \in ElementsOf(s) \cup ElementsOf(u)
    <3>1. CASE i <= Len(s)
      BY <1>1, <3>1 DEF ElementsOf
    <3>2. CASE ~(i <= Len(s))
      <4>1. i - Len(s) \in 1..Len(u)
        BY <1>1, <3>2
      <4> QED
        BY <1>1, <3>2, <4>1 DEF ElementsOf
    <3> QED
      BY <3>1, <3>2
  <2> QED
    BY <1>1, <2>1 DEF ElementsOf
<1> QED
  BY <1>1, <1>2, <1>3, <1>4

LEMMA ElementsAppend ==
    ASSUME NEW s \in Seq(Message), NEW m \in Message
    PROVE  /\ ElementsOf(Append(s, m)) = ElementsOf(s) \cup {m}
           /\ Len(Append(s, m)) = Len(s) + 1
<1>1. /\ Len(Append(s, m)) = Len(s) + 1 /\ Append(s, m)[Len(s) + 1] = m
      /\ \A i \in 1..Len(s) : Append(s, m)[i] = s[i]
      /\ Len(s) \in Nat
  BY AppendProperties, LenProperties
<1>2. 1..(Len(s) + 1) = (1..Len(s)) \cup {Len(s) + 1}
  BY <1>1
<1> QED
  BY <1>1, <1>2 DEF ElementsOf

MessagesOf(ts) == UNION {ElementsOf(t.msgs) : t \in ts}

(* What was accepted is answered (d), queued (q) or steered (s).            *)
Balanced(a, d, q, s) ==
    /\ ElementsOf(a) = ElementsOf(d) \cup ElementsOf(q) \cup MessagesOf(s)
    /\ Len(a) = Len(d) + Len(q) + Cardinality(s)

LEMMA SingleElement ==
    ASSUME NEW m
    PROVE  ElementsOf(<<m>>) = {m} /\ Len(<<m>>) = 1
BY DEF ElementsOf

LEMMA BalanceQueued ==
    ASSUME NEW a \in Seq(Message), NEW d \in Seq(Message), NEW q \in Seq(Message),
           NEW s, Cardinality(s) \in Nat, NEW m \in Message, Balanced(a, d, q, s)
    PROVE  Balanced(Append(a, m), d, Append(q, m), s)
<1>1. Len(a) \in Nat /\ Len(d) \in Nat /\ Len(q) \in Nat
  BY LenProperties
<1>2. /\ ElementsOf(Append(a, m)) = ElementsOf(a) \cup {m}
      /\ Len(Append(a, m)) = Len(a) + 1
  BY ElementsAppend
<1>3. /\ ElementsOf(Append(q, m)) = ElementsOf(q) \cup {m}
      /\ Len(Append(q, m)) = Len(q) + 1
  BY ElementsAppend
<1>4. ElementsOf(Append(a, m))
        = ElementsOf(d) \cup ElementsOf(Append(q, m)) \cup MessagesOf(s)
  BY <1>2, <1>3 DEF Balanced
<1>5. Len(Append(a, m)) = Len(d) + Len(Append(q, m)) + Cardinality(s)
  BY <1>1, <1>2, <1>3 DEF Balanced
<1> QED
  BY <1>4, <1>5 DEF Balanced

LEMMA BalanceSteered ==
    ASSUME NEW a \in Seq(Message), NEW d \in Seq(Message), NEW q \in Seq(Message),
           NEW s, IsFiniteSet(s), NEW m \in Message, Balanced(a, d, q, s),
           NEW n, n \notin s, n.msgs = <<m>>
    PROVE  Balanced(Append(a, m), d, q, s \cup {n})
<1>1. Len(a) \in Nat /\ Len(d) \in Nat /\ Len(q) \in Nat
  BY LenProperties
<1>2. /\ ElementsOf(Append(a, m)) = ElementsOf(a) \cup {m}
      /\ Len(Append(a, m)) = Len(a) + 1
  BY ElementsAppend
<1>3. Cardinality(s \cup {n}) = Cardinality(s) + 1 /\ Cardinality(s) \in Nat
  BY FS_AddElement, FS_CardinalityType
<1>4. MessagesOf(s \cup {n}) = MessagesOf(s) \cup {m}
  <2>1. MessagesOf(s \cup {n}) = MessagesOf(s) \cup ElementsOf(n.msgs)
    BY DEF MessagesOf
  <2> QED
    BY <2>1, SingleElement
<1>5. ElementsOf(Append(a, m))
        = ElementsOf(d) \cup ElementsOf(q) \cup MessagesOf(s \cup {n})
  BY <1>2, <1>4 DEF Balanced
<1>6. Len(Append(a, m)) = Len(d) + Len(q) + Cardinality(s \cup {n})
  BY <1>1, <1>2, <1>3 DEF Balanced
<1> QED
  BY <1>5, <1>6 DEF Balanced

LEMMA BalanceAnswered ==
    ASSUME NEW a \in Seq(Message), NEW d \in Seq(Message), NEW r \in Seq(Message),
           NEW u \in Seq(Message), NEW s, Cardinality(s) \in Nat,
           Balanced(a, d, u \o r, s)
    PROVE  Balanced(a, d \o u, r, s)
<1>1. /\ Len(a) \in Nat /\ Len(d) \in Nat
      /\ Len(r) \in Nat /\ Len(u) \in Nat
  BY LenProperties
<1>2. /\ ElementsOf(d \o u) = ElementsOf(d) \cup ElementsOf(u)
      /\ Len(d \o u) = Len(d) + Len(u)
  BY ElementsConcat
<1>3. /\ ElementsOf(u \o r) = ElementsOf(u) \cup ElementsOf(r)
      /\ Len(u \o r) = Len(u) + Len(r)
  BY ElementsConcat
<1>4. ElementsOf(a) = ElementsOf(d \o u) \cup ElementsOf(r) \cup MessagesOf(s)
  BY <1>2, <1>3 DEF Balanced
<1>5. Len(a) = Len(d \o u) + Len(r) + Cardinality(s)
  BY <1>1, <1>2, <1>3 DEF Balanced
<1> QED
  BY <1>4, <1>5 DEF Balanced

LEMMA BalanceLeft ==
    ASSUME NEW a \in Seq(Message), NEW d \in Seq(Message), NEW q \in Seq(Message),
           NEW s, IsFiniteSet(s), NEW m \in Message, Balanced(a, d, q, s),
           NEW t \in s, t.msgs = <<m>>
    PROVE  Balanced(a, d \o <<m>>, q, s \ {t})
<1>1. Len(a) \in Nat /\ Len(d) \in Nat /\ Len(q) \in Nat
  BY LenProperties
<1>2. /\ ElementsOf(d \o <<m>>) = ElementsOf(d) \cup {m}
      /\ Len(d \o <<m>>) = Len(d) + 1
  <2> DEFINE u == <<m>>
  <2>1. u \in Seq(Message) /\ ElementsOf(u) = {m} /\ Len(u) = 1
    BY SingleElement
  <2> HIDE DEF u
  <2>2. ElementsOf(d \o u) = ElementsOf(d) \cup ElementsOf(u) /\ Len(d \o u) = Len(d) + Len(u)
    BY <2>1, ElementsConcat
  <2>3. ElementsOf(d \o u) = ElementsOf(d) \cup {m} /\ Len(d \o u) = Len(d) + 1
    BY <2>1, <2>2
  <2> QED
    BY <2>3 DEF u
<1>3. Cardinality(s \ {t}) = Cardinality(s) - 1 /\ Cardinality(s) \in Nat
  BY FS_RemoveElement, FS_CardinalityType
<1>4. MessagesOf(s) = MessagesOf(s \ {t}) \cup {m}
  <2>1. MessagesOf(s) = MessagesOf(s \ {t}) \cup ElementsOf(t.msgs)
    BY DEF MessagesOf
  <2> QED
    BY <2>1, SingleElement
<1>5. ElementsOf(a)
        = ElementsOf(d \o <<m>>) \cup ElementsOf(q) \cup MessagesOf(s \ {t})
  BY <1>2, <1>4 DEF Balanced
<1>6. Len(a) = Len(d \o <<m>>) + Len(q) + Cardinality(s \ {t})
  BY <1>1, <1>2, <1>3 DEF Balanced
<1> QED
  BY <1>5, <1>6 DEF Balanced

(* The turns that joined a live session are the lane's, and each carries    *)
(* one message.                                                             *)
LEMMA Steered ==
    ASSUME TurnInv, NEW k \in Lane
    PROVE  /\ IsFiniteSet(SteeredOf(k)) /\ Cardinality(SteeredOf(k)) \in Nat
           /\ \A t \in SteeredOf(k) : \E m \in ElementsOf(accepted[k]) : t.msgs = <<m>>
<1>1. IsFiniteSet(TurnsOf(k))
  BY FS_EmptySet DEF TurnInv, LaneInv, LaneInvAt, LaneTurnsOK
<1>2. IsFiniteSet(SteeredOf(k))
  <2>1. SteeredOf(k) \in SUBSET TurnsOf(k)
    BY DEF SteeredOf
  <2> QED
    BY <1>1, <2>1, FS_Subset
<1>3. ASSUME NEW t \in SteeredOf(k)
      PROVE  \E m \in ElementsOf(accepted[k]) : t.msgs = <<m>>
  <2>1. t \in TurnsOf(k) /\ ~t.queued
    BY DEF SteeredOf
  <2>2. LaneTurnsOK(lanes[k], TurnsOf(k), accepted[k])
    BY <2>1 DEF TurnInv, LaneInv, LaneInvAt
  <2>3. PICK i \in 1..Len(accepted[k]) : t.msgs = <<accepted[k][i]>>
    BY <2>1, <2>2 DEF LaneTurnsOK
  <2> QED
    BY <2>3 DEF ElementsOf
<1> QED
  BY <1>2, <1>3, FS_CardinalityType

KeptAt(k) == Balanced(accepted[k], done[k], QueueOf(k), SteeredOf(k))

LEMMA Sequences ==
    ASSUME TypeInv, NEW k \in Lane
    PROVE  /\ accepted[k] \in Seq(Message) /\ done[k] \in Seq(Message)
           /\ QueueOf(k) \in Seq(Message)
           /\ Len(accepted[k]) \in Nat /\ Len(done[k]) \in Nat /\ Len(QueueOf(k)) \in Nat
<1>1. accepted[k] \in Seq(Message) /\ done[k] \in Seq(Message)
  BY DEF TypeInv, TypeOK
<1> QED
  BY <1>1, QueueType, LenProperties

LEMMA KeptElsewhere ==
    ASSUME NEW k, KeptAt(k), accepted'[k] = accepted[k], done'[k] = done[k],
           QueueOf(k)' = QueueOf(k), SteeredOf(k)' = SteeredOf(k)
    PROVE  KeptAt(k)'
BY DEF KeptAt

(* What dispatch does to the queue and the steered turns of the lane.       *)
LEMMA DispatchTakes ==
    ASSUME TurnInv, NEW m \in Message, Dispatch(m)
    PROVE  LET k == LaneOf[m]
               n == NewTurn(k, <<m>>, FALSE)
           IN /\ k \in Lane /\ done' = done /\ m \notin ElementsOf(accepted[k])
              /\ accepted'[k] = Append(accepted[k], m)
              /\ \A x \in Lane \ {k} : /\ accepted'[x] = accepted[x]
                                       /\ QueueOf(x)' = QueueOf(x)
                                       /\ SteeredOf(x)' = SteeredOf(x)
              /\ \/ /\ QueueOf(k)' = QueueOf(k)
                    /\ SteeredOf(k)' = SteeredOf(k) \cup {n}
                 \/ /\ QueueOf(k)' = Append(QueueOf(k), m)
                    /\ SteeredOf(k)' = SteeredOf(k)
<1> DEFINE k == LaneOf[m]
           l == LaneFor(k)
           p == Pushed(l, m)
           n == NewTurn(k, <<m>>, FALSE)
           h == NewTurn(k, HeadOf(p), TRUE)
<1>1. k \in Lane /\ l \in LaneState /\ HeadFits(l)
  BY LaneAssumption, LaneForType DEF TurnInv
<1>2. /\ done' = done /\ m \notin ElementsOf(accepted[k])
      /\ accepted'[k] = Append(accepted[k], m)
      /\ \A x \in Lane : x # k => accepted'[x] = accepted[x]
  BY <1>1 DEF Dispatch, TurnInv, TypeInv, TypeOK
<1>3. l.queue = QueueOf(k)
  BY DEF LaneFor, QueueOf
<1>4. p.queue = Append(l.queue, m) /\ Started(p).queue = p.queue
  <2>1. p.queue = Append(l.queue, m) /\ p \in LaneState
    BY <1>1, PushedAppends
  <2> HIDE DEF p
  <2> QED
    BY <2>1 DEF Started, LaneState
<1>5. \A l1 : lanes' = WithLane(k, l1) =>
         /\ QueueOf(k)' = l1.queue
         /\ \A x \in Lane : x # k => QueueOf(x)' = QueueOf(x)
  BY DEF WithLane, QueueOf
<1>6. n.lane = k /\ n.queued = FALSE /\ h.lane = k /\ h.queued = TRUE
  BY DEF NewTurn
<1>7. [l EXCEPT !.inFlight = @ + 1].queue = l.queue
  BY <1>1 DEF LaneState
<1> DEFINE Goal == /\ \A x \in Lane \ {k} : /\ QueueOf(x)' = QueueOf(x)
                                            /\ SteeredOf(x)' = SteeredOf(x)
                   /\ \/ /\ QueueOf(k)' = QueueOf(k)
                         /\ SteeredOf(k)' = SteeredOf(k) \cup {n}
                      \/ /\ QueueOf(k)' = Append(QueueOf(k), m)
                         /\ SteeredOf(k)' = SteeredOf(k)
<1> HIDE DEF p, l, n, h, k
<1>8. ASSUME Steer(m, k, l) PROVE Goal
  <2>1. lanes' = WithLane(k, [l EXCEPT !.inFlight = @ + 1]) /\ turns' = turns \cup {n}
    BY <1>8 DEF Steer, n
  <2>2. SteeredOf(k)' = SteeredOf(k) \cup {n}
    BY <1>6, <2>1 DEF SteeredOf, TurnsOf
  <2>3. \A x \in Lane \ {k} : SteeredOf(x)' = SteeredOf(x)
    BY <1>6, <2>1 DEF SteeredOf, TurnsOf
  <2> QED
    BY <1>3, <1>5, <1>7, <2>1, <2>2, <2>3
<1>9. ASSUME Queue(m, k, l) \/ WaitForSlot(m, k, l) PROVE Goal
  <2>1. lanes' = WithLane(k, p) /\ turns' = turns
    BY <1>9 DEF Queue, WaitForSlot, p
  <2>2. \A x \in Lane : SteeredOf(x)' = SteeredOf(x)
    BY <2>1 DEF SteeredOf, TurnsOf
  <2> QED
    BY <1>1, <1>3, <1>4, <1>5, <2>1, <2>2
<1>10. ASSUME StartNow(m, k, l) PROVE Goal
  <2>1. lanes' = WithLane(k, Started(p)) /\ turns' = turns \cup {h}
    BY <1>10 DEF StartNow, p, h
  <2>2. \A x \in Lane : SteeredOf(x)' = SteeredOf(x)
    BY <1>6, <2>1 DEF SteeredOf, TurnsOf
  <2> QED
    BY <1>1, <1>3, <1>4, <1>5, <2>1, <2>2
<1>11. Goal
  BY <1>8, <1>9, <1>10 DEF Dispatch, k, l
<1> QED
  BY <1>1, <1>2, <1>11 DEF k, n

LEMMA DispatchKeeps ==
    ASSUME TurnInv, \A k \in Lane : KeptAt(k), NEW m \in Message, Dispatch(m)
    PROVE  \A k \in Lane : KeptAt(k)'
<1> DEFINE k == LaneOf[m]
           n == NewTurn(k, <<m>>, FALSE)
<1>1. /\ k \in Lane /\ done' = done /\ m \notin ElementsOf(accepted[k])
      /\ accepted'[k] = Append(accepted[k], m)
      /\ \A x \in Lane \ {k} : /\ accepted'[x] = accepted[x]
                               /\ QueueOf(x)' = QueueOf(x)
                               /\ SteeredOf(x)' = SteeredOf(x)
      /\ \/ /\ QueueOf(k)' = QueueOf(k)
            /\ SteeredOf(k)' = SteeredOf(k) \cup {n}
         \/ /\ QueueOf(k)' = Append(QueueOf(k), m)
            /\ SteeredOf(k)' = SteeredOf(k)
  BY DispatchTakes
<1>2. n.msgs = <<m>>
  BY DEF NewTurn
<1> HIDE DEF k, n
<1>3. /\ accepted[k] \in Seq(Message) /\ done[k] \in Seq(Message)
      /\ QueueOf(k) \in Seq(Message)
  BY <1>1, Sequences DEF TurnInv
<1>4. Balanced(accepted[k], done[k], QueueOf(k), SteeredOf(k))
  BY <1>1 DEF KeptAt
<1>5. IsFiniteSet(SteeredOf(k)) /\ Cardinality(SteeredOf(k)) \in Nat
  BY <1>1, Steered
<1>6. Balanced(accepted'[k], done'[k], QueueOf(k)', SteeredOf(k)')
  <2>1. CASE QueueOf(k)' = QueueOf(k) /\ SteeredOf(k)' = SteeredOf(k) \cup {n}
    <3>1. n \notin SteeredOf(k)
      <4> SUFFICES ASSUME n \in SteeredOf(k) PROVE FALSE
        OBVIOUS
      <4>1. PICK a \in ElementsOf(accepted[k]) : <<m>> = <<a>>
        BY <1>1, <1>2, Steered
      <4>2. <<m>>[1] = <<a>>[1]
        BY <4>1
      <4> QED
        BY <1>1, <4>1, <4>2
    <3>2. Balanced(Append(accepted[k], m), done[k], QueueOf(k), SteeredOf(k) \cup {n})
      BY <1>2, <1>3, <1>4, <1>5, <3>1, BalanceSteered
    <3> QED
      BY <1>1, <2>1, <3>2
  <2>2. CASE QueueOf(k)' = Append(QueueOf(k), m) /\ SteeredOf(k)' = SteeredOf(k)
    <3>1. Balanced(Append(accepted[k], m), done[k], Append(QueueOf(k), m), SteeredOf(k))
      BY <1>3, <1>4, <1>5, BalanceQueued
    <3> QED
      BY <1>1, <2>2, <3>1
  <2> QED
    BY <1>1, <2>1, <2>2
<1>7. KeptAt(k)'
  BY <1>6 DEF KeptAt
<1>8. ASSUME NEW x \in Lane, x # k PROVE KeptAt(x)'
  BY <1>1, <1>8, KeptElsewhere
<1> QED
  BY <1>7, <1>8

LEMMA BeginKeeps ==
    ASSUME TurnInv, \A k \in Lane : KeptAt(k), NEW t \in turns, Begin(t)
    PROVE  \A k \in Lane : KeptAt(k)'
<1> DEFINE k == t.lane
           n == [t EXCEPT !.pc = "working", !.client = ClientFor(t.lane)]
<1>1. t \in Turn /\ t.pc = "spawned"
  BY DEF TurnInv, TypeInv, TypeOK, Begin
<1>2. /\ n.queued = t.queued /\ n.msgs = t.msgs /\ n.lane = k /\ n.pc = "working"
  BY <1>1 DEF Turn
<1>3. /\ turns' = (turns \ {t}) \cup {n}
      /\ lanes' = lanes /\ accepted' = accepted /\ done' = done
  BY DEF Begin
<1>4. k \in Lane /\ t \in TurnsOf(k) /\ t.queued \in BOOLEAN
  BY <1>1 DEF Turn, TurnsOf
<1> HIDE DEF n, k
<1>5. \A x : QueueOf(x)' = QueueOf(x)
  BY <1>3 DEF QueueOf
<1>6. ASSUME NEW x \in Lane, x # k \/ t.queued PROVE KeptAt(x)'
  <2>1. SteeredOf(x)' = SteeredOf(x)
    BY <1>2, <1>3, <1>4, <1>6 DEF SteeredOf, TurnsOf, k
  <2> QED
    BY <1>3, <1>5, <2>1, KeptElsewhere
<1>7. ASSUME ~t.queued PROVE KeptAt(k)'
  <2>1. SteeredOf(k)' = (SteeredOf(k) \ {t}) \cup {n} /\ t \in SteeredOf(k)
    BY <1>2, <1>3, <1>4, <1>7 DEF SteeredOf, TurnsOf, k
  <2>2. IsFiniteSet(SteeredOf(k)) /\ Cardinality(SteeredOf(k)) \in Nat
    BY <1>4, Steered
  <2>3. n \notin SteeredOf(k)
    <3> SUFFICES ASSUME n \in TurnsOf(k), n # t PROVE FALSE
      BY <1>1, <1>2 DEF SteeredOf
    <3>1. LaneTurnsOK(lanes[k], TurnsOf(k), accepted[k])
      BY <1>4 DEF TurnInv, LaneInv, LaneInvAt
    <3> QED
      BY <1>2, <1>4, <1>7, <3>1 DEF LaneTurnsOK
  <2>4. Cardinality(SteeredOf(k)') = Cardinality(SteeredOf(k))
    <3>1. /\ IsFiniteSet(SteeredOf(k) \ {t})
          /\ Cardinality(SteeredOf(k) \ {t}) = Cardinality(SteeredOf(k)) - 1
      BY <2>1, <2>2, FS_RemoveElement
    <3>2. n \notin SteeredOf(k) \ {t}
      BY <2>3
    <3>3. Cardinality((SteeredOf(k) \ {t}) \cup {n}) = Cardinality(SteeredOf(k) \ {t}) + 1
      BY <3>1, <3>2, FS_AddElement
    <3> QED
      BY <2>1, <2>2, <3>1, <3>3
  <2>5. MessagesOf(SteeredOf(k)') = MessagesOf(SteeredOf(k))
    BY <1>2, <2>1 DEF MessagesOf
  <2>6. Balanced(accepted[k], done[k], QueueOf(k), SteeredOf(k))
    BY <1>4 DEF KeptAt
  <2>7. Balanced(accepted'[k], done'[k], QueueOf(k)', SteeredOf(k)')
    BY <1>3, <1>5, <2>4, <2>5, <2>6 DEF Balanced
  <2> QED
    BY <2>7 DEF KeptAt
<1> QED
  BY <1>4, <1>6, <1>7

(* What the end of a turn does to the steered turns.                        *)
LEMMA FinishSteered ==
    ASSUME TypeInv, NEW t \in turns, Finish(t)
    PROVE  \A x \in Lane : SteeredOf(x)' = SteeredOf(x) \ {t}
<1> DEFINE ts == turns \ {t}
           Fewer == \A x \in Lane : SteeredOf(x)' = SteeredOf(x) \ {t}
<1>1. ASSUME NEW news, turns' = ts \cup news, \A u \in news : u.queued = TRUE
      PROVE  Fewer
  BY <1>1 DEF SteeredOf, TurnsOf
<1>2. ASSUME turns' = ts PROVE Fewer
  BY <1>2 DEF SteeredOf, TurnsOf
<1>3. ASSUME NEW k, NEW l, Chain(k, l, ts) PROVE Fewer
  <2> DEFINE n == NewTurn(k, HeadOf(l), TRUE)
  <2>1. turns' = ts \cup {n} /\ n.queued = TRUE
    BY <1>3 DEF Chain, NewTurn
  <2> HIDE DEF n
  <2> QED
    BY <2>1 DEF SteeredOf, TurnsOf
<1>4. ASSUME Release(t.lane, ts) PROVE Fewer
  <2> DEFINE lns == [x \in DOMAIN lanes \ {t.lane} |-> lanes[x]]
  <2>1. readyLanes \in Seq(Lane) /\ maxWorkers \in Nat /\ runningLanes - 1 \in Int
    BY LimitAssumption DEF TypeInv, TypeOK
  <2>2. ScheduleLocked(lns, runningLanes - 1, ts)
    BY <1>4 DEF Release
  <2> HIDE DEF lns
  <2>3. PICK started \in SUBSET (DOMAIN lns) : Starts(lns, runningLanes - 1, ts, started)
    BY <2>1, <2>2, ScheduleEffect
  <2>4. turns' = ts \cup {NewTurn(k, HeadOf(lns[k]), TRUE) : k \in started}
    BY <2>3 DEF Starts
  <2>5. \A u \in {NewTurn(k, HeadOf(lns[k]), TRUE) : k \in started} : u.queued = TRUE
    BY DEF NewTurn
  <2> QED
    BY <1>1, <2>4, <2>5
<1>5. turns' = ts \/ (\E k, l : Chain(k, l, ts)) \/ Release(t.lane, ts)
  <2>1. CASE t.lane \in DOMAIN lanes /\ FinishInteractive(t, lanes[t.lane], ts)
    BY <2>1 DEF FinishInteractive
  <2>2. CASE t.lane \in DOMAIN lanes /\ FinishSerial(t, lanes[t.lane], ts)
    BY <2>2 DEF FinishSerial
  <2> QED
    BY <2>1, <2>2 DEF Finish
<1> QED
  BY <1>2, <1>3, <1>4, <1>5

LEMMA FinishKeeps ==
    ASSUME TurnInv, \A k \in Lane : KeptAt(k), NEW t \in turns, Finish(t)
    PROVE  \A k \in Lane : KeptAt(k)'
<1> DEFINE k == t.lane
           rest == QueueOf(k)'
<1>1. /\ k \in Lane /\ t.msgs \in Seq(Message) /\ t.queued \in BOOLEAN /\ t \in TurnsOf(k)
  BY DEF TurnInv, TypeInv, TypeOK, Turn, TurnsOf
<1>2. rest \in Seq(Message) /\ Len(rest) \in Nat
  <2>1. TypeInv'
    BY FinishType DEF TurnInv
  <2>2. rest \in Seq(Message)
    BY <2>1, EmptySeq DEF TypeInv, TypeOK, QueueOf, LaneState
  <2> QED
    BY <2>2, LenProperties
<1>3. /\ accepted' = accepted
      /\ done'[k] = done[k] \o t.msgs
      /\ \A x \in Lane : x # k => done'[x] = done[x]
  BY <1>1 DEF Finish, TurnInv, TypeInv, TypeOK
<1>4. /\ \A x \in Lane : x # k => QueueOf(x)' = QueueOf(x)
      /\ t.queued => QueueOf(k) = t.msgs \o rest
      /\ ~t.queued => rest = QueueOf(k)
  BY FinishQueue
<1>5. \A x \in Lane : SteeredOf(x)' = SteeredOf(x) \ {t}
  BY FinishSteered DEF TurnInv
<1>6. ASSUME NEW x \in Lane, x # k PROVE KeptAt(x)'
  <2>1. SteeredOf(x)' = SteeredOf(x)
    BY <1>5, <1>6 DEF SteeredOf, TurnsOf
  <2> QED
    BY <1>3, <1>4, <1>6, <2>1, KeptElsewhere
<1>7. accepted[k] \in Seq(Message) /\ done[k] \in Seq(Message) /\ QueueOf(k) \in Seq(Message)
  BY <1>1, Sequences DEF TurnInv
<1>8. Balanced(accepted[k], done[k], QueueOf(k), SteeredOf(k))
  BY <1>1 DEF KeptAt
<1>9. IsFiniteSet(SteeredOf(k)) /\ Cardinality(SteeredOf(k)) \in Nat
  BY <1>1, Steered
<1>10. Balanced(accepted[k], done[k] \o t.msgs, rest, SteeredOf(k) \ {t})
  <2>1. CASE t.queued
    <3>1. SteeredOf(k) \ {t} = SteeredOf(k)
      BY <2>1 DEF SteeredOf
    <3>2. Balanced(accepted[k], done[k], t.msgs \o rest, SteeredOf(k))
      BY <1>4, <1>8, <2>1
    <3>3. Balanced(accepted[k], done[k] \o t.msgs, rest, SteeredOf(k))
      BY <1>1, <1>2, <1>7, <1>9, <3>2, BalanceAnswered
    <3> QED
      BY <3>1, <3>3
  <2>2. CASE ~t.queued
    <3>1. t \in SteeredOf(k)
      BY <1>1, <2>2 DEF SteeredOf
    <3>2. PICK m \in ElementsOf(accepted[k]) : t.msgs = <<m>>
      BY <1>1, <3>1, Steered
    <3>3. m \in Message
      BY <1>7, <3>2, LenProperties DEF ElementsOf
    <3>4. Balanced(accepted[k], done[k] \o <<m>>, QueueOf(k), SteeredOf(k) \ {t})
      BY <1>7, <1>8, <1>9, <3>1, <3>2, <3>3, BalanceLeft
    <3> QED
      BY <1>4, <2>2, <3>2, <3>4
  <2> QED
    BY <1>1, <2>1, <2>2
<1>11. KeptAt(k)'
  <2>1. Balanced(accepted'[k], done'[k], QueueOf(k)', SteeredOf(k)')
    BY <1>1, <1>3, <1>5, <1>10
  <2> QED
    BY <2>1 DEF KeptAt
<1> QED
  BY <1>6, <1>11

AllKept == \A k \in Lane : KeptAt(k)

LEMMA InitKept == Init => AllKept
<1> SUFFICES ASSUME Init, NEW k \in Lane PROVE KeptAt(k)
  BY DEF AllKept
<1>1. /\ accepted[k] = <<>> /\ done[k] = <<>> /\ QueueOf(k) = <<>> /\ SteeredOf(k) = {}
  BY DEF Init, QueueOf, SteeredOf, TurnsOf
<1>2. Cardinality(SteeredOf(k)) = 0 /\ MessagesOf(SteeredOf(k)) = {}
  BY <1>1, FS_EmptySet DEF MessagesOf
<1> QED
  BY <1>1, <1>2 DEF KeptAt, Balanced, ElementsOf

LEMMA NextKept == TurnInv /\ AllKept /\ [Next]_vars => AllKept'
<1> SUFFICES ASSUME TurnInv, \A k \in Lane : KeptAt(k), [Next]_vars
             PROVE  \A k \in Lane : KeptAt(k)'
  BY DEF AllKept
<1>1. ASSUME NEW m \in Message, Dispatch(m) PROVE \A k \in Lane : KeptAt(k)'
  BY <1>1, DispatchKeeps
<1>2. ASSUME NEW t \in turns, Begin(t) PROVE \A k \in Lane : KeptAt(k)'
  BY <1>2, BeginKeeps
<1>3. ASSUME NEW t \in turns, Finish(t) PROVE \A k \in Lane : KeptAt(k)'
  BY <1>3, FinishKeeps
<1>4. CASE UNCHANGED <<lanes, turns, accepted, done>>
  <2>1. ASSUME NEW k \in Lane PROVE KeptAt(k)'
    <3>1. QueueOf(k)' = QueueOf(k) /\ SteeredOf(k)' = SteeredOf(k)
      BY <1>4 DEF QueueOf, SteeredOf, TurnsOf
    <3> QED
      BY <1>4, <3>1, KeptElsewhere
  <2> QED
    BY <2>1
<1> QED
  BY <1>1, <1>2, <1>3, <1>4
     DEF Next, TurnStep, ReloadLimit, SetInteractive, SetChannelBackend, vars

(* In every lane, interactive ones included, each accepted message is in    *)
(* exactly one place (finishTurn's comment, bot.go:701-710): answered, in   *)
(* the queue, or with the live session it joined.                           *)
THEOREM NothingLost == Spec => []NothingLostInLane
<1>1. AllKept => NothingLostInLane
  BY DEF AllKept, KeptAt, Balanced, MessagesOf, NothingLostInLane
<1> QED
  BY <1>1, InitTurns, NextTurns, InitKept, NextKept, PTL DEF Spec

-----------------------------------------------------------------------------
(* Where the messages of a lane are.                                       *)

Unique(s) == \A i, j \in 1..Len(s) : s[i] = s[j] => i = j

LEMMA UniqueAppend ==
    ASSUME NEW s \in Seq(Message), Unique(s), NEW m \in Message, m \notin ElementsOf(s)
    PROVE  Unique(Append(s, m))
<1>1. /\ Len(Append(s, m)) = Len(s) + 1 /\ Append(s, m)[Len(s) + 1] = m
      /\ \A i \in 1..Len(s) : Append(s, m)[i] = s[i] /\ s[i] # m
      /\ Len(s) \in Nat
  BY AppendProperties, LenProperties DEF ElementsOf
<1>2. \A i \in 1..(Len(s) + 1) : i \in 1..Len(s) \/ i = Len(s) + 1
  BY <1>1
<1> QED
  BY <1>1, <1>2 DEF Unique

LEMMA UniqueSplit ==
    ASSUME NEW h \in Seq(Message), NEW r \in Seq(Message), Unique(h \o r)
    PROVE  Unique(r) /\ \A m \in ElementsOf(h) : m \notin ElementsOf(r)
<1>1. /\ Len(h \o r) = Len(h) + Len(r)
      /\ \A i \in 1..(Len(h) + Len(r)) :
            (h \o r)[i] = IF i <= Len(h) THEN h[i] ELSE r[i - Len(h)]
      /\ Len(h) \in Nat /\ Len(r) \in Nat
  BY ConcatProperties, LenProperties
<1>2. \A i \in 1..Len(r) : /\ Len(h) + i \in 1..(Len(h) + Len(r))
                           /\ ~(Len(h) + i <= Len(h)) /\ (Len(h) + i) - Len(h) = i
  BY <1>1
<1>3. \A i \in 1..Len(r) : (h \o r)[Len(h) + i] = r[i]
  BY <1>1, <1>2
<1>4. \A i \in 1..Len(h) : /\ (h \o r)[i] = h[i] /\ i \in 1..(Len(h) + Len(r))
  BY <1>1
<1>5. ASSUME NEW i \in 1..Len(r), NEW j \in 1..Len(r), r[i] = r[j] PROVE i = j
  <2>1. Len(h) + i = Len(h) + j
    BY <1>1, <1>2, <1>3, <1>5 DEF Unique
  <2> QED
    BY <1>1, <2>1
<1>6. ASSUME NEW i \in 1..Len(h), NEW j \in 1..Len(r), h[i] = r[j] PROVE FALSE
  <2>1. i = Len(h) + j
    BY <1>1, <1>2, <1>3, <1>4, <1>6 DEF Unique
  <2> QED
    BY <1>1, <2>1
<1> QED
  BY <1>5, <1>6 DEF Unique, ElementsOf

(* Answered, queued and steered messages are apart.                         *)
Placed(d, q, s) ==
    /\ Unique(q)
    /\ \A m \in ElementsOf(q) : m \notin ElementsOf(d)
    /\ \A t \in s : \A m \in ElementsOf(t.msgs) :
          m \notin ElementsOf(d) /\ m \notin ElementsOf(q)

AcceptedAt(k) ==
    /\ Unique(accepted[k])
    /\ \A m \in ElementsOf(accepted[k]) : LaneOf[m] = k

PlacedAt(k) == AcceptedAt(k) /\ Placed(done[k], QueueOf(k), SteeredOf(k))

PlaceInv ==
    /\ TurnInv
    /\ \A k \in Lane : KeptAt(k)
    /\ \A k \in Lane : PlacedAt(k)

LEMMA PlacedElsewhere ==
    ASSUME NEW k, PlacedAt(k), accepted'[k] = accepted[k], done'[k] = done[k],
           QueueOf(k)' = QueueOf(k), SteeredOf(k)' = SteeredOf(k)
    PROVE  PlacedAt(k)'
BY DEF PlacedAt, AcceptedAt

(* Every message somewhere in a lane was accepted there.                    *)
LEMMA Accounted ==
    ASSUME NEW k, KeptAt(k)
    PROVE  /\ ElementsOf(done[k]) \subseteq ElementsOf(accepted[k])
           /\ ElementsOf(QueueOf(k)) \subseteq ElementsOf(accepted[k])
           /\ \A t \in SteeredOf(k) : ElementsOf(t.msgs) \subseteq ElementsOf(accepted[k])
BY DEF KeptAt, Balanced, MessagesOf

LEMMA DispatchPlaces ==
    ASSUME PlaceInv, NEW m \in Message, Dispatch(m)
    PROVE  \A k \in Lane : PlacedAt(k)'
<1> DEFINE k == LaneOf[m]
           n == NewTurn(k, <<m>>, FALSE)
<1>1. /\ k \in Lane /\ done' = done /\ m \notin ElementsOf(accepted[k])
      /\ accepted'[k] = Append(accepted[k], m)
      /\ \A x \in Lane \ {k} : /\ accepted'[x] = accepted[x]
                               /\ QueueOf(x)' = QueueOf(x)
                               /\ SteeredOf(x)' = SteeredOf(x)
      /\ \/ /\ QueueOf(k)' = QueueOf(k)
            /\ SteeredOf(k)' = SteeredOf(k) \cup {n}
         \/ /\ QueueOf(k)' = Append(QueueOf(k), m)
            /\ SteeredOf(k)' = SteeredOf(k)
  BY DispatchTakes DEF PlaceInv
<1>2. n.msgs = <<m>> /\ LaneOf[m] = k
  BY DEF NewTurn
<1> HIDE DEF k, n
<1>3. /\ accepted[k] \in Seq(Message) /\ QueueOf(k) \in Seq(Message)
  BY <1>1, Sequences DEF PlaceInv, TurnInv
<1>4. AcceptedAt(k) /\ Placed(done[k], QueueOf(k), SteeredOf(k))
  BY <1>1 DEF PlaceInv, PlacedAt
<1>5. /\ m \notin ElementsOf(done[k]) /\ m \notin ElementsOf(QueueOf(k))
      /\ \A t \in SteeredOf(k) : m \notin ElementsOf(t.msgs)
  BY <1>1, Accounted DEF PlaceInv
<1>6. AcceptedAt(k)'
  <2>1. Unique(Append(accepted[k], m))
    BY <1>1, <1>3, <1>4, UniqueAppend DEF AcceptedAt
  <2>2. ElementsOf(Append(accepted[k], m)) = ElementsOf(accepted[k]) \cup {m}
    BY <1>3, ElementsAppend
  <2>3. Unique(accepted'[k]) /\ \A x \in ElementsOf(accepted'[k]) : LaneOf[x] = k
    BY <1>1, <1>2, <1>4, <2>1, <2>2 DEF AcceptedAt
  <2> QED
    BY <2>3 DEF AcceptedAt
<1>7. Placed(done'[k], QueueOf(k)', SteeredOf(k)')
  <2>1. CASE QueueOf(k)' = QueueOf(k) /\ SteeredOf(k)' = SteeredOf(k) \cup {n}
    <3>1. ElementsOf(n.msgs) = {m}
      BY <1>2, SingleElement
    <3>2. Placed(done[k], QueueOf(k), SteeredOf(k) \cup {n})
      BY <1>4, <1>5, <3>1 DEF Placed
    <3> QED
      BY <1>1, <2>1, <3>2
  <2>2. CASE QueueOf(k)' = Append(QueueOf(k), m) /\ SteeredOf(k)' = SteeredOf(k)
    <3>1. Unique(Append(QueueOf(k), m))
      BY <1>3, <1>4, <1>5, UniqueAppend DEF Placed
    <3>2. ElementsOf(Append(QueueOf(k), m)) = ElementsOf(QueueOf(k)) \cup {m}
      BY <1>3, ElementsAppend
    <3>3. Placed(done[k], Append(QueueOf(k), m), SteeredOf(k))
      BY <1>4, <1>5, <3>1, <3>2 DEF Placed
    <3> QED
      BY <1>1, <2>2, <3>3
  <2> QED
    BY <1>1, <2>1, <2>2
<1>8. PlacedAt(k)'
  BY <1>6, <1>7 DEF PlacedAt
<1>9. ASSUME NEW x \in Lane, x # k PROVE PlacedAt(x)'
  BY <1>1, <1>9, PlacedElsewhere DEF PlaceInv
<1> QED
  BY <1>8, <1>9

LEMMA BeginPlaces ==
    ASSUME PlaceInv, NEW t \in turns, Begin(t)
    PROVE  \A k \in Lane : PlacedAt(k)'
<1> DEFINE n == [t EXCEPT !.pc = "working", !.client = ClientFor(t.lane)]
<1>1. t \in Turn
  BY DEF PlaceInv, TurnInv, TypeInv, TypeOK
<1>2. n.queued = t.queued /\ n.msgs = t.msgs /\ n.lane = t.lane
  BY <1>1 DEF Turn
<1>3. /\ turns' = (turns \ {t}) \cup {n}
      /\ lanes' = lanes /\ accepted' = accepted /\ done' = done
  BY DEF Begin
<1> HIDE DEF n
<1> SUFFICES ASSUME NEW k \in Lane PROVE PlacedAt(k)'
  OBVIOUS
<1>4. QueueOf(k)' = QueueOf(k)
  BY <1>3 DEF QueueOf
<1>5. \A u \in SteeredOf(k)' : \E w \in SteeredOf(k) : u.msgs = w.msgs
  BY <1>2, <1>3 DEF SteeredOf, TurnsOf
<1>6. AcceptedAt(k) /\ Placed(done[k], QueueOf(k), SteeredOf(k))
  BY DEF PlaceInv, PlacedAt
<1>7. Placed(done[k], QueueOf(k), SteeredOf(k)')
  BY <1>5, <1>6 DEF Placed
<1> QED
  BY <1>3, <1>4, <1>6, <1>7 DEF PlacedAt, AcceptedAt

LEMMA FinishPlaces ==
    ASSUME PlaceInv, NEW t \in turns, Finish(t)
    PROVE  \A k \in Lane : PlacedAt(k)'
<1> DEFINE k == t.lane
           rest == QueueOf(k)'
<1>1. /\ k \in Lane /\ t.msgs \in Seq(Message) /\ t \in TurnsOf(k)
  BY DEF PlaceInv, TurnInv, TypeInv, TypeOK, Turn, TurnsOf
<1>2. rest \in Seq(Message)
  <2>1. TypeInv'
    BY FinishType DEF PlaceInv, TurnInv
  <2> QED
    BY <2>1, EmptySeq DEF TypeInv, TypeOK, QueueOf, LaneState
<1>3. /\ accepted' = accepted
      /\ done'[k] = done[k] \o t.msgs
      /\ \A x \in Lane : x # k => done'[x] = done[x]
  BY <1>1 DEF Finish, PlaceInv, TurnInv, TypeInv, TypeOK
<1>4. /\ \A x \in Lane : x # k => QueueOf(x)' = QueueOf(x)
      /\ t.queued => QueueOf(k) = t.msgs \o rest
      /\ ~t.queued => rest = QueueOf(k)
  BY FinishQueue DEF PlaceInv
<1>5. \A x \in Lane : SteeredOf(x)' = SteeredOf(x) \ {t}
  BY FinishSteered DEF PlaceInv, TurnInv
<1>6. ASSUME NEW x \in Lane, x # k PROVE PlacedAt(x)'
  <2>1. SteeredOf(x)' = SteeredOf(x)
    BY <1>5, <1>6 DEF SteeredOf, TurnsOf
  <2> QED
    BY <1>3, <1>4, <1>6, <2>1, PlacedElsewhere DEF PlaceInv
<1>7. done[k] \in Seq(Message)
  BY <1>1 DEF PlaceInv, TurnInv, TypeInv, TypeOK
<1>8. AcceptedAt(k) /\ Placed(done[k], QueueOf(k), SteeredOf(k))
  BY <1>1 DEF PlaceInv, PlacedAt
<1>9. ElementsOf(done[k] \o t.msgs) = ElementsOf(done[k]) \cup ElementsOf(t.msgs)
  BY <1>1, <1>7, ElementsConcat
<1>10. Placed(done[k] \o t.msgs, rest, SteeredOf(k) \ {t})
  <2>1. CASE t.queued
    <3>1. ElementsOf(QueueOf(k)) = ElementsOf(t.msgs) \cup ElementsOf(rest)
      BY <1>1, <1>2, <1>4, <2>1, ElementsConcat
    <3>2. Unique(rest) /\ \A m \in ElementsOf(t.msgs) : m \notin ElementsOf(rest)
      BY <1>1, <1>2, <1>4, <1>8, <2>1, UniqueSplit DEF Placed
    <3> HIDE DEF rest
    <3> QED
      BY <1>8, <1>9, <3>1, <3>2 DEF Placed
  <2>2. CASE ~t.queued
    <3>1. t \in SteeredOf(k)
      BY <1>1, <2>2 DEF SteeredOf
    <3>2. ASSUME NEW u \in SteeredOf(k), u # t, NEW m \in ElementsOf(u.msgs)
          PROVE  m \notin ElementsOf(t.msgs)
      <4>1. u.msgs # t.msgs
        BY <1>1, <3>1, <3>2 DEF PlaceInv, TurnInv, LaneInv, LaneInvAt, LaneTurnsOK, SteeredOf
      <4>2. PICK a : u.msgs = <<a>>
        BY <1>1, <3>2, Steered DEF PlaceInv
      <4>3. PICK b : t.msgs = <<b>>
        BY <1>1, <3>1, Steered DEF PlaceInv
      <4> QED
        BY <3>2, <4>1, <4>2, <4>3, SingleElement
    <3>3. rest = QueueOf(k)
      BY <1>4, <2>2
    <3> HIDE DEF rest
    <3> QED
      BY <1>8, <1>9, <3>1, <3>2, <3>3 DEF Placed
  <2> QED
    BY <2>1, <2>2
<1>11. PlacedAt(k)'
  <2>1. Placed(done'[k], QueueOf(k)', SteeredOf(k)')
    BY <1>1, <1>3, <1>5, <1>10
  <2>2. AcceptedAt(k)'
    BY <1>3, <1>8 DEF AcceptedAt
  <2> QED
    BY <2>1, <2>2 DEF PlacedAt
<1> QED
  BY <1>6, <1>11

LEMMA InitPlaces == Init => PlaceInv
<1> SUFFICES ASSUME Init, NEW k \in Lane PROVE PlacedAt(k)
  BY InitTurns, InitKept DEF PlaceInv, AllKept
<1>1. /\ accepted[k] = <<>> /\ QueueOf(k) = <<>> /\ SteeredOf(k) = {}
  BY DEF Init, QueueOf, SteeredOf, TurnsOf
<1> QED
  BY <1>1 DEF PlacedAt, AcceptedAt, Placed, Unique, ElementsOf

LEMMA NextPlaces == PlaceInv /\ [Next]_vars => PlaceInv'
<1> SUFFICES ASSUME PlaceInv, [Next]_vars PROVE \A k \in Lane : PlacedAt(k)'
  BY NextTurns, NextKept DEF PlaceInv, AllKept
<1>1. ASSUME NEW m \in Message, Dispatch(m) PROVE \A k \in Lane : PlacedAt(k)'
  BY <1>1, DispatchPlaces
<1>2. ASSUME NEW t \in turns, Begin(t) PROVE \A k \in Lane : PlacedAt(k)'
  BY <1>2, BeginPlaces
<1>3. ASSUME NEW t \in turns, Finish(t) PROVE \A k \in Lane : PlacedAt(k)'
  BY <1>3, FinishPlaces
<1>4. CASE UNCHANGED <<lanes, turns, accepted, done>>
  <2>1. ASSUME NEW k \in Lane PROVE PlacedAt(k)'
    <3>1. QueueOf(k)' = QueueOf(k) /\ SteeredOf(k)' = SteeredOf(k)
      BY <1>4 DEF QueueOf, SteeredOf, TurnsOf
    <3> QED
      BY <1>4, <3>1, PlacedElsewhere DEF PlaceInv
  <2> QED
    BY <2>1
<1> QED
  BY <1>1, <1>2, <1>3, <1>4
     DEF Next, TurnStep, ReloadLimit, SetInteractive, SetChannelBackend, vars

-----------------------------------------------------------------------------
(* What is queued.                                                          *)

(* The queue q of a lane, whose head entry carries n messages, against the  *)
(* messages a that the lane accepted: only messages that may share a prompt *)
(* are merged, none in an interactive lane, and the queue of another lane   *)
(* is what the lane accepted last.                                          *)
QueueFits(q, n, interactive, a) ==
    /\ interactive => n <= 1
    /\ ~interactive => \E b \in Seq(Message) : a = b \o q
    /\ \A i \in 2..n : Compatible(q[1], q[i])

LaneFits(k) ==
    k \in DOMAIN lanes =>
       QueueFits(lanes[k].queue, lanes[k].merged, lanes[k].interactive, accepted[k])

FitInv == TurnInv /\ \A k \in Lane : LaneFits(k)

LEMMA PushedFits ==
    ASSUME NEW l \in LaneState, HeadFits(l), NEW a \in Seq(Message), NEW m \in Message,
           QueueFits(l.queue, l.merged, l.interactive, a)
    PROVE  QueueFits(Pushed(l, m).queue, Pushed(l, m).merged,
                     Pushed(l, m).interactive, Append(a, m))
<1> DEFINE p == Pushed(l, m)
           q == l.queue
<1>1. /\ p.queue = Append(q, m) /\ p.merged = (IF l.merged = 0 THEN 1 ELSE l.merged)
      /\ p.interactive = l.interactive
  BY DEF Pushed, LaneState
<1>2. /\ q \in Seq(Message) /\ Len(q) \in Nat /\ l.merged \in Nat /\ l.merged <= Len(q)
      /\ \A i \in 1..Len(q) : Append(q, m)[i] = q[i]
  BY LenProperties, AppendProperties DEF LaneState, HeadFits
<1>3. QueueFits(q, l.merged, l.interactive, a)
  OBVIOUS
<1> HIDE DEF p, q
<1>4. l.interactive => p.merged <= 1
  BY <1>1, <1>2, <1>3 DEF QueueFits
<1>5. ASSUME ~l.interactive PROVE \E b \in Seq(Message) : Append(a, m) = b \o Append(q, m)
  <2>1. PICK b \in Seq(Message) : a = b \o q
    BY <1>3, <1>5 DEF QueueFits
  <2>2. <<m>> \in Seq(Message)
    OBVIOUS
  <2>3. Append(a, m) = a \o <<m>> /\ Append(q, m) = q \o <<m>>
    BY <1>2, AppendIsConcat
  <2>4. (b \o q) \o <<m>> = b \o (q \o <<m>>)
    BY <1>2, <2>2, MessagesAssociate, Zenon
  <2> QED
    BY <2>1, <2>3, <2>4
<1>6. ASSUME NEW i \in 2..p.merged PROVE Compatible(Append(q, m)[1], Append(q, m)[i])
  <2>1. i \in 2..l.merged /\ i \in 1..Len(q) /\ 1 \in 1..Len(q)
    BY <1>1, <1>2
  <2> QED
    BY <1>2, <1>3, <2>1 DEF QueueFits
<1>7. QueueFits(Append(q, m), p.merged, l.interactive, Append(a, m))
  BY <1>4, <1>5, <1>6 DEF QueueFits
<1> QED
  BY <1>1, <1>7 DEF p

LEMMA PoppedFits ==
    ASSUME NEW l \in LaneState, HeadFits(l), NEW a \in Seq(Message),
           QueueFits(l.queue, l.merged, l.interactive, a)
    PROVE  QueueFits(Popped(l).queue, Popped(l).merged, Popped(l).interactive, a)
<1> DEFINE p == Popped(l)
<1>1. p.merged = 0 \/ p.merged = 1
  BY DEF Popped, LaneState
<1>2. /\ HeadOf(l) \in Seq(Message) /\ p \in LaneState
      /\ l.queue = HeadOf(l) \o p.queue /\ p.interactive = l.interactive
  BY PoppedSplits
<1> HIDE DEF p
<1>3. p.queue \in Seq(Message)
  BY <1>2 DEF LaneState
<1>4. ASSUME ~p.interactive PROVE \E b \in Seq(Message) : a = b \o p.queue
  <2>1. PICK b \in Seq(Message) : a = b \o l.queue
    BY <1>2, <1>4 DEF QueueFits
  <2>2. (b \o HeadOf(l)) \o p.queue = b \o (HeadOf(l) \o p.queue)
    BY <1>2, <1>3, MessagesAssociate, Zenon
  <2>3. b \o HeadOf(l) \in Seq(Message)
    BY <1>2, ConcatProperties
  <2> QED
    BY <1>2, <2>1, <2>2, <2>3
<1>5. p.merged <= 1 /\ \A i \in 2..p.merged : FALSE
  BY <1>1
<1>6. QueueFits(p.queue, p.merged, p.interactive, a)
  BY <1>4, <1>5 DEF QueueFits
<1> QED
  BY <1>6 DEF p

LEMMA FitsElsewhere ==
    ASSUME NEW k, LaneFits(k),
           k \in DOMAIN lanes' => /\ k \in DOMAIN lanes
                                  /\ lanes'[k].queue = lanes[k].queue
                                  /\ lanes'[k].merged = lanes[k].merged
                                  /\ lanes'[k].interactive = lanes[k].interactive,
           accepted'[k] = accepted[k]
    PROVE  LaneFits(k)'
BY DEF LaneFits

LEMMA DispatchFits ==
    ASSUME FitInv, NEW m \in Message, Dispatch(m)
    PROVE  \A k \in Lane : LaneFits(k)'
<1> DEFINE k == LaneOf[m]
           l == LaneFor(k)
           p == Pushed(l, m)
           a == accepted[k]
<1>1. k \in Lane /\ l \in LaneState /\ HeadFits(l) /\ a \in Seq(Message)
  BY LaneAssumption, LaneForType DEF FitInv, TurnInv, TypeInv, TypeOK
<1>2. /\ accepted'[k] = Append(a, m)
      /\ \A x \in Lane : x # k => accepted'[x] = accepted[x]
  BY <1>1 DEF Dispatch, FitInv, TurnInv, TypeInv, TypeOK
<1>3. QueueFits(l.queue, l.merged, l.interactive, a)
  <2>1. CASE k \in DOMAIN lanes
    BY <1>1, <2>1 DEF FitInv, LaneFits, LaneFor
  <2>2. CASE k \notin DOMAIN lanes
    <3>1. l.queue = <<>> /\ l.merged = 0
      BY <2>2 DEF LaneFor
    <3>2. a = a \o <<>>
      BY <1>1, ConcatEmptySeq
    <3> HIDE DEF l, a
    <3> QED
      BY <1>1, <3>1, <3>2 DEF QueueFits
  <2> QED
    BY <2>1, <2>2
<1>4. QueueFits(p.queue, p.merged, p.interactive, Append(a, m)) /\ p \in LaneState
  BY <1>1, <1>3, PushedFits, PushedAppends
<1> HIDE DEF k, l, p, a
<1>5. ASSUME NEW l1, lanes' = WithLane(k, l1),
             QueueFits(l1.queue, l1.merged, l1.interactive, Append(a, m))
      PROVE  \A x \in Lane : LaneFits(x)'
  <2>1. LaneFits(k)'
    BY <1>2, <1>5 DEF LaneFits, WithLane
  <2>2. ASSUME NEW x \in Lane, x # k PROVE LaneFits(x)'
    BY <1>2, <1>5, <2>2, FitsElsewhere DEF FitInv, WithLane
  <2> QED
    BY <2>1, <2>2
<1>6. CASE Steer(m, k, l)
  <2> DEFINE s == [l EXCEPT !.inFlight = @ + 1]
  <2>1. s.queue = l.queue /\ s.merged = l.merged /\ s.interactive = l.interactive
    BY <1>1 DEF LaneState
  <2>2. lanes' = WithLane(k, s) /\ l.interactive
    BY <1>6 DEF Steer
  <2> HIDE DEF s
  <2>3. QueueFits(s.queue, s.merged, s.interactive, Append(a, m))
    BY <1>3, <2>1, <2>2 DEF QueueFits
  <2> QED
    BY <1>5, <2>2, <2>3
<1>7. CASE Queue(m, k, l) \/ WaitForSlot(m, k, l)
  BY <1>4, <1>5, <1>7 DEF Queue, WaitForSlot, p
<1>8. CASE StartNow(m, k, l)
  <2> DEFINE s == Started(p)
  <2>1. s.queue = p.queue /\ s.merged = p.merged /\ s.interactive = p.interactive
    BY <1>4 DEF Started, LaneState
  <2>2. lanes' = WithLane(k, s)
    BY <1>8 DEF StartNow, p
  <2> HIDE DEF s
  <2> QED
    BY <1>4, <1>5, <2>1, <2>2
<1> QED
  BY <1>6, <1>7, <1>8 DEF Dispatch, k, l

LEMMA FinishFits ==
    ASSUME FitInv, NEW t \in turns, Finish(t)
    PROVE  \A k \in Lane : LaneFits(k)'
<1> DEFINE k == t.lane
           l == lanes[k]
           ts == turns \ {t}
           a == accepted[k]
           Fit == \A x \in Lane : LaneFits(x)'
<1>1. k \in Lane /\ k \in DOMAIN lanes /\ accepted' = accepted /\ a \in Seq(Message)
  BY DEF FitInv, TurnInv, TypeInv, TypeOK, Turn, TurnsOf, LaneInv, LaneInvAt, Running, Finish
<1>2. /\ l \in LaneState /\ HeadFits(l)
      /\ QueueFits(l.queue, l.merged, l.interactive, a)
  BY <1>1 DEF FitInv, TurnInv, TypeInv, TypeOK, LaneFits
<1> HIDE DEF k, l, a
<1>3. ASSUME NEW l1, lanes' = WithLane(k, l1),
             QueueFits(l1.queue, l1.merged, l1.interactive, a)
      PROVE  Fit
  <2>1. LaneFits(k)'
    BY <1>1, <1>3 DEF LaneFits, WithLane, a
  <2>2. ASSUME NEW x \in Lane, x # k PROVE LaneFits(x)'
    BY <1>1, <1>3, <2>2, FitsElsewhere DEF FitInv, WithLane
  <2> QED
    BY <2>1, <2>2
<1>4. ASSUME NEW l1 \in LaneState, Chain(k, l1, ts),
             QueueFits(l1.queue, l1.merged, l1.interactive, a)
      PROVE  Fit
  <2> DEFINE s == [l1 EXCEPT !.inFlight = 1]
  <2>1. s.queue = l1.queue /\ s.merged = l1.merged /\ s.interactive = l1.interactive
    BY <1>4 DEF LaneState
  <2>2. lanes' = WithLane(k, s)
    BY <1>4 DEF Chain
  <2> HIDE DEF s
  <2> QED
    BY <1>3, <1>4, <2>1, <2>2
<1>5. ASSUME Release(k, ts) PROVE Fit
  <2>1. /\ DOMAIN lanes' = DOMAIN lanes \ {k}
        /\ \A x \in DOMAIN lanes' : /\ lanes'[x].queue = lanes[x].queue
                                    /\ lanes'[x].merged = lanes[x].merged
                                    /\ lanes'[x].interactive = lanes[x].interactive
    BY <1>5, ReleaseStarts DEF FitInv, TurnInv
  <2>2. ASSUME NEW x \in Lane PROVE LaneFits(x)'
    BY <1>1, <2>1, FitsElsewhere DEF FitInv
  <2> QED
    BY <2>2
<1>6. ASSUME FinishInteractive(t, l, ts) PROVE Fit
  <2> DEFINE left == [l EXCEPT !.inFlight = @ - 1]
             after == IF t.queued /\ l.queue # <<>> THEN Popped(left) ELSE left
  <2>1. /\ left \in LaneState /\ left.queue = l.queue
        /\ left.merged = l.merged /\ left.interactive = l.interactive
    BY <1>2 DEF LaneState
  <2>2. \/ lanes' = WithLane(k, after)
        \/ Chain(k, after, ts)
        \/ Release(k, ts)
    BY <1>6 DEF FinishInteractive, k
  <2> HIDE DEF left
  <2>3. HeadFits(left) /\ QueueFits(left.queue, left.merged, left.interactive, a)
    BY <1>2, <2>1 DEF HeadFits
  <2>4. after \in LaneState /\ QueueFits(after.queue, after.merged, after.interactive, a)
    BY <1>1, <2>1, <2>3, PoppedSplits, PoppedFits DEF a
  <2> HIDE DEF after
  <2> QED
    BY <1>3, <1>4, <1>5, <2>2, <2>4
<1>7. ASSUME FinishSerial(t, l, ts) PROVE Fit
  <2> DEFINE after == IF l.queue # <<>> THEN Popped(l) ELSE l
  <2>1. after \in LaneState /\ QueueFits(after.queue, after.merged, after.interactive, a)
    BY <1>1, <1>2, PoppedSplits, PoppedFits DEF a
  <2>2. after.interactive = l.interactive
    BY <1>2, PoppedSplits
  <2>3. /\ ~l.interactive
        /\ \/ \E n \in 1..Len(after.queue) :
                 /\ MergedHead(after.queue, n)
                 /\ Chain(k, [after EXCEPT !.merged = n], ts)
           \/ Release(k, ts)
    BY <1>7 DEF FinishSerial, k
  <2> HIDE DEF after
  <2>4. ASSUME NEW n \in 1..Len(after.queue), MergedHead(after.queue, n),
               Chain(k, [after EXCEPT !.merged = n], ts)
        PROVE  Fit
    <3> DEFINE an == [after EXCEPT !.merged = n]
    <3>1. /\ an \in LaneState /\ an.queue = after.queue /\ an.merged = n
          /\ an.interactive = after.interactive
      <4>1. n \in Nat
        BY <2>1 DEF LaneState
      <4> QED
        BY <2>1, <4>1 DEF LaneState
    <3> HIDE DEF an
    <3>2. Chain(k, an, ts)
      BY <2>4 DEF an
    <3>3. QueueFits(an.queue, an.merged, an.interactive, a)
      BY <2>1, <2>2, <2>3, <2>4, <3>1 DEF QueueFits, MergedHead
    <3> QED
      BY <1>4, <3>1, <3>2, <3>3
  <2> QED
    BY <1>5, <2>3, <2>4
<1> QED
  BY <1>1, <1>6, <1>7 DEF Finish, k, l

LEMMA InitFits == Init => FitInv
<1> SUFFICES ASSUME Init, NEW k \in Lane PROVE LaneFits(k)
  BY InitTurns DEF FitInv
<1> QED
  BY DEF Init, LaneFits

LEMMA NextFits == FitInv /\ [Next]_vars => FitInv'
<1> SUFFICES ASSUME FitInv, [Next]_vars PROVE \A k \in Lane : LaneFits(k)'
  BY NextTurns DEF FitInv
<1>1. ASSUME NEW m \in Message, Dispatch(m) PROVE \A k \in Lane : LaneFits(k)'
  BY <1>1, DispatchFits
<1>2. ASSUME NEW t \in turns, Finish(t) PROVE \A k \in Lane : LaneFits(k)'
  BY <1>2, FinishFits
<1>3. CASE UNCHANGED <<lanes, accepted>>
  BY <1>3 DEF FitInv, LaneFits
<1> QED
  BY <1>1, <1>2, <1>3
     DEF Next, TurnStep, Begin, ReloadLimit, SetInteractive, SetChannelBackend, vars

-----------------------------------------------------------------------------
(* What a turn carries.                                                     *)

RefInv == OrderInv /\ PlaceInv /\ FitInv

(* The head of a queue, as a segment of what was accepted.                  *)
LEMMA Segment ==
    ASSUME NEW b \in Seq(Message), NEW q \in Seq(Message), NEW n \in 1..Len(q)
    PROVE  LET a == b \o q
               i == Len(b) + 1
               j == Len(b) + n
           IN /\ i \in 1..Len(a) /\ j \in 1..Len(a) /\ i <= j
              /\ ElementsOf(SubSeq(q, 1, n)) = {a[x] : x \in i..j}
              /\ a[i] = q[1]
              /\ \A x \in 1..(i - 1) : a[x] \in ElementsOf(b)
<1> DEFINE a == b \o q
           i == Len(b) + 1
           j == Len(b) + n
<1>1. /\ Len(a) = Len(b) + Len(q) /\ Len(b) \in Nat /\ Len(q) \in Nat /\ n \in Nat
      /\ \A x \in 1..(Len(b) + Len(q)) :
            a[x] = IF x <= Len(b) THEN b[x] ELSE q[x - Len(b)]
  BY ConcatProperties, LenProperties
<1>2. i \in 1..Len(a) /\ j \in 1..Len(a) /\ i <= j
  BY <1>1
<1>3. /\ Len(SubSeq(q, 1, n)) = n
      /\ \A x \in 1..n : SubSeq(q, 1, n)[x] = q[x]
  <2>1. \A x \in 1..n : q[x] \in Message
    BY <1>1, ElementOfSeq
  <2> QED
    BY <1>1, <2>1, SubSeqProperties
<1> HIDE DEF a
<1>4. ASSUME NEW x \in i..j PROVE a[x] = q[x - Len(b)] /\ x - Len(b) \in 1..n
  <2>1. x \in 1..(Len(b) + Len(q)) /\ ~(x <= Len(b)) /\ x - Len(b) \in 1..n
    BY <1>1
  <2> QED
    BY <1>1, <2>1
<1>5. \A y \in 1..n : y + Len(b) \in i..j /\ (y + Len(b)) - Len(b) = y
  BY <1>1
<1>6. ElementsOf(SubSeq(q, 1, n)) = {q[y] : y \in 1..n}
  BY <1>3 DEF ElementsOf
<1>7. {q[y] : y \in 1..n} = {a[x] : x \in i..j}
  <2>1. ASSUME NEW y \in 1..n PROVE q[y] \in {a[x] : x \in i..j}
    <3>1. y + Len(b) \in i..j /\ (y + Len(b)) - Len(b) = y
      BY <1>5
    <3>2. a[y + Len(b)] = q[(y + Len(b)) - Len(b)]
      BY <1>4, <3>1
    <3> QED
      BY <3>1, <3>2
  <2>2. ASSUME NEW x \in i..j PROVE a[x] \in {q[y] : y \in 1..n}
    BY <1>4
  <2> HIDE DEF i, j
  <2> QED
    BY <2>1, <2>2
<1>8. a[i] = q[1]
  <2>1. i \in i..j /\ i - Len(b) = 1
    BY <1>1
  <2> QED
    BY <1>4, <2>1
<1>9. \A x \in 1..(i - 1) : a[x] \in ElementsOf(b)
  <2>1. \A x \in 1..(i - 1) : x \in 1..Len(b) /\ x \in 1..(Len(b) + Len(q)) /\ x <= Len(b)
    BY <1>1
  <2> QED
    BY <1>1, <2>1 DEF ElementsOf
<1> QED
  BY <1>2, <1>6, <1>7, <1>8, <1>9 DEF a

(* The messages of a turn lie next to each other in what its lane accepted, *)
(* and may share a prompt; in a serial lane all before them are answered.   *)
Batch(t, i, j) ==
    LET a == accepted[t.lane] IN
    /\ i <= j
    /\ ElementsOf(t.msgs) = {a[x] : x \in i..j}
    /\ \A m \in ElementsOf(t.msgs) : Promise!Compatible(a[i], m)
    /\ t.lane \in SerialLane => \A x \in 1..(i - 1) : a[x] \in ElementsOf(done[t.lane])

LEMMA SingleBatch ==
    ASSUME NEW t, NEW i \in 1..Len(accepted[t.lane]),
           ElementsOf(t.msgs) = {accepted[t.lane][i]}, t.lane \notin SerialLane
    PROVE  Batch(t, i, i)
<1>1. i \in Int /\ i..i = {i}
  OBVIOUS
<1> QED
  BY <1>1 DEF Batch, Promise!Compatible

LEMMA TurnIsBatch ==
    ASSUME RefInv, NEW t \in turns
    PROVE  \E i, j \in 1..Len(accepted[t.lane]) : Batch(t, i, j)
<1> DEFINE k == t.lane
           l == lanes[k]
           a == accepted[k]
           q == l.queue
<1>1. /\ k \in Lane /\ k \in Running /\ k \in DOMAIN lanes /\ t \in TurnsOf(k)
      /\ LaneTurnsOK(l, TurnsOf(k), a)
  BY DEF RefInv, PlaceInv, TurnInv, TypeInv, TypeOK, Turn, TurnsOf, LaneInv, LaneInvAt, Running
<1>2. /\ l \in LaneState /\ HeadFits(l) /\ QueueOf(k) = q
      /\ QueueFits(q, l.merged, l.interactive, a)
  BY <1>1 DEF RefInv, FitInv, TurnInv, TypeInv, TypeOK, LaneFits, QueueOf
<1>3. l.interactive => k \notin SerialLane
  BY <1>1 DEF RefInv, FitInv, TurnInv, ModeInv, SerialLane
<1>4. q \in Seq(Message) /\ Len(q) \in Nat /\ l.merged \in Nat /\ l.merged <= Len(q)
  BY <1>2 DEF LaneState, HeadFits
<1>5. KeptAt(k)
  BY <1>1 DEF RefInv, PlaceInv
<1>6. a \in Seq(Message) /\ done[k] \in Seq(Message)
  BY <1>1 DEF RefInv, FitInv, TurnInv, TypeInv, TypeOK
<1>7. CASE ~t.queued
  <2>1. PICK i \in 1..Len(a) : t.msgs = <<a[i]>>
    BY <1>1, <1>7 DEF LaneTurnsOK
  <2>2. k \notin SerialLane
    BY <1>1, <1>3, <1>7 DEF LaneTurnsOK
  <2> QED
    BY <2>1, <2>2, SingleElement, SingleBatch
<1>8. CASE t.queued
  <2>1. t.msgs = SubSeq(q, 1, l.merged) /\ l.merged \in 1..Len(q)
    BY <1>1, <1>2, <1>4, <1>8 DEF LaneTurnsOK, HeadOf, HeadFits
  <2>2. CASE l.interactive
    <3>1. l.merged = 1
      BY <1>2, <1>4, <2>1, <2>2 DEF QueueFits
    <3>2. ElementsOf(SubSeq(q, 1, 1)) = {q[1]}
      <4>1. 1..1 = {1} /\ 1 \in 1..Len(q) /\ q[1] \in Message
        BY <1>4, <2>1, <3>1, ElementOfSeq
      <4>2. Len(SubSeq(q, 1, 1)) = 1 /\ SubSeq(q, 1, 1)[1] = q[1]
        BY <1>4, <4>1
      <4> QED
        BY <4>1, <4>2 DEF ElementsOf
    <3>3. q[1] \in ElementsOf(a)
      BY <1>2, <1>5, <2>1, <3>1, Accounted DEF ElementsOf
    <3>4. PICK i \in 1..Len(a) : q[1] = a[i]
      BY <3>3 DEF ElementsOf
    <3> QED
      BY <1>3, <2>1, <2>2, <3>1, <3>2, <3>4, SingleBatch
  <2>3. CASE ~l.interactive
    <3>1. PICK b \in Seq(Message) : a = b \o q /\ (k \in SerialLane => b = done[k])
      <4>1. CASE k \in SerialLane
        BY <1>2, <1>6, <4>1 DEF RefInv, OrderInv, AnsweredInOrder
      <4>2. CASE k \notin SerialLane
        BY <1>2, <2>3, <4>2 DEF QueueFits
      <4> QED
        BY <4>1, <4>2
    <3> DEFINE i == Len(b) + 1
               j == Len(b) + l.merged
    <3> HIDE DEF q, a
    <3>2. /\ i \in 1..Len(a) /\ j \in 1..Len(a) /\ i <= j
          /\ ElementsOf(t.msgs) = {a[x] : x \in i..j}
          /\ a[i] = q[1]
          /\ \A x \in 1..(i - 1) : a[x] \in ElementsOf(b)
      <4> DEFINE n == l.merged
      <4>1. n \in 1..Len(q)
        BY <2>1
      <4>2. LET c == b \o q
            IN /\ Len(b) + 1 \in 1..Len(c) /\ Len(b) + n \in 1..Len(c)
               /\ Len(b) + 1 <= Len(b) + n
               /\ ElementsOf(SubSeq(q, 1, n)) = {c[x] : x \in (Len(b) + 1)..(Len(b) + n)}
               /\ c[Len(b) + 1] = q[1]
               /\ \A x \in 1..((Len(b) + 1) - 1) : c[x] \in ElementsOf(b)
        <5> HIDE DEF n
        <5> QED
          BY <1>4, <3>1, <4>1, Segment
      <4> QED
        BY <2>1, <3>1, <4>2
    <3>3. ASSUME NEW m \in ElementsOf(t.msgs) PROVE Promise!Compatible(q[1], m)
      <4>1. PICK x \in 1..l.merged : m = q[x]
        <5>1. ElementsOf(SubSeq(q, 1, l.merged)) = {q[x] : x \in 1..l.merged}
          BY <1>4, <2>1 DEF ElementsOf
        <5> QED
          BY <2>1, <3>3, <5>1
      <4>2. CASE x = 1
        BY <4>1, <4>2 DEF Promise!Compatible
      <4>3. CASE x # 1
        <5>1. x \in 2..l.merged
          BY <1>4, <4>3
        <5> QED
          BY <1>2, <4>1, <5>1 DEF QueueFits, Compatible, Promise!Compatible
      <4> QED
        BY <4>2, <4>3
    <3> HIDE DEF i, j
    <3>4. Batch(t, i, j)
      BY <3>1, <3>2, <3>3 DEF Batch, a
    <3> QED
      BY <3>2, <3>4 DEF a
  <2> QED
    BY <2>2, <2>3
<1> QED
  BY <1>7, <1>8

(* The messages of a turn are its lane's, and not answered yet.             *)
LEMMA TurnOwns ==
    ASSUME RefInv, NEW t \in turns
    PROVE  /\ t.lane \in Lane
           /\ \A m \in ElementsOf(t.msgs) :
                 /\ m \in Message /\ LaneOf[m] = t.lane
                 /\ m \in ElementsOf(accepted[t.lane])
                 /\ m \notin ElementsOf(done[t.lane])
<1> DEFINE k == t.lane
<1>1. /\ k \in Lane /\ k \in Running /\ k \in DOMAIN lanes /\ t \in TurnsOf(k)
      /\ LaneTurnsOK(lanes[k], TurnsOf(k), accepted[k])
      /\ lanes[k] \in LaneState /\ HeadFits(lanes[k]) /\ QueueOf(k) = lanes[k].queue
      /\ accepted[k] \in Seq(Message)
  BY DEF RefInv, PlaceInv, TurnInv, TypeInv, TypeOK, Turn, TurnsOf, LaneInv, LaneInvAt,
         Running, QueueOf
<1>2. KeptAt(k) /\ AcceptedAt(k) /\ Placed(done[k], QueueOf(k), SteeredOf(k))
  BY <1>1 DEF RefInv, PlaceInv, PlacedAt
<1>3. \A m \in ElementsOf(t.msgs) :
         m \in ElementsOf(accepted[k]) /\ m \notin ElementsOf(done[k])
  <2>1. CASE t.queued
    <3>1. t.msgs = HeadOf(lanes[k])
      BY <1>1, <2>1 DEF LaneTurnsOK
    <3>2. ElementsOf(t.msgs) \subseteq ElementsOf(QueueOf(k))
      <4>1. /\ HeadOf(lanes[k]) \in Seq(Message) /\ Popped(lanes[k]) \in LaneState
            /\ lanes[k].queue = HeadOf(lanes[k]) \o Popped(lanes[k]).queue
        BY <1>1, PoppedSplits
      <4>2. Popped(lanes[k]).queue \in Seq(Message)
        BY <4>1 DEF LaneState
      <4> QED
        BY <1>1, <3>1, <4>1, <4>2, ElementsConcat
    <3> QED
      BY <1>2, <3>2, Accounted DEF Placed
  <2>2. CASE ~t.queued
    <3>1. t \in SteeredOf(k)
      BY <1>1, <2>2 DEF SteeredOf
    <3> QED
      BY <1>2, <3>1, Accounted DEF Placed
  <2> QED
    BY <2>1, <2>2
<1>4. \A m \in ElementsOf(accepted[k]) : m \in Message /\ LaneOf[m] = k
  BY <1>1, <1>2, LenProperties DEF AcceptedAt, ElementsOf
<1> QED
  BY <1>1, <1>3, <1>4

LEMMA TurnsApart ==
    ASSUME RefInv, NEW t \in turns, NEW u \in turns, t # u,
           NEW m \in ElementsOf(t.msgs)
    PROVE  m \notin ElementsOf(u.msgs)
<1> SUFFICES ASSUME m \in ElementsOf(u.msgs) PROVE FALSE
  OBVIOUS
<1> DEFINE k == t.lane
<1>1. k \in Lane /\ u.lane = k
  BY TurnOwns
<1>2. /\ k \in Running /\ k \in DOMAIN lanes /\ t \in TurnsOf(k) /\ u \in TurnsOf(k)
      /\ LaneTurnsOK(lanes[k], TurnsOf(k), accepted[k])
      /\ lanes[k] \in LaneState /\ HeadFits(lanes[k]) /\ QueueOf(k) = lanes[k].queue
  BY <1>1 DEF RefInv, PlaceInv, TurnInv, TypeInv, TypeOK, Turn, TurnsOf, LaneInv, LaneInvAt,
         Running, QueueOf
<1>3. Placed(done[k], QueueOf(k), SteeredOf(k))
  BY <1>1 DEF RefInv, PlaceInv, PlacedAt
<1>4. ASSUME NEW v \in TurnsOf(k), v.queued
      PROVE  ElementsOf(v.msgs) \subseteq ElementsOf(QueueOf(k))
  <2>1. v.msgs = HeadOf(lanes[k])
    BY <1>2, <1>4 DEF LaneTurnsOK
  <2>2. /\ HeadOf(lanes[k]) \in Seq(Message) /\ Popped(lanes[k]) \in LaneState
        /\ lanes[k].queue = HeadOf(lanes[k]) \o Popped(lanes[k]).queue
    BY <1>2, PoppedSplits
  <2>3. Popped(lanes[k]).queue \in Seq(Message)
    BY <2>2 DEF LaneState
  <2> QED
    BY <1>2, <2>1, <2>2, <2>3, ElementsConcat
<1>5. ASSUME NEW v \in TurnsOf(k), ~v.queued
      PROVE  v \in SteeredOf(k) /\ \E x : v.msgs = <<x>>
  BY <1>2, <1>5 DEF SteeredOf, LaneTurnsOK
<1>6. ~t.queued /\ ~u.queued
  BY <1>2, <1>3, <1>4, <1>5 DEF Placed, LaneTurnsOK
<1>7. t.msgs # u.msgs
  BY <1>2, <1>6 DEF LaneTurnsOK
<1>8. PICK x, y : t.msgs = <<x>> /\ u.msgs = <<y>>
  BY <1>2, <1>5, <1>6
<1> QED
  BY <1>7, <1>8, SingleElement

-----------------------------------------------------------------------------
(* The steps of the dispatcher are steps of the promise.                    *)

Stat(m, a, d, ts) ==
    IF m \in ElementsOf(d[LaneOf[m]]) THEN "done"
    ELSE IF \E t \in ts : t.pc = "working" /\ m \in ElementsOf(t.msgs) THEN "running"
    ELSE IF m \in ElementsOf(a[LaneOf[m]]) THEN "waiting"
    ELSE "new"

LEMMA InitPromise == Init => Promise!Init
BY LaneAssumption DEF Init, Promise!Init, StatusOf, ElementsOf

LEMMA DispatchPromise ==
    ASSUME RefInv, NEW m \in Message, Dispatch(m)
    PROVE  Promise!Accept(m)
<1> DEFINE k == LaneOf[m]
<1>1. k \in Lane /\ accepted[k] \in Seq(Message) /\ KeptAt(k)
  BY LaneAssumption DEF RefInv, PlaceInv, TurnInv, TypeInv, TypeOK
<1>2. /\ m \notin ElementsOf(accepted[k]) /\ done' = done
      /\ accepted' = [accepted EXCEPT ![k] = Append(@, m)]
  BY DEF Dispatch
<1>3. m \notin ElementsOf(done[k])
  BY <1>1, <1>2, Accounted
<1>4. \A t \in turns : m \notin ElementsOf(t.msgs)
  BY <1>2, TurnOwns
<1>5. \A t : t.pc = "working" => (t \in turns' <=> t \in turns)
  BY DEF Dispatch, Steer, Queue, StartNow, WaitForSlot, NewTurn
<1>6. ElementsOf(accepted'[k]) = ElementsOf(accepted[k]) \cup {m}
  <2>1. accepted'[k] = Append(accepted[k], m)
    BY <1>1, <1>2 DEF RefInv, FitInv, TurnInv, TypeInv, TypeOK
  <2> QED
    BY <1>1, <2>1, ElementsAppend
<1>7. \A x \in Lane : x # k => accepted'[x] = accepted[x]
  BY <1>1, <1>2 DEF RefInv, FitInv, TurnInv, TypeInv, TypeOK
<1>8. Stat(m, accepted, done, turns) = "new"
  BY <1>2, <1>3, <1>4 DEF Stat
<1>9. Stat(m, accepted', done', turns') = "waiting"
  BY <1>2, <1>3, <1>4, <1>5, <1>6 DEF Stat
<1>10. ASSUME NEW x \in Message, x # m
       PROVE  Stat(x, accepted', done', turns') = Stat(x, accepted, done, turns)
  <2>1. x \in ElementsOf(accepted'[LaneOf[x]]) <=> x \in ElementsOf(accepted[LaneOf[x]])
    BY <1>6, <1>7, <1>10, LaneAssumption
  <2>2. (\E t \in turns' : t.pc = "working" /\ x \in ElementsOf(t.msgs))
           <=> (\E t \in turns : t.pc = "working" /\ x \in ElementsOf(t.msgs))
    BY <1>5
  <2> QED
    BY <1>2, <2>1, <2>2 DEF Stat
<1>11. [x \in Message |-> StatusOf(x)][m] = "new"
  BY <1>8 DEF StatusOf, Stat
<1>12. [x \in Message |-> Stat(x, accepted', done', turns')]
         = [[x \in Message |-> Stat(x, accepted, done, turns)] EXCEPT ![m] = "waiting"]
  BY <1>9, <1>10
<1>13. [x \in Message |-> StatusOf(x)]'
         = [[x \in Message |-> StatusOf(x)] EXCEPT ![m] = "waiting"]
  BY <1>12 DEF StatusOf, Stat
<1> QED
  BY <1>2, <1>11, <1>13 DEF Promise!Accept

LEMMA BeginPromise ==
    ASSUME RefInv, NEW t \in turns, Begin(t)
    PROVE  \E i, j \in 1..Len(accepted[t.lane]) : Promise!Start(t.lane, i, j)
<1> DEFINE k == t.lane
           n == [t EXCEPT !.pc = "working", !.client = ClientFor(t.lane)]
           B == ElementsOf(t.msgs)
<1>1. t \in Turn /\ t.pc = "spawned" /\ accepted[k] \in Seq(Message)
  BY TurnOwns DEF RefInv, FitInv, TurnInv, TypeInv, TypeOK, Begin
<1>2. n.msgs = t.msgs /\ n.pc = "working"
  BY <1>1 DEF Turn
<1>3. turns' = (turns \ {t}) \cup {n} /\ accepted' = accepted /\ done' = done
  BY DEF Begin
<1> HIDE DEF n
<1>4. PICK i, j \in 1..Len(accepted[k]) : Batch(t, i, j)
  BY TurnIsBatch
<1>5. \A m \in B : /\ m \in Message /\ LaneOf[m] = k /\ m \in ElementsOf(accepted[k])
                   /\ m \notin ElementsOf(done[k])
  BY TurnOwns
<1>6. ASSUME NEW m \in B PROVE Stat(m, accepted, done, turns) = "waiting"
  <2>1. \A u \in turns : u.pc = "working" => m \notin ElementsOf(u.msgs)
    BY <1>1, <1>6, TurnsApart
  <2> QED
    BY <1>5, <2>1 DEF Stat
<1>7. ASSUME NEW m \in Message
      PROVE  Stat(m, accepted', done', turns')
                = IF m \in B THEN "running" ELSE Stat(m, accepted, done, turns)
  <2>1. CASE m \in B
    <3>1. m \notin ElementsOf(done'[LaneOf[m]])
      BY <1>3, <1>5, <2>1
    <3>2. n \in turns' /\ n.pc = "working" /\ m \in ElementsOf(n.msgs)
      BY <1>2, <1>3, <2>1
    <3> QED
      BY <2>1, <3>1, <3>2 DEF Stat
  <2>2. CASE m \notin B
    <3>1. (\E u \in turns' : u.pc = "working" /\ m \in ElementsOf(u.msgs))
             <=> (\E u \in turns : u.pc = "working" /\ m \in ElementsOf(u.msgs))
      BY <1>1, <1>2, <1>3, <2>2
    <3> QED
      BY <1>3, <2>2, <3>1 DEF Stat
  <2> QED
    BY <2>1, <2>2
<1>8. /\ i <= j /\ B = {accepted[k][x] : x \in i..j}
      /\ \A m \in B : Promise!Compatible(accepted[k][i], m)
      /\ k \in SerialLane => \A x \in 1..(i - 1) : accepted[k][x] \in ElementsOf(done[k])
  BY <1>4 DEF Batch
<1>9. \A m \in B : [x \in Message |-> StatusOf(x)][m] = "waiting"
  BY <1>5, <1>6 DEF StatusOf, Stat
<1>10. ASSUME k \in SerialLane, NEW x \in 1..(i - 1)
       PROVE  [y \in Message |-> StatusOf(y)][accepted[k][x]] = "done"
  <2>1. x \in 1..Len(accepted[k]) /\ k \in Lane
    BY <1>1, <1>4, <1>10, LenProperties DEF SerialLane
  <2>2. accepted[k][x] \in ElementsOf(accepted[k]) /\ accepted[k][x] \in Message
    BY <1>1, <2>1, ElementOfSeq DEF ElementsOf
  <2>3. LaneOf[accepted[k][x]] = k
    BY <2>1, <2>2 DEF RefInv, PlaceInv, PlacedAt, AcceptedAt
  <2>4. StatusOf(accepted[k][x]) = "done"
    BY <1>8, <1>10, <2>3 DEF StatusOf
  <2> QED
    BY <2>2, <2>4
<1>11. [m \in Message |-> Stat(m, accepted', done', turns')]
          = [m \in Message |-> IF m \in B THEN "running"
                                          ELSE Stat(m, accepted, done, turns)]
  BY <1>7
<1>12. [m \in Message |-> StatusOf(m)]'
          = [m \in Message |-> IF m \in B THEN "running"
                               ELSE [x \in Message |-> StatusOf(x)][m]]
  BY <1>11 DEF StatusOf, Stat
<1>13. 1 <= i /\ j <= Len(accepted[k])
  BY <1>4
<1> HIDE DEF B
<1>14. Promise!Start(k, i, j)
  BY <1>3, <1>8, <1>9, <1>10, <1>12, <1>13 DEF Promise!Start
<1> QED
  BY <1>4, <1>14

(* The turns that the end of a turn spawns are not working yet.             *)
LEMMA FinishWorking ==
    ASSUME TypeInv, NEW t \in turns, Finish(t)
    PROVE  \A u : u.pc = "working" => (u \in turns' <=> u \in turns \ {t})
<1> DEFINE ts == turns \ {t}
           Same == \A u : u.pc = "working" => (u \in turns' <=> u \in ts)
<1>1. ASSUME turns' = ts PROVE Same
  BY <1>1
<1>2. ASSUME NEW k, NEW l, Chain(k, l, ts) PROVE Same
  BY <1>2 DEF Chain, NewTurn
<1>3. ASSUME Release(t.lane, ts) PROVE Same
  <2> DEFINE lns == [x \in DOMAIN lanes \ {t.lane} |-> lanes[x]]
  <2>1. readyLanes \in Seq(Lane) /\ maxWorkers \in Nat /\ runningLanes - 1 \in Int
    BY LimitAssumption DEF TypeInv, TypeOK
  <2>2. ScheduleLocked(lns, runningLanes - 1, ts)
    BY <1>3 DEF Release
  <2> HIDE DEF lns
  <2>3. PICK started \in SUBSET (DOMAIN lns) : Starts(lns, runningLanes - 1, ts, started)
    BY <2>1, <2>2, ScheduleEffect
  <2>4. turns' = ts \cup {NewTurn(k, HeadOf(lns[k]), TRUE) : k \in started}
    BY <2>3 DEF Starts
  <2>5. \A u \in {NewTurn(k, HeadOf(lns[k]), TRUE) : k \in started} : u.pc = "spawned"
    BY DEF NewTurn
  <2> QED
    BY <2>4, <2>5
<1>4. turns' = ts \/ (\E k, l : Chain(k, l, ts)) \/ Release(t.lane, ts)
  <2>1. CASE t.lane \in DOMAIN lanes /\ FinishInteractive(t, lanes[t.lane], ts)
    BY <2>1 DEF FinishInteractive
  <2>2. CASE t.lane \in DOMAIN lanes /\ FinishSerial(t, lanes[t.lane], ts)
    BY <2>2 DEF FinishSerial
  <2> QED
    BY <2>1, <2>2 DEF Finish
<1> QED
  BY <1>1, <1>2, <1>3, <1>4

LEMMA FinishPromise ==
    ASSUME RefInv, NEW t \in turns, Finish(t)
    PROVE  \E i, j \in 1..Len(accepted[t.lane]) : Promise!Complete(t.lane, i, j)
<1> DEFINE k == t.lane
           B == ElementsOf(t.msgs)
<1>1. /\ t.pc = "working" /\ accepted[k] \in Seq(Message) /\ k \in Lane
      /\ t.msgs \in Seq(Message) /\ done[k] \in Seq(Message)
  BY TurnOwns DEF RefInv, FitInv, TurnInv, TypeInv, TypeOK, Turn, Finish
<1>2. /\ accepted' = accepted /\ done'[k] = done[k] \o t.msgs
      /\ \A x \in Lane : x # k => done'[x] = done[x]
  BY <1>1 DEF Finish, RefInv, FitInv, TurnInv, TypeInv, TypeOK
<1>3. \A u : u.pc = "working" => (u \in turns' <=> u \in turns \ {t})
  BY FinishWorking DEF RefInv, FitInv, TurnInv
<1>4. PICK i, j \in 1..Len(accepted[k]) : Batch(t, i, j)
  BY TurnIsBatch
<1>5. \A m \in B : /\ m \in Message /\ LaneOf[m] = k /\ m \in ElementsOf(accepted[k])
                   /\ m \notin ElementsOf(done[k])
  BY TurnOwns
<1>6. ElementsOf(done'[k]) = ElementsOf(done[k]) \cup B
  BY <1>1, <1>2, ElementsConcat
<1>7. ASSUME NEW m \in B PROVE Stat(m, accepted, done, turns) = "running"
  BY <1>1, <1>5, <1>7 DEF Stat
<1>8. ASSUME NEW m \in Message
      PROVE  Stat(m, accepted', done', turns')
                = IF m \in B THEN "done" ELSE Stat(m, accepted, done, turns)
  <2>1. CASE m \in B
    BY <1>5, <1>6, <2>1 DEF Stat
  <2>2. CASE m \notin B
    <3>1. (\E u \in turns' : u.pc = "working" /\ m \in ElementsOf(u.msgs))
             <=> (\E u \in turns : u.pc = "working" /\ m \in ElementsOf(u.msgs))
      BY <1>3, <2>2
    <3>2. m \in ElementsOf(done'[LaneOf[m]]) <=> m \in ElementsOf(done[LaneOf[m]])
      BY <1>2, <1>6, <2>2, LaneAssumption
    <3> QED
      BY <1>2, <2>2, <3>1, <3>2 DEF Stat
  <2> QED
    BY <2>1, <2>2
<1>9. /\ i <= j /\ B = {accepted[k][x] : x \in i..j}
  BY <1>4 DEF Batch
<1>10. \A m \in B : [x \in Message |-> StatusOf(x)][m] = "running"
  BY <1>5, <1>7 DEF StatusOf, Stat
<1>11. ASSUME k \in SerialLane, NEW x \in 1..Len(accepted[k]),
              [y \in Message |-> StatusOf(y)][accepted[k][x]] = "running"
       PROVE  x \in i..j
  <2> DEFINE m == accepted[k][x]
  <2>1. m \in ElementsOf(accepted[k]) /\ m \in Message
    BY <1>1, ElementOfSeq DEF ElementsOf
  <2>2. AcceptedAt(k)
    BY <1>1 DEF RefInv, PlaceInv, PlacedAt
  <2>3. LaneOf[m] = k
    BY <2>1, <2>2 DEF AcceptedAt
  <2>4. StatusOf(m) = "running"
    BY <1>11, <2>1
  <2>5. PICK u \in turns : u.pc = "working" /\ m \in ElementsOf(u.msgs)
    BY <2>4 DEF StatusOf
  <2>6. u.lane = k
    BY <2>3, <2>5, TurnOwns
  <2>7. u = t
    <3>1. /\ k \in Running /\ u \in TurnsOf(k) /\ t \in TurnsOf(k)
          /\ LaneTurnsOK(lanes[k], TurnsOf(k), accepted[k])
      BY <1>1, <2>6 DEF RefInv, PlaceInv, TurnInv, TurnsOf, LaneInv, LaneInvAt
    <3>2. ~lanes[k].interactive
      BY <1>11, <3>1 DEF RefInv, FitInv, TurnInv, ModeInv, Running, SerialLane
    <3> QED
      BY <3>1, <3>2 DEF LaneTurnsOK
  <2>8. PICK y \in i..j : accepted[k][x] = accepted[k][y]
    BY <1>9, <2>5, <2>7
  <2>9. y \in 1..Len(accepted[k])
    BY <1>1, <1>4, LenProperties
  <2> QED
    BY <2>2, <2>8, <2>9 DEF AcceptedAt, Unique
<1>12. [m \in Message |-> Stat(m, accepted', done', turns')]
          = [m \in Message |-> IF m \in B THEN "done"
                                          ELSE Stat(m, accepted, done, turns)]
  BY <1>8
<1>13. [m \in Message |-> StatusOf(m)]'
          = [m \in Message |-> IF m \in B THEN "done"
                               ELSE [x \in Message |-> StatusOf(x)][m]]
  BY <1>12 DEF StatusOf, Stat
<1>14. 1 <= i /\ j <= Len(accepted[k])
  BY <1>4
<1> HIDE DEF B
<1>15. Promise!Complete(k, i, j)
  BY <1>2, <1>9, <1>10, <1>11, <1>13, <1>14 DEF Promise!Complete
<1> QED
  BY <1>4, <1>15

LEMMA InitRef == Init => RefInv
BY InitOrder, InitPlaces, InitFits DEF RefInv

LEMMA NextRef == RefInv /\ [Next]_vars => RefInv'
BY NextOrder, NextPlaces, NextFits DEF RefInv

(* Every step of the dispatcher is one of the promise: a message is taken   *)
(* in, a turn with the oldest waiting messages starts, a turn is done, or   *)
(* nothing that the conversation sees happens.                              *)
LEMMA StepKeepsPromise == RefInv /\ [Next]_vars => [Promise!Next]_(Promise!vars)
<1> SUFFICES ASSUME RefInv, [Next]_vars PROVE [Promise!Next]_(Promise!vars)
  OBVIOUS
<1>1. ASSUME NEW m \in Message, Dispatch(m) PROVE Promise!Next
  BY <1>1, DispatchPromise DEF Promise!Next
<1>2. ASSUME NEW t \in turns, Begin(t) PROVE Promise!Next
  BY <1>2, BeginPromise, TurnOwns DEF Promise!Next
<1>3. ASSUME NEW t \in turns, Finish(t) PROVE Promise!Next
  BY <1>3, FinishPromise, TurnOwns DEF Promise!Next
<1>4. CASE UNCHANGED <<turns, accepted, done>>
  BY <1>4 DEF Promise!vars, StatusOf
<1> QED
  BY <1>1, <1>2, <1>3, <1>4
     DEF Next, TurnStep, ReloadLimit, SetInteractive, SetChannelBackend, vars

(* Each lane keeps what ConversationTurns promises to its conversation, for *)
(* every set of lanes, messages and limits (bot.go:92-97, 568-577).         *)
THEOREM PromiseKept == Spec => KeepsPromise
BY InitRef, NextRef, InitPromise, StepKeepsPromise, PTL DEF Spec, KeepsPromise, Promise!Spec

-----------------------------------------------------------------------------
(* Idle lanes.                                                              *)

IdleInv == TurnInv /\ IdleLanesWait

LEMMA IdleUnchanged ==
    ASSUME IdleLanesWait, readyLanes' = readyLanes,
           DOMAIN lanes' \ Running' = DOMAIN lanes \ Running,
           \A k \in DOMAIN lanes \ Running : lanes'[k].queue # <<>>
    PROVE  IdleLanesWait'
BY DEF IdleLanesWait, ElementsOf

LEMMA DispatchIdle ==
    ASSUME IdleInv, NEW m \in Message, Dispatch(m)
    PROVE  IdleLanesWait'
<1> DEFINE k == LaneOf[m]
           l == LaneFor(k)
           p == Pushed(l, m)
<1>1. k \in Lane /\ l \in LaneState /\ HeadFits(l)
  BY LaneAssumption, LaneForType DEF IdleInv, TurnInv
<1>2. /\ p \in LaneState /\ p.running = l.running /\ p.queue # <<>>
  BY <1>1, PushedAppends, AppendProperties DEF LaneState
<1>3. l.running <=> k \in Running
  BY DEF LaneFor, Running
<1>4. Waits(k) <=> k \in DOMAIN lanes \ Running
  BY DEF IdleInv, IdleLanesWait, Waits
<1> HIDE DEF k, l, p
<1>5. CASE Steer(m, k, l)
  <2> DEFINE s == [l EXCEPT !.inFlight = @ + 1]
  <2>1. s.running = l.running
    BY <1>1 DEF LaneState
  <2>2. lanes' = WithLane(k, s) /\ l.running /\ readyLanes' = readyLanes
    BY <1>5 DEF Steer
  <2> HIDE DEF s
  <2>3. /\ DOMAIN lanes' \ Running' = DOMAIN lanes \ Running
        /\ \A x \in DOMAIN lanes \ Running : lanes'[x] = lanes[x]
    BY <1>3, <2>1, <2>2 DEF WithLane, Running
  <2> QED
    BY <2>2, <2>3, IdleUnchanged DEF IdleInv, IdleLanesWait
<1>6. CASE Queue(m, k, l)
  <2>1. lanes' = WithLane(k, p) /\ readyLanes' = readyLanes /\ (l.running \/ Waits(k))
    BY <1>6 DEF Queue, p
  <2>2. /\ DOMAIN lanes' \ Running' = DOMAIN lanes \ Running
        /\ \A x \in DOMAIN lanes \ Running : lanes'[x].queue = lanes[x].queue \/ x = k
    BY <1>2, <1>3, <1>4, <2>1 DEF WithLane, Running
  <2>3. \A x \in DOMAIN lanes \ Running : lanes'[x].queue # <<>>
    BY <1>2, <2>1, <2>2 DEF IdleInv, IdleLanesWait, WithLane
  <2> QED
    BY <2>1, <2>2, <2>3, IdleUnchanged DEF IdleInv
<1>7. CASE StartNow(m, k, l)
  <2> DEFINE s == Started(p)
  <2>1. s.running = TRUE
    BY <1>2 DEF Started, LaneState
  <2>2. /\ lanes' = WithLane(k, s) /\ readyLanes' = readyLanes
        /\ ~l.running /\ ~Waits(k)
    BY <1>7 DEF StartNow, p
  <2> HIDE DEF s
  <2>3. /\ DOMAIN lanes' \ Running' = DOMAIN lanes \ Running
        /\ \A x \in DOMAIN lanes \ Running : lanes'[x] = lanes[x]
    BY <1>3, <1>4, <2>1, <2>2 DEF WithLane, Running
  <2> QED
    BY <2>2, <2>3, IdleUnchanged DEF IdleInv, IdleLanesWait
<1>8. CASE WaitForSlot(m, k, l)
  <2>1. /\ lanes' = WithLane(k, p) /\ readyLanes' = Append(readyLanes, k)
        /\ ~l.running /\ ~Waits(k)
    BY <1>8 DEF WaitForSlot, p
  <2>2. /\ Len(Append(readyLanes, k)) = Len(readyLanes) + 1
        /\ Append(readyLanes, k)[Len(readyLanes) + 1] = k
        /\ \A i \in 1..Len(readyLanes) : Append(readyLanes, k)[i] = readyLanes[i]
        /\ Len(readyLanes) \in Nat
    BY <1>1, AppendProperties, LenProperties DEF IdleInv, TurnInv, TypeInv, TypeOK
  <2>3. 1..(Len(readyLanes) + 1) = (1..Len(readyLanes)) \cup {Len(readyLanes) + 1}
    BY <2>2
  <2>4. \A i \in 1..Len(readyLanes) : readyLanes[i] # k
    BY <2>1 DEF Waits, ElementsOf
  <2>5. \A i, j \in 1..Len(readyLanes') : i # j => readyLanes'[i] # readyLanes'[j]
    BY <2>1, <2>2, <2>3, <2>4 DEF IdleInv, IdleLanesWait
  <2>6. ElementsOf(readyLanes') = ElementsOf(readyLanes) \cup {k}
    BY <2>1, <2>2, <2>3 DEF ElementsOf
  <2>7. /\ DOMAIN lanes' \ Running' = (DOMAIN lanes \ Running) \cup {k}
        /\ \A x \in DOMAIN lanes \ Running : lanes'[x] = lanes[x] \/ x = k
        /\ lanes'[k] = p
    BY <1>2, <1>3, <2>1 DEF WithLane, Running
  <2>8. ElementsOf(readyLanes') = DOMAIN lanes' \ Running'
    BY <2>6, <2>7 DEF IdleInv, IdleLanesWait
  <2>9. \A x \in DOMAIN lanes' \ Running' : lanes'[x].queue # <<>>
    BY <1>2, <2>7 DEF IdleInv, IdleLanesWait
  <2> QED
    BY <2>5, <2>8, <2>9 DEF IdleLanesWait
<1> QED
  BY <1>5, <1>6, <1>7, <1>8 DEF Dispatch, k, l

LEMMA ReleaseIdle ==
    ASSUME IdleInv, NEW k \in Running, NEW ts, Release(k, ts)
    PROVE  IdleLanesWait'
<1> DEFINE lns == [x \in DOMAIN lanes \ {k} |-> lanes[x]]
<1>1. PICK n \in 0..Len(readyLanes) :
         /\ readyLanes' = SubSeq(readyLanes, n + 1, Len(readyLanes))
         /\ lanes' = [x \in DOMAIN lns |->
                        IF x \in Promoted(lns, n) THEN Started(lns[x]) ELSE lns[x]]
  BY DEF Release, ScheduleLocked
<1> DEFINE first == {readyLanes[i] : i \in 1..n}
<1>2. readyLanes \in Seq(Lane) /\ Len(readyLanes) \in Nat /\ n \in Nat
  BY LenProperties DEF IdleInv, TurnInv, TypeInv, TypeOK
<1>3. /\ \A i, j \in 1..Len(readyLanes) : i # j => readyLanes[i] # readyLanes[j]
      /\ ElementsOf(readyLanes) = DOMAIN lanes \ Running
      /\ \A x \in DOMAIN lanes \ Running : lanes[x].queue # <<>>
  BY DEF IdleInv, IdleLanesWait
<1>4. Promoted(lns, n) = first
  <2>1. ASSUME NEW i \in 1..n
        PROVE  readyLanes[i] \in DOMAIN lanes \ Running
    <3>1. i \in 1..Len(readyLanes)
      BY <1>2
    <3> QED
      BY <1>3, <3>1 DEF ElementsOf
  <2>2. \A x \in DOMAIN lanes \ Running :
           x \in DOMAIN lns /\ ~lns[x].running /\ lns[x].queue # <<>>
    BY <1>3 DEF Running
  <2> HIDE DEF lns
  <2> QED
    BY <2>1, <2>2 DEF Promoted
<1>5. /\ DOMAIN lns = DOMAIN lanes \ {k}
      /\ \A x \in DOMAIN lns : lns[x] = lanes[x] /\ lns[x] \in LaneState
  BY DEF IdleInv, TurnInv, TypeInv, TypeOK
<1> HIDE DEF lns
<1>6. \A x \in DOMAIN lns :
         Started(lns[x]).running = TRUE /\ Started(lns[x]).queue = lns[x].queue
  BY <1>5 DEF Started, LaneState
<1>7. /\ Len(readyLanes') = Len(readyLanes) - n
      /\ \A i \in 1..(Len(readyLanes) - n) :
            /\ readyLanes'[i] = readyLanes[i + n]
            /\ i + n \in 1..Len(readyLanes)
  <2>1. \A i \in (n + 1)..Len(readyLanes) : readyLanes[i] \in Lane
    BY <1>2, ElementOfSeq
  <2>2. /\ Len(SubSeq(readyLanes, n + 1, Len(readyLanes)))
              = (IF n + 1 <= Len(readyLanes) THEN Len(readyLanes) - (n + 1) + 1 ELSE 0)
        /\ \A i \in 1..(Len(readyLanes) - (n + 1) + 1) :
              SubSeq(readyLanes, n + 1, Len(readyLanes))[i] = readyLanes[(n + 1) + i - 1]
    BY <1>2, <2>1, SubSeqProperties
  <2>3. \A i \in 1..(Len(readyLanes) - n) :
           /\ i \in 1..(Len(readyLanes) - (n + 1) + 1) /\ (n + 1) + i - 1 = i + n
           /\ i + n \in 1..Len(readyLanes)
    BY <1>2
  <2>4. Len(readyLanes') = Len(readyLanes) - n
    BY <1>1, <1>2, <2>2
  <2> QED
    BY <1>1, <2>2, <2>3, <2>4
<1>8. \A i, j \in 1..Len(readyLanes') : i # j => readyLanes'[i] # readyLanes'[j]
  <2> SUFFICES ASSUME NEW i \in 1..Len(readyLanes'), NEW j \in 1..Len(readyLanes'), i # j
               PROVE  readyLanes'[i] # readyLanes'[j]
    OBVIOUS
  <2>1. i + n # j + n
    BY <1>2, <1>7
  <2> QED
    BY <1>3, <1>7, <2>1
<1>9. ElementsOf(readyLanes') = ElementsOf(readyLanes) \ first
  <2>1. ASSUME NEW i \in 1..Len(readyLanes')
        PROVE  readyLanes'[i] \in ElementsOf(readyLanes) \ first
    <3>1. \A j \in 1..n : j \in 1..Len(readyLanes) /\ j # i + n
      BY <1>2, <1>7
    <3> QED
      BY <1>3, <1>7, <3>1 DEF ElementsOf
  <2>2. ASSUME NEW i \in 1..Len(readyLanes), readyLanes[i] \notin first
        PROVE  readyLanes[i] \in ElementsOf(readyLanes')
    <3>1. i \notin 1..n
      BY <2>2
    <3>2. i - n \in 1..(Len(readyLanes) - n) /\ (i - n) + n = i
      BY <1>2, <3>1
    <3>3. readyLanes'[i - n] = readyLanes[(i - n) + n]
      BY <1>7, <3>2
    <3> QED
      BY <1>7, <3>2, <3>3 DEF ElementsOf
  <2> HIDE DEF first
  <2> QED
    BY <2>1, <2>2 DEF ElementsOf
<1> HIDE DEF first
<1>10. /\ DOMAIN lanes' \ Running' = (DOMAIN lanes \ Running) \ first
       /\ \A x \in DOMAIN lanes' \ Running' : lanes'[x].queue = lanes[x].queue
  BY <1>1, <1>4, <1>5, <1>6 DEF Running
<1> QED
  BY <1>3, <1>8, <1>9, <1>10 DEF IdleLanesWait

LEMMA FinishIdle ==
    ASSUME IdleInv, NEW t \in turns, Finish(t)
    PROVE  IdleLanesWait'
<1>1. t.lane \in Running
  BY FinishSlots DEF IdleInv
<1>2. CASE Release(t.lane, turns \ {t})
  BY <1>1, <1>2, ReleaseIdle
<1>3. CASE DOMAIN lanes' = DOMAIN lanes /\ Running' = Running /\ readyLanes' = readyLanes
  <2>1. \A x \in DOMAIN lanes \ Running : QueueOf(x)' = QueueOf(x)
    BY <1>1, FinishQueue DEF IdleInv, TurnInv, TypeInv, TypeOK
  <2>2. \A x \in DOMAIN lanes \ Running : lanes'[x].queue = lanes[x].queue
    BY <1>3, <2>1 DEF QueueOf
  <2> QED
    BY <1>3, <2>2, IdleUnchanged DEF IdleInv, IdleLanesWait
<1>4. \/ Release(t.lane, turns \ {t})
      \/ DOMAIN lanes' = DOMAIN lanes /\ Running' = Running /\ readyLanes' = readyLanes
  <2>1. readyLanes' = readyLanes \/ Release(t.lane, turns \ {t})
    BY DEF Finish, FinishInteractive, FinishSerial, Chain
  <2> QED
    BY <2>1, FinishSlots DEF IdleInv
<1> QED
  BY <1>2, <1>3, <1>4

(* A lane that is idle but not dropped has work and is in the waiting list  *)
(* exactly once, where scheduleLocked finds it (bot.go:578-676).            *)
THEOREM IdleLanes == Spec => []IdleLanesWait
<1>1. Init => IdleLanesWait
  BY DEF Init, IdleLanesWait, ElementsOf, Running
<1>2. TurnInv /\ IdleLanesWait /\ [Next]_vars => IdleLanesWait'
  <2> SUFFICES ASSUME IdleInv, [Next]_vars PROVE IdleLanesWait'
    BY DEF IdleInv
  <2>1. ASSUME NEW m \in Message, Dispatch(m) PROVE IdleLanesWait'
    BY <2>1, DispatchIdle
  <2>2. ASSUME NEW t \in turns, Finish(t) PROVE IdleLanesWait'
    BY <2>2, FinishIdle
  <2>3. CASE UNCHANGED <<lanes, readyLanes>>
    <3>1. Running' = Running
      BY <2>3 DEF Running
    <3> QED
      BY <2>3, <3>1, IdleUnchanged DEF IdleInv, IdleLanesWait
  <2> QED
    BY <2>1, <2>2, <2>3
       DEF Next, TurnStep, Begin, ReloadLimit, SetInteractive, SetChannelBackend, vars
<1> QED
  BY <1>1, <1>2, InitTurns, NextTurns, PTL DEF Spec
=============================================================================
