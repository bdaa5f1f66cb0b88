---------------------- MODULE ConversationStoreProofs ----------------------
(***************************************************************************)
(* Theorems about the store of conversations, for any turns, edits and     *)
(* compactions, failing saves and restarts included.                       *)
(***************************************************************************)
EXTENDS ConversationStore, SequenceTheorems, FiniteSetTheorems, WellFoundedInduction, TLAPS

-----------------------------------------------------------------------------
(* Histories and summaries.                                                 *)

(* A history is in the order of its turns.                                  *)
Ascending(h) == \A i, j \in DOMAIN h : i < j => h[i].turn < h[j].turn

(* Every turn of h that s claims to cover is in s.                          *)
Cover(s, h) == \A u \in TurnsIn(h) : u <= s.upTo => u \in s.turns

(* n is earlier than every turn in U.                                       *)
Early(U, n) == \A v \in U : n < v

LEMMA LeastNumber ==
  ASSUME NEW T \in SUBSET Nat, T # {}
  PROVE  \E n \in T : \A m \in T : n <= m
<1>1. PICK n \in T : \A m \in T : ~ (<<m, n>> \in OpToRel(<, Nat))
  BY NatLessThanWellFounded, WFMin
<1>2. ASSUME NEW m \in T PROVE n <= m
  <2>1. <<m, n>> \notin OpToRel(<, Nat)
    BY <1>1
  <2>2. ~ (m < n)
    BY <2>1 DEF OpToRel
  <2>. QED
    BY <2>2
<1>. QED
  BY <1>2

LEMMA LatestIsLast ==
  ASSUME NEW n \in Nat, NEW S \in SUBSET (0..n), S # {}
  PROVE  Latest(S) \in S /\ \A x \in S : x <= Latest(S)
<1>. DEFINE T == {n - x : x \in S}
<1>. \A x \in S : x \in 0..n /\ x \in Nat /\ n - x \in Nat
  OBVIOUS
<1>1. T \in SUBSET Nat /\ T # {}
  OBVIOUS
<1>2. PICK m \in T : \A k \in T : m <= k
  BY <1>1, LeastNumber
<1>3. PICK x \in S : m = n - x
  BY <1>2
<1>4. \A y \in S : y <= x
  <2>. TAKE y \in S
  <2>1. n - y \in T
    OBVIOUS
  <2>2. n - x <= n - y
    BY <1>2, <1>3, <2>1
  <2>. QED
    BY <2>2
<1>. QED
  BY <1>4 DEF Latest

(* A summary is folded up to the latest of the turns that are added.        *)
LEMMA FoldedIs ==
  ASSUME NEW s \in Summary, NEW P \in SUBSET Turn
  PROVE  /\ Folded(s, P) \in Summary
         /\ P = {} => Folded(s, P) = s
         /\ Folded(s, P).turns = s.turns \cup P
         /\ P # {} => /\ Folded(s, P).upTo \in P
                      /\ \A p \in P : p <= Folded(s, P).upTo
<1>1. CASE P = {}
  BY <1>1 DEF Folded
<1>2. CASE P # {}
  <2>1. MaxTurns \in Nat /\ P \in SUBSET (0..MaxTurns)
    BY StoreAssumption DEF Turn
  <2>2. Latest(P) \in P /\ \A p \in P : p <= Latest(P)
    BY <1>2, <2>1, LatestIsLast
  <2>. QED
    BY <1>2, <2>1, <2>2 DEF Folded, Summary, Turn
<1>. QED
  BY <1>1, <1>2

LEMMA FoldedEarly ==
  ASSUME NEW s \in Summary, NEW P \in SUBSET Turn, NEW U,
         Early(U, s.upTo), \A p \in P : Early(U, p)
  PROVE  Early(U, Folded(s, P).upTo)
BY FoldedIs

LEMMA NewerIs ==
  ASSUME NEW s \in Summary, NEW r \in Summary
  PROVE  Newer(s, r) \in Summary /\ Newer(s, r) \in {s, r}
BY DEF Newer

LEMMA Turns ==
  ASSUME NEW h \in Seq(Entry)
  PROVE  /\ DOMAIN h = 1..Len(h) /\ Len(h) \in Nat
         /\ \A i \in DOMAIN h : h[i] \in Entry /\ h[i].turn \in Turn
         /\ TurnsIn(h) \in SUBSET Turn
<1>1. DOMAIN h = 1..Len(h) /\ Len(h) \in Nat
  BY LenProperties
<1>2. \A i \in DOMAIN h : h[i] \in Entry
  BY <1>1, ElementOfSeq
<1>3. \A i \in DOMAIN h : h[i].turn \in Turn
  BY <1>2 DEF Entry
<1>. QED
  BY <1>1, <1>2, <1>3 DEF TurnsIn

(* What is folded in leaves nothing out: the turns before the tail that are *)
(* later than the summary are added to it, and they come before the tail.   *)
LEMMA FoldedCovers ==
  ASSUME NEW h \in Seq(Entry), Ascending(h), NEW s \in Summary, Cover(s, h)
  PROVE  LET P == ToSummarize(h, s.upTo) IN
         /\ P \in SUBSET TurnsIn(h)
         /\ Cover(Folded(s, P), h)
         /\ TurnsIn(h) \subseteq s.turns \cup P \cup TailOf(h)
<1>. DEFINE P == ToSummarize(h, s.upTo)
            last == Len(h) - TailTurns
<1>1. /\ DOMAIN h = 1..Len(h) /\ Len(h) \in Nat /\ TailTurns \in Nat \ {0}
      /\ \A i \in DOMAIN h : h[i].turn \in Turn /\ h[i].turn \in Nat
      /\ s.upTo \in Nat
  BY Turns, StoreAssumption DEF Turn, Summary
<1>2. /\ \A i \in 1..last : i \in DOMAIN h /\ (h[i].turn > s.upTo => h[i].turn \in P)
      /\ \A p \in P : \E i \in 1..last : p = h[i].turn /\ h[i].turn > s.upTo
  BY <1>1 DEF ToSummarize
<1>3. P \in SUBSET TurnsIn(h) /\ P \in SUBSET Turn
  BY <1>1, <1>2 DEF TurnsIn
<1>4. TurnsIn(h) \subseteq s.turns \cup P \cup TailOf(h)
  <2>. SUFFICES ASSUME NEW k \in DOMAIN h, h[k].turn \notin TailOf(h), h[k].turn \notin P
                PROVE  h[k].turn \in s.turns
    BY DEF TurnsIn
  <2>1. k \in 1..last
    BY <1>1 DEF TailOf
  <2>2. h[k].turn <= s.upTo
    BY <1>1, <1>2, <2>1
  <2>. QED
    BY <2>2 DEF Cover, TurnsIn
<1>5. Cover(Folded(s, P), h)
  <2>1. CASE P = {}
    BY <2>1, <1>3, FoldedIs
  <2>2. CASE P # {}
    <3>1. PICK i \in 1..last : Folded(s, P).upTo = h[i].turn
      BY <1>2, <1>3, <2>2, FoldedIs
    <3>2. ASSUME NEW k \in DOMAIN h, h[k].turn <= h[i].turn
          PROVE  h[k].turn \in s.turns \cup P
      <4>1. ~ (i < k)
        BY <1>1, <1>2, <3>1, <3>2 DEF Ascending
      <4>2. k \in 1..last
        BY <1>1, <4>1
      <4>3. CASE h[k].turn > s.upTo
        BY <1>2, <4>2, <4>3
      <4>4. CASE h[k].turn <= s.upTo
        BY <4>4 DEF Cover, TurnsIn
      <4>. QED
        BY <1>1, <4>3, <4>4
    <3>. QED
      BY <1>3, <3>1, <3>2, FoldedIs DEF Cover, TurnsIn
  <2>. QED
    BY <2>1, <2>2
<1>. QED
  BY <1>3, <1>4, <1>5

(* A prompt is recorded at the end.                                         *)
LEMMA Prompted ==
  ASSUME NEW h \in Seq(Entry), NEW t \in Turn
  PROVE  /\ Append(h, Prompt(t)) \in Seq(Entry)
         /\ TurnsIn(Append(h, Prompt(t))) = TurnsIn(h) \cup {t}
         /\ Ascending(h) /\ (\A u \in TurnsIn(h) : u < t)
              => Ascending(Append(h, Prompt(t)))
<1>. DEFINE g == Append(h, Prompt(t))
<1>1. Prompt(t) \in Entry /\ Prompt(t).turn = t
  BY DEF Prompt, Entry
<1>2. /\ g \in Seq(Entry) /\ Len(g) = Len(h) + 1 /\ Len(h) \in Nat
      /\ DOMAIN g = 1..(Len(h) + 1) /\ DOMAIN h = 1..Len(h)
      /\ \A i \in 1..Len(h) : g[i] = h[i]
      /\ g[Len(h) + 1] = Prompt(t)
  BY <1>1, AppendProperties, LenProperties
<1>. HIDE DEF g
<1>3. TurnsIn(g) = TurnsIn(h) \cup {t}
  BY <1>1, <1>2 DEF TurnsIn
<1>4. ASSUME Ascending(h), \A u \in TurnsIn(h) : u < t PROVE Ascending(g)
  <2>. SUFFICES ASSUME NEW i \in DOMAIN g, NEW j \in DOMAIN g, i < j
                PROVE  g[i].turn < g[j].turn
    BY DEF Ascending
  <2>1. i \in DOMAIN h /\ g[i] = h[i]
    BY <1>2
  <2>2. CASE j \in DOMAIN h
    BY <1>2, <1>4, <2>1, <2>2 DEF Ascending
  <2>3. CASE j = Len(h) + 1
    BY <1>1, <1>2, <1>4, <2>1, <2>3 DEF TurnsIn
  <2>. QED
    BY <1>2, <2>2, <2>3
<1>. QED
  BY <1>2, <1>3, <1>4 DEF g

(* An answer changes no turn's place.                                       *)
LEMMA Recorded ==
  ASSUME NEW h \in Seq(Entry), NEW t \in Turn
  PROVE  /\ RecordCompletedTurn(h, t) \in Seq(Entry)
         /\ TurnsIn(RecordCompletedTurn(h, t)) = TurnsIn(h)
         /\ Ascending(h) => Ascending(RecordCompletedTurn(h, t))
         /\ RecordCompletedTurn(h, t) =
              [i \in DOMAIN h |-> IF h[i].turn = t THEN [h[i] EXCEPT !.answered = TRUE]
                                                   ELSE h[i]]
<1>. DEFINE g == RecordCompletedTurn(h, t)
<1>1. /\ DOMAIN h = 1..Len(h) /\ Len(h) \in Nat
      /\ \A i \in DOMAIN h : h[i] \in Entry
  BY Turns
<1>2. g \in [1..Len(h) -> Entry]
  BY <1>1 DEF RecordCompletedTurn, Answered, Entry
<1>3. g \in Seq(Entry)
  BY <1>1, <1>2, SeqDef
<1>4. DOMAIN g = DOMAIN h /\ \A i \in DOMAIN h : g[i].turn = h[i].turn
  BY <1>1 DEF RecordCompletedTurn, Answered
<1>5. \A i \in DOMAIN h : h[i].turn = t => [h[i] EXCEPT !.answered = TRUE] = Answered(t)
  <2>1. ASSUME NEW x \in Entry, x.turn = t PROVE [x EXCEPT !.answered = TRUE] = Answered(t)
    <3>. DEFINE y == [x EXCEPT !.answered = TRUE]
    <3>1. y \in Entry /\ y.turn = t /\ y.answered = TRUE
      BY <2>1 DEF Entry
    <3>. HIDE DEF y
    <3>2. y = [turn |-> t, answered |-> TRUE]
      BY <3>1 DEF Entry
    <3>. QED
      BY <3>2 DEF y, Answered
  <2>. QED
    BY <1>1, <2>1
<1>6. g = [i \in DOMAIN h |-> IF h[i].turn = t THEN [h[i] EXCEPT !.answered = TRUE]
                                               ELSE h[i]]
  BY <1>5 DEF RecordCompletedTurn
<1>. HIDE DEF g
<1>7. TurnsIn(g) = TurnsIn(h)
  BY <1>4 DEF TurnsIn
<1>. QED
  BY <1>3, <1>4, <1>6, <1>7 DEF Ascending, g

-----------------------------------------------------------------------------
(* Types.                                                                   *)

Phases == {"new", "read", "summing", "ready", "running", "answered", "saved", "done"}

Actor == [phase: Phases, id: Id, copy: Record \cup {NoRecord},
          told: SUBSET Turn, sync: BOOLEAN, seen: BOOLEAN]

Editor == [phase: {"new", "read", "done"}, id: Id, copy: Record \cup {NoRecord},
           told: SUBSET Turn, sync: BOOLEAN, seen: BOOLEAN]

Store == [Id -> Record \cup {NoRecord}]

Typed ==
    /\ mem \in Store /\ disk \in Store /\ live \in [Id -> Turn \cup {None}]
    /\ turn \in [Turn -> Actor] /\ edit \in [Edit -> Editor]
    /\ cache \in [Id -> Summary] /\ job \in [Id -> Summary]
    /\ saved \in BOOLEAN /\ stale \in BOOLEAN /\ crashes \in 0..MaxCrashes

(* Whoever is at work has a copy.                                           *)
CopiesExist ==
    /\ \A t \in Turn : InFlight(turn[t]) => turn[t].copy \in Record
    /\ \A e \in Edit : InFlight(edit[e]) => edit[e].copy \in Record

LEMMA NoRecordIsNone == NoRecord \notin Record
<1>. SUFFICES ASSUME NoRecord \in Record PROVE FALSE
  OBVIOUS
<1>1. DOMAIN NoRecord = {"title", "pin", "history", "summary"}
  BY DEF Record
<1>2. DOMAIN NoRecord = {}
  BY DEF NoRecord
<1>. QED
  BY <1>1, <1>2

LEMMA NewRecordIs ==
  /\ NewRecord \in Record /\ NewRecord.history = <<>> /\ NewRecord.summary = NoSummary
  /\ NoSummary \in Summary /\ <<>> \in Seq(Entry) /\ TurnsIn(<<>>) = {}
<1>1. <<>> \in Seq(Entry) /\ DOMAIN <<>> = {}
  OBVIOUS
<1>2. NoSummary \in Summary
  BY StoreAssumption DEF NoSummary, Summary
<1>. QED
  BY <1>1, <1>2 DEF NewRecord, Record, TurnsIn

LEMMA RecordIs ==
  ASSUME NEW r \in Record
  PROVE  /\ r.title \in Rename \cup {Unset} /\ r.pin \in Pin \cup {Unset}
         /\ r.history \in Seq(Entry) /\ r.summary \in Summary
         /\ r = [title |-> r.title, pin |-> r.pin, history |-> r.history,
                 summary |-> r.summary]
BY DEF Record

LEMMA IdleIs ==
  /\ Idle \in Actor /\ Done \in Actor /\ Idle \in Editor /\ Done \in Editor
  /\ Idle.phase = "new" /\ Done.phase = "done" /\ ~InFlight(Idle) /\ ~InFlight(Done)
  /\ Idle.sync /\ Idle.seen
<1>1. None \in Id
  BY StoreAssumption DEF None, Id
<1>2. Idle \in Actor /\ Idle \in Editor
  BY <1>1 DEF Idle, Actor, Editor, Phases
<1>3. Idle.phase = "new" /\ Idle.sync /\ Idle.seen
  BY DEF Idle
<1>. HIDE DEF Idle
<1>4. Done \in Actor /\ Done \in Editor /\ Done.phase = "done"
  BY <1>2 DEF Done, Actor, Editor, Phases
<1>. QED
  BY <1>2, <1>3, <1>4 DEF InFlight

LEMMA EditsAre ==
  /\ Edit = Rename \cup Pin \cup Compaction /\ None \notin Edit /\ None \notin Turn
  /\ \A e \in Edit : /\ e \in Rename => e \notin Pin /\ e \notin Compaction
                     /\ e \in Pin => e \notin Compaction
BY StoreAssumption DEF Edit, None, Turn

(* What another's write does to an actor: it loses its marks, if it is at   *)
(* work on the same conversation.                                           *)
Kept(a, b, id) ==
    /\ b.phase = a.phase /\ b.id = a.id /\ b.copy = a.copy /\ b.told = a.told
    /\ InFlight(a) /\ a.id = id => ~b.sync /\ ~b.seen
    /\ ~(InFlight(a) /\ a.id = id) => b = a

LEMMA OvertakenIs ==
  ASSUME NEW a, a \in Actor \/ a \in Editor, NEW id
  PROVE  /\ a \in Actor => Overtaken(a, id) \in Actor
         /\ a \in Editor => Overtaken(a, id) \in Editor
         /\ Kept(a, Overtaken(a, id), id)
<1>. DEFINE b == [a EXCEPT !.sync = FALSE, !.seen = FALSE]
<1>1. CASE InFlight(a) /\ a.id = id
  <2>1. Overtaken(a, id) = b
    BY <1>1 DEF Overtaken
  <2>2. /\ b.phase = a.phase /\ b.id = a.id /\ b.copy = a.copy /\ b.told = a.told
        /\ ~b.sync /\ ~b.seen
        /\ a \in Actor => b \in Actor
        /\ a \in Editor => b \in Editor
    BY DEF Actor, Editor
  <2>. QED
    BY <1>1, <2>1, <2>2 DEF Kept
<1>2. CASE ~(InFlight(a) /\ a.id = id)
  BY <1>2 DEF Overtaken, Kept
<1>. QED
  BY <1>1, <1>2

(* The turns and the edits after a write by turn t or by edit e.            *)
LEMMA TurnsAfterIs ==
  ASSUME Typed, NEW id \in Id, NEW t \in Turn \cup {None}, NEW rec,
         t \in Turn => rec \in Actor
  PROVE  /\ TurnsAfter(id, t, rec) \in [Turn -> Actor]
         /\ t \in Turn => TurnsAfter(id, t, rec)[t] = rec
         /\ \A u \in Turn : u # t => Kept(turn[u], TurnsAfter(id, t, rec)[u], id)
<1>1. \A u \in Turn : turn[u] \in Actor
  BY DEF Typed
<1>2. \A u \in Turn : Overtaken(turn[u], id) \in Actor
                   /\ Kept(turn[u], Overtaken(turn[u], id), id)
  BY <1>1, OvertakenIs
<1>. QED
  BY <1>2 DEF TurnsAfter

LEMMA EditsAfterIs ==
  ASSUME Typed, NEW id \in Id, NEW e \in Edit \cup {None}, NEW rec,
         e \in Edit => rec \in Editor
  PROVE  /\ EditsAfter(id, e, rec) \in [Edit -> Editor]
         /\ e \in Edit => EditsAfter(id, e, rec)[e] = rec
         /\ \A u \in Edit : u # e => Kept(edit[u], EditsAfter(id, e, rec)[u], id)
<1>1. \A u \in Edit : edit[u] \in Editor
  BY DEF Typed
<1>2. \A u \in Edit : Overtaken(edit[u], id) \in Editor
                   /\ Kept(edit[u], Overtaken(edit[u], id), id)
  BY <1>1, OvertakenIs
<1>. QED
  BY <1>2 DEF EditsAfter

(* What a write leaves in memory and on disk.                               *)
LEMMA SaveIs ==
  ASSUME Typed, mem' \in Store, SaveLocked
  PROVE  /\ disk' \in Store /\ saved' \in BOOLEAN
         /\ \A x \in Id : disk'[x] \in {disk[x], mem'[x]}
         /\ saved' => disk' = mem'
BY DEF SaveLocked, Typed, Store

LEMMA PutIs ==
  ASSUME Typed, NEW id \in Id, NEW rec \in Record \cup {NoRecord},
         NEW owner \in Turn \cup {None}, Put(id, rec, owner)
  PROVE  /\ mem' \in Store /\ mem'[id] = rec
         /\ \A x \in Id : x # id => mem'[x] = mem[x]
         /\ live' \in [Id -> Turn \cup {None}] /\ live'[id] = owner
         /\ \A x \in Id : x # id => live'[x] = live[x]
         /\ disk' \in Store /\ saved' \in BOOLEAN
         /\ \A x \in Id : disk'[x] \in {disk[x], mem'[x]}
         /\ saved' => disk' = mem'
<1>1. /\ mem' \in Store /\ mem'[id] = rec
      /\ \A x \in Id : x # id => mem'[x] = mem[x]
      /\ live' \in [Id -> Turn \cup {None}] /\ live'[id] = owner
      /\ \A x \in Id : x # id => live'[x] = live[x]
      /\ SaveLocked
  BY DEF Put, Typed, Store
<1>. QED
  BY <1>1, SaveIs

-----------------------------------------------------------------------------
(* The records that actors make of their copies.                            *)

WithSummary(r, s) == [r EXCEPT !.summary = s]
WithPrompt(r, t) == [r EXCEPT !.history = Append(@, Prompt(t))]
WithAnswer(r, t, s, p) ==
    [r EXCEPT !.history = RecordCompletedTurn(@, t), !.summary = Newer(s, @), !.pin = p]

LEMMA EditedIs ==
  ASSUME NEW r \in Record, NEW e \in Edit
  PROVE  /\ Edited(r, e) \in Record
         /\ Edited(r, e).summary = r.summary
         /\ Edited(r, e).history \in {r.history, <<>>}
         /\ e \in Rename => Edited(r, e) = [r EXCEPT !.title = e]
         /\ e \in Pin => Edited(r, e) = [r EXCEPT !.pin = e]
         /\ e \in Compaction => Edited(r, e) = [r EXCEPT !.history = <<>>]
<1>1. CASE e \in Rename
  <2>1. e \notin Pin /\ e \notin Compaction
    BY <1>1, EditsAre
  <2>2. Edited(r, e) = [r EXCEPT !.title = e]
    BY <1>1, <2>1 DEF Edited
  <2>. QED
    BY <1>1, <2>1, <2>2 DEF Record
<1>2. CASE e \in Pin
  <2>1. e \notin Rename /\ e \notin Compaction
    BY <1>2, EditsAre
  <2>2. Edited(r, e) = [r EXCEPT !.pin = e]
    BY <1>2, <2>1 DEF Edited
  <2>. QED
    BY <1>2, <2>1, <2>2 DEF Record
<1>3. CASE e \in Compaction
  <2>1. e \notin Rename /\ e \notin Pin
    BY <1>3, EditsAre
  <2>2. Edited(r, e) = [r EXCEPT !.history = <<>>]
    BY <1>3, <2>1 DEF Edited
  <2>3. <<>> \in Seq(Entry)
    OBVIOUS
  <2>. QED
    BY <1>3, <2>1, <2>2, <2>3 DEF Record
<1>. QED
  BY <1>1, <1>2, <1>3, EditsAre

LEMMA WithSummaryIs ==
  ASSUME NEW r \in Record, NEW s \in Summary
  PROVE  /\ WithSummary(r, s) \in Record /\ WithSummary(r, s).summary = s
         /\ WithSummary(r, s).history = r.history
         /\ WithSummary(r, s).title = r.title /\ WithSummary(r, s).pin = r.pin
BY DEF WithSummary, Record

LEMMA WithPromptIs ==
  ASSUME NEW r \in Record, NEW t \in Turn
  PROVE  /\ WithPrompt(r, t) \in Record /\ WithPrompt(r, t).summary = r.summary
         /\ WithPrompt(r, t).history = Append(r.history, Prompt(t))
         /\ WithPrompt(r, t).title = r.title /\ WithPrompt(r, t).pin = r.pin
<1>1. Append(r.history, Prompt(t)) \in Seq(Entry)
  BY Prompted, RecordIs
<1>. QED
  BY <1>1 DEF WithPrompt, Record

LEMMA WithAnswerIs ==
  ASSUME NEW r \in Record, NEW t \in Turn, NEW s \in Summary, NEW p \in Pin \cup {Unset}
  PROVE  /\ WithAnswer(r, t, s, p) \in Record
         /\ WithAnswer(r, t, s, p).history = RecordCompletedTurn(r.history, t)
         /\ WithAnswer(r, t, s, p).summary \in {s, r.summary}
         /\ WithAnswer(r, t, s, p).title = r.title /\ WithAnswer(r, t, s, p).pin = p
<1>1. RecordCompletedTurn(r.history, t) \in Seq(Entry)
  BY Recorded, RecordIs
<1>2. Newer(s, r.summary) \in Summary /\ Newer(s, r.summary) \in {s, r.summary}
  BY NewerIs, RecordIs
<1>. QED
  BY <1>1, <1>2 DEF WithAnswer, Record

LEMMA HistoryParts ==
  ASSUME NEW h \in Seq(Entry), NEW n
  PROVE  /\ ToSummarize(h, n) \in SUBSET TurnsIn(h)
         /\ TailOf(h) \in SUBSET TurnsIn(h) /\ TurnsIn(h) \in SUBSET Turn
<1>1. DOMAIN h = 1..Len(h) /\ Len(h) \in Nat /\ TailTurns \in Nat \ {0}
  BY Turns, StoreAssumption
<1>2. \A j \in 1..(Len(h) - TailTurns) : j \in DOMAIN h
  BY <1>1
<1>. QED
  BY <1>2, Turns DEF ToSummarize, TailOf, TurnsIn

(* The summaries that can be made of those in S and of a history.           *)
MadeOf(S, h) == S \cup {Folded(s, ToSummarize(h, s.upTo)) : s \in S}

LEMMA MadeOfIs ==
  ASSUME NEW h \in Seq(Entry), NEW S \in SUBSET Summary, NEW m \in MadeOf(S, h)
  PROVE  /\ m \in Summary
         /\ \A U : /\ \A s \in S : Early(U, s.upTo)
                   /\ \A u \in TurnsIn(h) : Early(U, u)
                   => Early(U, m.upTo)
         /\ Ascending(h) /\ (\A s \in S : Cover(s, h)) => Cover(m, h)
<1>1. CASE m \in S
  BY <1>1
<1>2. CASE m \notin S
  <2>1. PICK s \in S : m = Folded(s, ToSummarize(h, s.upTo))
    BY <1>2 DEF MadeOf
  <2>2. ToSummarize(h, s.upTo) \in SUBSET TurnsIn(h) /\ TurnsIn(h) \in SUBSET Turn
    BY HistoryParts
  <2>3. m \in Summary
    BY <2>1, <2>2, FoldedIs
  <2>4. ASSUME NEW U, \A r \in S : Early(U, r.upTo), \A u \in TurnsIn(h) : Early(U, u)
        PROVE  Early(U, m.upTo)
    <3>1. Early(U, s.upTo) /\ \A p \in ToSummarize(h, s.upTo) : Early(U, p)
      BY <2>2, <2>4
    <3>. QED
      BY <2>1, <2>2, <3>1, FoldedEarly
  <2>5. ASSUME Ascending(h), \A r \in S : Cover(r, h) PROVE Cover(m, h)
    BY <2>1, <2>5, FoldedCovers
  <2>. QED
    BY <2>3, <2>4, <2>5
<1>. QED
  BY <1>1, <1>2

(* The summaries that a turn has before it.                                 *)
Known(t) == {cache[turn[t].id], turn[t].copy.summary}

LEMMA BestIsKnown ==
  ASSUME Typed, NEW t \in Turn, turn[t].copy \in Record
  PROVE  LET best == BestSummary(turn[t].id, turn[t].copy)
         IN  /\ turn[t].id \in Id /\ Known(t) \in SUBSET Summary
             /\ best \in Known(t) /\ best \in Summary
<1>1. turn[t].id \in Id
  BY DEF Typed, Actor
<1>2. cache[turn[t].id] \in Summary /\ turn[t].copy.summary \in Summary
  BY <1>1, RecordIs DEF Typed
<1>. QED
  BY <1>1, <1>2, NewerIs DEF BestSummary, Known

LEMMA RefreshIs ==
  ASSUME Typed, NEW id \in Id, NEW s \in Summary, NEW P \in SUBSET Turn,
         Refresh(id, s, P) \/ UNCHANGED job
  PROVE  /\ job' \in [Id -> Summary]
         /\ job'[id] \in {job[id], Folded(s, P)}
         /\ \A x \in Id : x # id => job'[x] = job[x]
<1>1. Folded(s, P) \in Summary
  BY FoldedIs
<1>. QED
  BY <1>1 DEF Refresh, Typed

LEMMA StoreSummaryIs ==
  ASSUME Typed, NEW id \in Id, NEW s \in Summary, StoreSummary(id, s) \/ UNCHANGED cache
  PROVE  /\ cache' \in [Id -> Summary]
         /\ cache'[id] \in {cache[id], s}
         /\ \A x \in Id : x # id => cache'[x] = cache[x]
<1>1. cache[id] \in Summary
  BY DEF Typed
<1>2. Newer(s, cache[id]) \in Summary /\ Newer(s, cache[id]) \in {s, cache[id]}
  BY <1>1, NewerIs
<1>. QED
  BY <1>2 DEF StoreSummary, Typed

LEMMA ReadyIs ==
  ASSUME Typed, NEW t \in Turn, turn[t].copy \in Record, NEW told \in SUBSET Turn,
         NEW s \in Summary, Ready(t, told, s)
  PROVE  /\ turn' \in [Turn -> Actor]
         /\ \A u \in Turn : u # t => turn'[u] = turn[u]
         /\ turn'[t].phase = "ready" /\ turn'[t].id = turn[t].id
         /\ turn'[t].copy = WithSummary(turn[t].copy, s) /\ turn'[t].told = told
         /\ turn'[t].sync = turn[t].sync /\ turn'[t].seen = turn[t].seen
<1>. DEFINE b == [turn[t] EXCEPT !.phase = "ready", !.told = told, !.copy.summary = s]
<1>1. turn[t] \in Actor /\ turn \in [Turn -> Actor]
  BY DEF Typed
<1>2. WithSummary(turn[t].copy, s) \in Record
  BY WithSummaryIs
<1>3. /\ b \in Actor /\ b.phase = "ready" /\ b.id = turn[t].id
      /\ b.copy = WithSummary(turn[t].copy, s) /\ b.told = told
      /\ b.sync = turn[t].sync /\ b.seen = turn[t].seen
  BY <1>1, <1>2 DEF Actor, Phases, WithSummary
<1>4. turn' = [turn EXCEPT ![t] = b]
  BY DEF Ready
<1>. HIDE DEF b
<1>. QED
  BY <1>1, <1>3, <1>4

-----------------------------------------------------------------------------
(* What the steps of a turn do.                                             *)

LEMMA SaveOnlyIs ==
  ASSUME Typed, SaveOnly \/ UNCHANGED <<mem, live, disk, saved>>
  PROVE  /\ mem' = mem /\ live' = live /\ disk' \in Store /\ saved' \in BOOLEAN
         /\ \A x \in Id : disk'[x] \in {disk[x], mem'[x]}
         /\ saved' => disk' = mem' \/ (saved /\ disk' = disk)
<1>1. CASE UNCHANGED <<mem, live, disk, saved>>
  BY <1>1 DEF Typed
<1>2. CASE SaveOnly
  <2>1. mem' = mem /\ live' = live /\ SaveLocked
    BY <1>2 DEF SaveOnly
  <2>2. mem' \in Store
    BY <2>1 DEF Typed
  <2>. QED
    BY <2>1, <2>2, SaveIs
<1>. QED
  BY <1>1, <1>2

(* A fresh context is made of the whole history, if the summaries cover it. *)
LEMMA ToldIs ==
  ASSUME NEW h \in Seq(Entry), NEW s \in Summary, Ascending(h), Cover(s, h)
  PROVE  LET P == ToSummarize(h, s.upTo) IN
         /\ TurnsIn(h) \subseteq s.turns \cup P \cup TailOf(h)
         /\ TurnsIn(h) \subseteq Folded(s, P).turns \cup TailOf(h)
<1>. DEFINE P == ToSummarize(h, s.upTo)
<1>1. TurnsIn(h) \subseteq s.turns \cup P \cup TailOf(h)
  BY FoldedCovers
<1>2. P \in SUBSET Turn
  BY HistoryParts
<1>3. Folded(s, P).turns = s.turns \cup P
  BY <1>2, FoldedIs
<1>. QED
  BY <1>1, <1>3

LEMMA PrepareIs ==
  ASSUME Typed, NEW t \in Turn, turn[t].copy \in Record, Prepare(t)
  PROVE  /\ turn[t].phase = "read"
         /\ SaveOnly \/ UNCHANGED <<mem, live, disk, saved>>
         /\ turn' \in [Turn -> Actor]
         /\ \A u \in Turn : u # t => turn'[u] = turn[u]
         /\ turn'[t].phase \in {"ready", "summing"} /\ turn'[t].id = turn[t].id
         /\ turn'[t].sync = turn[t].sync /\ turn'[t].seen = turn[t].seen
         /\ \E s \in Known(t) :
              turn'[t].copy \in {turn[t].copy, WithSummary(turn[t].copy, s)}
         /\ job' \in [Id -> Summary]
         /\ job'[turn[t].id] \in {job[turn[t].id]} \cup MadeOf(Known(t), turn[t].copy.history)
         /\ \A x \in Id : x # turn[t].id => job'[x] = job[x]
         /\ turn'[t].phase = "ready" /\ Ascending(turn[t].copy.history)
              /\ (\A s \in Known(t) : Cover(s, turn[t].copy.history))
              => TurnsIn(turn[t].copy.history) \subseteq turn'[t].told
         /\ UNCHANGED <<edit, cache, stale, crashes>>
<1>. DEFINE rec == turn[t].copy
            h == rec.history
            best == BestSummary(turn[t].id, rec)
            pending == ToSummarize(h, best.upTo)
            Whole == Ascending(h) /\ Cover(best, h)
            Turned(told) ==
              /\ turn' \in [Turn -> Actor]
              /\ \A u \in Turn : u # t => turn'[u] = turn[u]
              /\ turn'[t].phase \in {"ready", "summing"} /\ turn'[t].id = turn[t].id
              /\ turn'[t].sync = turn[t].sync /\ turn'[t].seen = turn[t].seen
              /\ \E s \in Known(t) : turn'[t].copy \in {rec, WithSummary(rec, s)}
              /\ turn'[t].phase = "ready" => turn'[t].told = told
<1>1. /\ turn[t].id \in Id /\ Known(t) \in SUBSET Summary /\ best \in Known(t)
      /\ best \in Summary /\ rec.summary \in Known(t) /\ rec.summary \in Summary
  BY BestIsKnown, RecordIs DEF Known
<1>2. h \in Seq(Entry)
  BY RecordIs
<1>3. /\ pending \in SUBSET TurnsIn(h) /\ TailOf(h) \in SUBSET TurnsIn(h)
      /\ TurnsIn(h) \in SUBSET Turn /\ pending \in SUBSET Turn
      /\ best.turns \in SUBSET Turn
  BY <1>1, <1>2, HistoryParts DEF Summary
<1>4. /\ turn[t].phase = "read"
      /\ SaveOnly \/ UNCHANGED <<mem, live, disk, saved>>
      /\ UNCHANGED <<edit, cache, stale, crashes>>
  BY DEF Prepare
<1>5. Refresh(turn[t].id, best, pending) \/ UNCHANGED job
  BY DEF Prepare
<1>6. /\ job' \in [Id -> Summary]
      /\ job'[turn[t].id] \in {job[turn[t].id], Folded(best, pending)}
      /\ \A x \in Id : x # turn[t].id => job'[x] = job[x]
  BY <1>1, <1>3, <1>5, RefreshIs
<1>7. Folded(best, pending) \in MadeOf(Known(t), h)
  BY <1>1 DEF MadeOf
<1>8. \E told : Turned(told) /\ (Whole => TurnsIn(h) \subseteq told)
  <2>1. Whole => TurnsIn(h) \subseteq best.turns \cup pending \cup TailOf(h)
    BY <1>1, <1>2, ToldIs
  <2>2. ASSUME NEW told \in SUBSET Turn, NEW s \in Known(t), Ready(t, told, s)
        PROVE  Turned(told)
    BY <1>1, <2>2, ReadyIs
  <2>3. CASE Ready(t, TurnsIn(h), rec.summary)
    <3>1. Turned(TurnsIn(h))
      BY <1>1, <1>3, <2>2, <2>3
    <3>. QED
      BY <3>1
  <2>4. CASE pending = {} /\ Ready(t, best.turns \cup TailOf(h), best)
    <3>1. best.turns \cup TailOf(h) \in SUBSET Turn
      BY <1>3
    <3>2. Turned(best.turns \cup TailOf(h))
      BY <1>1, <2>2, <2>4, <3>1
    <3>3. Whole => TurnsIn(h) \subseteq best.turns \cup TailOf(h)
      BY <2>1, <2>4
    <3>. QED
      BY <3>2, <3>3
  <2>5. CASE Ready(t, best.turns \cup pending \cup TailOf(h), best)
    <3>1. best.turns \cup pending \cup TailOf(h) \in SUBSET Turn
      BY <1>3
    <3>2. Turned(best.turns \cup pending \cup TailOf(h))
      BY <1>1, <2>2, <2>5, <3>1
    <3>. QED
      BY <2>1, <3>2
  <2>6. CASE turn' = [turn EXCEPT ![t].phase = "summing"]
    <3>1. turn \in [Turn -> Actor]
      BY DEF Typed
    <3>2. /\ turn' \in [Turn -> Actor]
          /\ \A u \in Turn : u # t => turn'[u] = turn[u]
          /\ turn'[t].phase = "summing" /\ turn'[t].id = turn[t].id
          /\ turn'[t].sync = turn[t].sync /\ turn'[t].seen = turn[t].seen
          /\ turn'[t].copy = rec
      BY <2>6, <3>1 DEF Actor, Phases
    <3>3. Turned(TurnsIn(h))
      BY <1>1, <3>2
    <3>. QED
      BY <3>3
  <2>7. \/ Ready(t, TurnsIn(h), rec.summary)
        \/ pending = {} /\ Ready(t, best.turns \cup TailOf(h), best)
        \/ Ready(t, best.turns \cup pending \cup TailOf(h), best)
        \/ turn' = [turn EXCEPT ![t].phase = "summing"]
    BY DEF Prepare
  <2>. QED
    BY <2>3, <2>4, <2>5, <2>6, <2>7
<1>9. PICK told : Turned(told) /\ (Whole => TurnsIn(h) \subseteq told)
  BY <1>8
<1>10. turn'[t].phase = "ready" /\ Ascending(h) /\ (\A s \in Known(t) : Cover(s, h))
         => TurnsIn(h) \subseteq turn'[t].told
  BY <1>1, <1>9
<1>. QED
  BY <1>4, <1>6, <1>7, <1>9, <1>10

LEMMA SummarisedIs ==
  ASSUME Typed, NEW t \in Turn, turn[t].copy \in Record, Summarised(t)
  PROVE  /\ turn[t].phase = "summing"
         /\ turn' \in [Turn -> Actor]
         /\ \A u \in Turn : u # t => turn'[u] = turn[u]
         /\ turn'[t].phase = "ready" /\ turn'[t].id = turn[t].id
         /\ turn'[t].sync = turn[t].sync /\ turn'[t].seen = turn[t].seen
         /\ \E s \in MadeOf(Known(t), turn[t].copy.history) :
              turn'[t].copy = WithSummary(turn[t].copy, s)
         /\ cache' \in [Id -> Summary]
         /\ cache'[turn[t].id] \in {cache[turn[t].id]} \cup MadeOf(Known(t), turn[t].copy.history)
         /\ \A x \in Id : x # turn[t].id => cache'[x] = cache[x]
         /\ Ascending(turn[t].copy.history)
              /\ (\A s \in Known(t) : Cover(s, turn[t].copy.history))
              => TurnsIn(turn[t].copy.history) \subseteq turn'[t].told
         /\ UNCHANGED <<mem, disk, live, edit, job, saved, stale, crashes>>
<1>. DEFINE rec == turn[t].copy
            h == rec.history
            best == BestSummary(turn[t].id, rec)
            pending == ToSummarize(h, best.upTo)
            s == Folded(best, pending)
            Whole == Ascending(h) /\ Cover(best, h)
            Turned(told, r) ==
              /\ turn' \in [Turn -> Actor]
              /\ \A u \in Turn : u # t => turn'[u] = turn[u]
              /\ turn'[t].phase = "ready" /\ turn'[t].id = turn[t].id
              /\ turn'[t].sync = turn[t].sync /\ turn'[t].seen = turn[t].seen
              /\ turn'[t].copy = WithSummary(rec, r) /\ turn'[t].told = told
<1>1. /\ turn[t].id \in Id /\ Known(t) \in SUBSET Summary /\ best \in Known(t)
      /\ best \in Summary /\ rec.summary \in Known(t) /\ rec.summary \in Summary
  BY BestIsKnown, RecordIs DEF Known
<1>2. h \in Seq(Entry)
  BY RecordIs
<1>3. /\ pending \in SUBSET TurnsIn(h) /\ TailOf(h) \in SUBSET TurnsIn(h)
      /\ TurnsIn(h) \in SUBSET Turn /\ pending \in SUBSET Turn
  BY <1>1, <1>2, HistoryParts
<1>4. s \in Summary
  BY <1>1, <1>3, FoldedIs
<1>5. s.turns \cup TailOf(h) \in SUBSET Turn
  BY <1>3, <1>4 DEF Summary
<1>6. s \in MadeOf(Known(t), h) /\ rec.summary \in MadeOf(Known(t), h)
  BY <1>1 DEF MadeOf
<1>7. /\ turn[t].phase = "summing"
      /\ UNCHANGED <<mem, disk, live, edit, job, saved, stale, crashes>>
      /\ StoreSummary(turn[t].id, s) \/ UNCHANGED cache
      /\ Ready(t, s.turns \cup TailOf(h), s) \/ Ready(t, TurnsIn(h), rec.summary)
  BY DEF Summarised
<1>. HIDE DEF s
<1>8. /\ cache' \in [Id -> Summary] /\ cache'[turn[t].id] \in {cache[turn[t].id], s}
      /\ \A x \in Id : x # turn[t].id => cache'[x] = cache[x]
  BY <1>1, <1>4, <1>7, StoreSummaryIs
<1>9. Whole => TurnsIn(h) \subseteq s.turns \cup TailOf(h)
  BY <1>1, <1>2, ToldIs DEF s
<1>10. \/ Turned(s.turns \cup TailOf(h), s)
       \/ Turned(TurnsIn(h), rec.summary)
  <2>1. CASE Ready(t, s.turns \cup TailOf(h), s)
    BY <1>1, <1>4, <1>5, <2>1, ReadyIs
  <2>2. CASE Ready(t, TurnsIn(h), rec.summary)
    BY <1>1, <1>3, <2>2, ReadyIs
  <2>. QED
    BY <1>7, <2>1, <2>2
<1>11. \E told, r : /\ Turned(told, r) /\ r \in MadeOf(Known(t), h)
                    /\ Whole => TurnsIn(h) \subseteq told
  BY <1>6, <1>9, <1>10
<1>12. PICK told, r : /\ Turned(told, r) /\ r \in MadeOf(Known(t), h)
                      /\ Whole => TurnsIn(h) \subseteq told
  BY <1>11
<1>13. Ascending(h) /\ (\A x \in Known(t) : Cover(x, h)) => TurnsIn(h) \subseteq turn'[t].told
  BY <1>1, <1>12
<1>. QED
  BY <1>6, <1>7, <1>8, <1>12, <1>13

(* A write of a record: by turn t, which goes on as b, by edit e, which     *)
(* goes on as c, or by nobody who is at work.                               *)
Written(id, rec, owner, t, b, e, c) ==
    /\ mem' \in Store /\ mem'[id] = rec
    /\ \A x \in Id : x # id => mem'[x] = mem[x]
    /\ live' \in [Id -> Turn \cup {None}] /\ live'[id] = owner
    /\ \A x \in Id : x # id => live'[x] = live[x]
    /\ turn' \in [Turn -> Actor] /\ (t \in Turn => turn'[t] = b)
    /\ \A u \in Turn : u # t => Kept(turn[u], turn'[u], id)
    /\ edit' \in [Edit -> Editor] /\ (e \in Edit => edit'[e] = c)
    /\ \A u \in Edit : u # e => Kept(edit[u], edit'[u], id)

Flushed ==
    /\ disk' \in Store /\ saved' \in BOOLEAN
    /\ \A x \in Id : disk'[x] \in {disk[x], mem'[x]}
    /\ saved' => disk' = mem'

LEMMA WriteIs ==
  ASSUME Typed, NEW id \in Id, NEW rec \in Record \cup {NoRecord},
         NEW owner \in Turn \cup {None},
         NEW t \in Turn \cup {None}, NEW b, t \in Turn => b \in Actor,
         NEW e \in Edit \cup {None}, NEW c, e \in Edit => c \in Editor,
         Put(id, rec, owner), turn' = TurnsAfter(id, t, b), edit' = EditsAfter(id, e, c)
  PROVE  Written(id, rec, owner, t, b, e, c) /\ Flushed
<1>1. /\ mem' \in Store /\ mem'[id] = rec
      /\ \A x \in Id : x # id => mem'[x] = mem[x]
      /\ live' \in [Id -> Turn \cup {None}] /\ live'[id] = owner
      /\ \A x \in Id : x # id => live'[x] = live[x]
      /\ disk' \in Store /\ saved' \in BOOLEAN
      /\ \A x \in Id : disk'[x] \in {disk[x], mem'[x]}
      /\ saved' => disk' = mem'
  BY PutIs
<1>2. /\ turn' \in [Turn -> Actor] /\ (t \in Turn => turn'[t] = b)
      /\ \A u \in Turn : u # t => Kept(turn[u], turn'[u], id)
  BY TurnsAfterIs
<1>3. /\ edit' \in [Edit -> Editor] /\ (e \in Edit => edit'[e] = c)
      /\ \A u \in Edit : u # e => Kept(edit[u], edit'[u], id)
  BY EditsAfterIs
<1>. QED
  BY <1>1, <1>2, <1>3 DEF Written, Flushed

(* The new conversation's id is nobody's.                                   *)
LEMMA NextConvIsNew ==
  ASSUME Typed, NextConvID \in Id
  PROVE  ~Exists(NextConvID) /\ NextConvID # Telegram
<1>. DEFINE S == {Telegram} \cup {id \in Id : Exists(id)}
<1>1. MaxId \in Nat /\ S \in SUBSET (0..MaxId) /\ S # {}
  BY StoreAssumption DEF Id, Telegram
<1>2. Latest(S) \in S /\ \A x \in S : x <= Latest(S)
  BY <1>1, LatestIsLast
<1>3. NextConvID = 1 + Latest(S) /\ Latest(S) \in Nat
  BY <1>1, <1>2 DEF NextConvID
<1>. HIDE DEF S
<1>4. \A x \in S : x # NextConvID
  BY <1>1, <1>2, <1>3
<1>. QED
  BY <1>4 DEF S

LEMMA NewWebConvIs ==
  ASSUME Typed, NewWebConv
  PROVE  /\ NextConvID \in Id /\ ~Exists(NextConvID) /\ NextConvID # Telegram
         /\ Written(NextConvID, NewRecord, None, None, Idle, None, Idle) /\ Flushed
         /\ UNCHANGED <<cache, job, stale, crashes>>
<1>. DEFINE id == NextConvID
<1>1. /\ id \in Id /\ Put(id, NewRecord, None)
      /\ turn' = TurnsAfter(id, None, Idle) /\ edit' = EditsAfter(id, None, Idle)
      /\ UNCHANGED <<cache, job, stale, crashes>>
  BY DEF NewWebConv
<1>2. ~Exists(id) /\ id # Telegram
  BY <1>1, NextConvIsNew
<1>. HIDE DEF id
<1>3. Written(id, NewRecord, None, None, Idle, None, Idle) /\ Flushed
  BY <1>1, WriteIs, NewRecordIs, EditsAre
<1>. QED
  BY <1>1, <1>2, <1>3 DEF id

LEMMA DeleteIs ==
  ASSUME Typed, NEW id \in Id, Delete(id)
  PROVE  /\ Exists(id) /\ id # Telegram
         /\ Written(id, NoRecord, None, None, Idle, None, Idle) /\ Flushed
         /\ UNCHANGED <<cache, job, stale, crashes>>
<1>1. /\ Exists(id) /\ id # Telegram /\ Put(id, NoRecord, None)
      /\ turn' = TurnsAfter(id, None, Idle) /\ edit' = EditsAfter(id, None, Idle)
      /\ UNCHANGED <<cache, job, stale, crashes>>
  BY DEF Delete
<1>2. Written(id, NoRecord, None, None, Idle, None, Idle) /\ Flushed
  BY <1>1, WriteIs, EditsAre
<1>. QED
  BY <1>1, <1>2

LEMMA PutEditIs ==
  ASSUME Typed, CopiesExist, NEW e \in Edit, PutEdit(e)
  PROVE  /\ edit[e].phase = "read" /\ edit[e].id \in Id /\ edit[e].copy \in Record
         /\ Written(edit[e].id, Edited(edit[e].copy, e), None, None, Idle, e, Done) /\ Flushed
         /\ stale' = (stale \/ ~edit[e].sync)
         /\ UNCHANGED <<cache, job, crashes>>
<1>1. /\ edit[e].phase = "read"
      /\ Put(edit[e].id, Edited(edit[e].copy, e), None)
      /\ turn' = TurnsAfter(edit[e].id, None, Idle) /\ edit' = EditsAfter(edit[e].id, e, Done)
      /\ stale' = (stale \/ ~edit[e].sync)
      /\ UNCHANGED <<cache, job, crashes>>
  BY DEF PutEdit
<1>2. edit[e].id \in Id /\ edit[e].copy \in Record
  BY <1>1 DEF Typed, Editor, CopiesExist, InFlight
<1>3. Edited(edit[e].copy, e) \in Record
  BY <1>2, EditedIs
<1>4. None \in Turn \cup {None} /\ e \in Edit \cup {None} /\ None \notin Turn /\ Done \in Editor
  BY EditsAre, IdleIs
<1>5. Written(edit[e].id, Edited(edit[e].copy, e), None, None, Idle, e, Done) /\ Flushed
  BY <1>1, <1>2, <1>3, <1>4, WriteIs
<1>. QED
  BY <1>1, <1>2, <1>5

LEMMA SavePendingIs ==
  ASSUME Typed, CopiesExist, NEW t \in Turn, SavePending(t)
  PROVE  /\ turn[t].phase = "ready" /\ turn[t].id \in Id /\ turn[t].copy \in Record
         /\ \E b \in Actor :
              /\ Written(turn[t].id, WithPrompt(turn[t].copy, t), t, t, b, None, Idle)
              /\ b.phase = "running" /\ b.id = turn[t].id /\ b.sync = turn[t].sync /\ b.seen
              /\ b.copy = WithPrompt(turn[t].copy, t) /\ b.told = {}
         /\ Flushed
         /\ UNCHANGED <<cache, job, stale, crashes>>
<1>. DEFINE a == turn[t]
            rec == WithPrompt(turn[t].copy, t)
            b == [a EXCEPT !.phase = "running", !.copy = rec,
                           !.told = {}, !.sync = a.sync, !.seen = TRUE]
<1>1. /\ a.phase = "ready" /\ Put(a.id, rec, t)
      /\ turn' = TurnsAfter(a.id, t, b) /\ edit' = EditsAfter(a.id, None, Idle)
      /\ UNCHANGED <<cache, job, stale, crashes>>
  BY DEF SavePending, WithPrompt
<1>2. a \in Actor /\ a.id \in Id /\ a.copy \in Record
  BY <1>1 DEF Typed, Actor, CopiesExist, InFlight
<1>3. rec \in Record
  BY <1>2, WithPromptIs
<1>. HIDE DEF rec
<1>4. /\ b \in Actor /\ b.phase = "running" /\ b.id = a.id /\ b.sync = a.sync /\ b.seen
      /\ b.copy = rec /\ b.told = {}
  BY <1>2, <1>3 DEF Actor, Phases
<1>. HIDE DEF b
<1>5. None \in Edit \cup {None} /\ t \in Turn \cup {None} /\ None \notin Edit
  BY EditsAre
<1>6. Written(a.id, rec, t, t, b, None, Idle) /\ Flushed
  BY <1>1, <1>2, <1>3, <1>4, <1>5, WriteIs
<1>. QED
  BY <1>1, <1>2, <1>4, <1>6 DEF rec

LEMMA SaveAnswerIs ==
  ASSUME Typed, CopiesExist, NEW t \in Turn, SaveAnswer(t)
  PROVE  /\ turn[t].phase = "answered" /\ turn[t].id \in Id /\ turn[t].copy \in Record
         /\ \E b \in Actor :
              /\ Written(turn[t].id, turn[t].copy, t, t, b, None, Idle)
              /\ b.phase = "saved" /\ b.id = turn[t].id /\ b.sync = turn[t].sync
              /\ b.copy = turn[t].copy
         /\ Flushed
         /\ UNCHANGED <<cache, job, stale, crashes>>
<1>. DEFINE a == turn[t]
            b == [a EXCEPT !.phase = "saved"]
<1>1. /\ a.phase = "answered" /\ Put(a.id, a.copy, t)
      /\ turn' = TurnsAfter(a.id, t, b) /\ edit' = EditsAfter(a.id, None, Idle)
      /\ UNCHANGED <<cache, job, stale, crashes>>
  BY DEF SaveAnswer
<1>2. a \in Actor /\ a.id \in Id /\ a.copy \in Record
  BY <1>1 DEF Typed, Actor, CopiesExist, InFlight
<1>3. b \in Actor /\ b.phase = "saved" /\ b.id = a.id /\ b.sync = a.sync /\ b.copy = a.copy
  BY <1>2 DEF Actor, Phases
<1>. HIDE DEF b
<1>4. None \in Edit \cup {None} /\ t \in Turn \cup {None} /\ None \notin Edit
  BY EditsAre
<1>5. Written(a.id, a.copy, t, t, b, None, Idle) /\ Flushed
  BY <1>1, <1>2, <1>3, <1>4, WriteIs
<1>. QED
  BY <1>1, <1>2, <1>3, <1>5

(* A step of turn t alone.                                                  *)
OnlyTurn(t, b) ==
    /\ turn' \in [Turn -> Actor] /\ turn'[t] = b
    /\ \A u \in Turn : u # t => turn'[u] = turn[u]
    /\ UNCHANGED edit

OnlyEdit(e, c) ==
    /\ edit' \in [Edit -> Editor] /\ edit'[e] = c
    /\ \A u \in Edit : u # e => edit'[u] = edit[u]
    /\ UNCHANGED turn

LEMMA AnswerIs ==
  ASSUME Typed, CopiesExist, NEW t \in Turn, Answer(t)
  PROVE  /\ turn[t].phase = "running" /\ turn[t].id \in Id /\ turn[t].copy \in Record
         /\ \E p \in Pin \cup {Unset}, b \in Actor :
              /\ p = PinPickedUp(turn[t].copy, mem[turn[t].id])
              /\ b.phase = "answered" /\ b.id = turn[t].id /\ b.sync = turn[t].sync /\ b.seen
              /\ b.copy = WithAnswer(turn[t].copy, t, cache[turn[t].id], p)
              /\ \/ /\ live[turn[t].id] = t
                    /\ Written(turn[t].id, b.copy, t, t, b, None, Idle)
                 \/ live[turn[t].id] # t /\ OnlyTurn(t, b) /\ UNCHANGED mem
         /\ UNCHANGED <<disk, live, cache, job, saved, stale, crashes>>
<1>. DEFINE a == turn[t]
            p == PinPickedUp(a.copy, mem[a.id])
            rec == WithAnswer(a.copy, t, cache[a.id], p)
            b == [a EXCEPT !.phase = "answered", !.copy = rec, !.seen = TRUE]
<1>1. /\ a.phase = "running"
      /\ IF live[a.id] = t
         THEN /\ mem' = [mem EXCEPT ![a.id] = rec]
              /\ turn' = TurnsAfter(a.id, t, b) /\ edit' = EditsAfter(a.id, None, Idle)
         ELSE turn' = [turn EXCEPT ![t] = b] /\ UNCHANGED <<mem, edit>>
      /\ UNCHANGED <<disk, live, cache, job, saved, stale, crashes>>
  BY DEF Answer, WithAnswer
<1>2. a \in Actor /\ a.id \in Id /\ a.copy \in Record
  BY <1>1 DEF Typed, Actor, CopiesExist, InFlight
<1>3. p \in Pin \cup {Unset}
  <2>1. CASE mem[a.id] = NoRecord
    BY <1>2, <2>1, RecordIs DEF PinPickedUp
  <2>2. CASE mem[a.id] \in Record
    BY <1>2, <2>2, RecordIs DEF PinPickedUp
  <2>. QED
    BY <1>2, <2>1, <2>2 DEF Typed, Store
<1>4. cache[a.id] \in Summary
  BY <1>2 DEF Typed
<1>. HIDE DEF p
<1>5. rec \in Record
  BY <1>2, <1>3, <1>4, WithAnswerIs
<1>. HIDE DEF rec
<1>6. /\ b \in Actor /\ b.phase = "answered" /\ b.id = a.id /\ b.sync = a.sync /\ b.seen
      /\ b.copy = rec
  BY <1>2, <1>5 DEF Actor, Phases
<1>. HIDE DEF b
<1>7. \/ live[a.id] = t /\ Written(a.id, rec, t, t, b, None, Idle)
      \/ live[a.id] # t /\ OnlyTurn(t, b) /\ UNCHANGED mem
  <2>1. CASE live[a.id] = t
    <3>1. /\ mem' \in Store /\ mem'[a.id] = rec
          /\ \A x \in Id : x # a.id => mem'[x] = mem[x]
      BY <1>1, <1>2, <1>5, <2>1 DEF Typed, Store
    <3>2. /\ live' \in [Id -> Turn \cup {None}] /\ live'[a.id] = t
          /\ \A x \in Id : x # a.id => live'[x] = live[x]
      BY <1>1, <2>1 DEF Typed
    <3>3. None \in Edit \cup {None} /\ t \in Turn \cup {None} /\ None \notin Edit
      BY EditsAre
    <3>4. turn' = TurnsAfter(a.id, t, b) /\ edit' = EditsAfter(a.id, None, Idle)
      BY <1>1, <2>1
    <3>5. /\ turn' \in [Turn -> Actor] /\ (t \in Turn => turn'[t] = b)
          /\ \A u \in Turn : u # t => Kept(turn[u], turn'[u], a.id)
      BY <1>2, <1>6, <3>3, <3>4, TurnsAfterIs
    <3>6. /\ edit' \in [Edit -> Editor] /\ (None \in Edit => edit'[None] = Idle)
          /\ \A u \in Edit : u # None => Kept(edit[u], edit'[u], a.id)
      BY <1>2, <3>3, <3>4, EditsAfterIs
    <3>7. Written(a.id, rec, t, t, b, None, Idle)
      BY <3>1, <3>2, <3>5, <3>6 DEF Written
    <3>. QED
      BY <2>1, <3>7
  <2>2. CASE live[a.id] # t
    <3>1. turn' = [turn EXCEPT ![t] = b] /\ UNCHANGED <<mem, edit>> /\ turn \in [Turn -> Actor]
      BY <1>1, <2>2 DEF Typed
    <3>2. OnlyTurn(t, b)
      BY <1>6, <3>1 DEF OnlyTurn
    <3>. QED
      BY <2>2, <3>1, <3>2
  <2>. QED
    BY <2>1, <2>2
<1>8. \E q \in Pin \cup {Unset}, c \in Actor :
        /\ q = PinPickedUp(a.copy, mem[a.id])
        /\ c.phase = "answered" /\ c.id = a.id /\ c.sync = a.sync /\ c.seen
        /\ c.copy = WithAnswer(a.copy, t, cache[a.id], q)
        /\ \/ live[a.id] = t /\ Written(a.id, c.copy, t, t, c, None, Idle)
           \/ live[a.id] # t /\ OnlyTurn(t, c) /\ UNCHANGED mem
  <2>1. p = PinPickedUp(a.copy, mem[a.id])
    BY DEF p
  <2>2. b.copy = rec /\ rec = WithAnswer(a.copy, t, cache[a.id], p)
    BY <1>6 DEF rec
  <2>. QED
    BY <1>3, <1>6, <1>7, <2>1, <2>2
<1>. QED
  BY <1>1, <1>2, <1>8

LEMMA EndTurnIs ==
  ASSUME Typed, CopiesExist, NEW t \in Turn, EndTurn(t)
  PROVE  /\ turn[t].phase = "saved" /\ turn[t].id \in Id /\ turn[t].copy \in Record
         /\ SaveOnly \/ UNCHANGED <<mem, live, disk, saved>>
         /\ OnlyTurn(t, Done)
         /\ job' \in [Id -> Summary]
         /\ job'[turn[t].id] \in {job[turn[t].id]} \cup MadeOf(Known(t), turn[t].copy.history)
         /\ \A x \in Id : x # turn[t].id => job'[x] = job[x]
         /\ UNCHANGED <<cache, stale, crashes>>
<1>. DEFINE a == turn[t]
            h == a.copy.history
            best == BestSummary(a.id, a.copy)
            pending == ToSummarize(h, best.upTo)
<1>1. /\ a.phase = "saved"
      /\ SaveOnly \/ UNCHANGED <<mem, live, disk, saved>>
      /\ Refresh(a.id, best, pending) \/ UNCHANGED job
      /\ turn' = [turn EXCEPT ![t] = Done]
      /\ UNCHANGED <<edit, cache, stale, crashes>>
  BY DEF EndTurn
<1>2. a \in Actor /\ a.id \in Id /\ a.copy \in Record /\ turn \in [Turn -> Actor]
  BY <1>1 DEF Typed, Actor, CopiesExist, InFlight
<1>3. best \in Known(t) /\ best \in Summary
  BY <1>2, BestIsKnown
<1>4. h \in Seq(Entry)
  BY <1>2, RecordIs
<1>5. pending \in SUBSET Turn
  BY <1>4, HistoryParts
<1>6. /\ job' \in [Id -> Summary] /\ job'[a.id] \in {job[a.id], Folded(best, pending)}
      /\ \A x \in Id : x # a.id => job'[x] = job[x]
  BY <1>1, <1>2, <1>3, <1>5, RefreshIs
<1>7. Folded(best, pending) \in MadeOf(Known(t), h)
  BY <1>3 DEF MadeOf
<1>8. OnlyTurn(t, Done)
  BY <1>1, <1>2, IdleIs DEF OnlyTurn
<1>. QED
  BY <1>1, <1>2, <1>6, <1>7, <1>8

LEMMA ReadIs ==
  ASSUME Typed, NEW t \in Turn, NEW id \in Id, Read(t, id)
  PROVE  /\ turn[t].phase = "new" /\ mem[id] \in Record
         /\ \A u \in Turn : ~(InFlight(turn[u]) /\ turn[u].id = id)
         /\ \A u \in 1..(t - 1) : turn[u].phase # "new"
         /\ \E b \in Actor :
              /\ b.phase = "read" /\ b.id = id /\ b.copy = mem[id] /\ b.sync /\ b.seen
              /\ OnlyTurn(t, b)
         /\ UNCHANGED <<mem, disk, live, cache, job, saved, stale, crashes>>
<1>. DEFINE b == [Idle EXCEPT !.phase = "read", !.id = id, !.copy = mem[id]]
<1>1. /\ turn[t].phase = "new" /\ Exists(id)
      /\ \A u \in Turn : ~(InFlight(turn[u]) /\ turn[u].id = id)
      /\ \A u \in 1..(t - 1) : turn[u].phase # "new"
      /\ turn' = [turn EXCEPT ![t] = b]
      /\ UNCHANGED <<mem, disk, live, edit, cache, job, saved, stale, crashes>>
  BY DEF Read
<1>2. mem[id] \in Record /\ turn \in [Turn -> Actor]
  BY <1>1 DEF Typed, Store, Exists
<1>3. /\ b \in Actor /\ b.phase = "read" /\ b.id = id /\ b.copy = mem[id]
      /\ b.sync /\ b.seen
  BY <1>2, IdleIs DEF Actor, Phases
<1>. HIDE DEF b
<1>4. OnlyTurn(t, b)
  BY <1>1, <1>2, <1>3 DEF OnlyTurn
<1>. QED
  BY <1>1, <1>2, <1>3, <1>4

LEMMA FailIs ==
  ASSUME Typed, NEW t \in Turn, Fail(t)
  PROVE  /\ turn[t].phase = "running" /\ OnlyTurn(t, Done)
         /\ UNCHANGED <<mem, disk, live, cache, job, saved, stale, crashes>>
BY IdleIs DEF Fail, OnlyTurn, Typed

LEMMA GetForEditIs ==
  ASSUME Typed, NEW e \in Edit, NEW id \in Id, GetForEdit(e, id)
  PROVE  /\ edit[e].phase = "new" /\ mem[id] \in Record
         /\ \E c \in Editor :
              /\ c.phase = "read" /\ c.id = id /\ c.copy = mem[id] /\ c.sync
              /\ OnlyEdit(e, c)
         /\ UNCHANGED <<mem, disk, live, cache, job, saved, stale, crashes>>
<1>. DEFINE c == [Idle EXCEPT !.phase = "read", !.id = id, !.copy = mem[id]]
<1>1. /\ edit[e].phase = "new" /\ Exists(id)
      /\ edit' = [edit EXCEPT ![e] = c]
      /\ UNCHANGED <<mem, disk, live, turn, cache, job, saved, stale, crashes>>
  BY DEF GetForEdit
<1>2. mem[id] \in Record /\ edit \in [Edit -> Editor]
  BY <1>1 DEF Typed, Store, Exists
<1>3. c \in Editor /\ c.phase = "read" /\ c.id = id /\ c.copy = mem[id] /\ c.sync
  BY <1>2, IdleIs DEF Editor
<1>. HIDE DEF c
<1>4. OnlyEdit(e, c)
  BY <1>1, <1>2, <1>3 DEF OnlyEdit
<1>. QED
  BY <1>1, <1>2, <1>3, <1>4

LEMMA CompactionFailsIs ==
  ASSUME Typed, NEW e \in Edit, CompactionFails(e)
  PROVE  /\ edit[e].phase = "read" /\ OnlyEdit(e, Done)
         /\ UNCHANGED <<mem, disk, live, cache, job, saved, stale, crashes>>
BY IdleIs DEF CompactionFails, OnlyEdit, Typed

LEMMA RefreshEndsIs ==
  ASSUME Typed, NEW id \in Id, RefreshEnds(id)
  PROVE  /\ cache' \in [Id -> Summary] /\ cache'[id] \in {cache[id], job[id]}
         /\ \A x \in Id : x # id => cache'[x] = cache[x]
         /\ job' = [job EXCEPT ![id] = NoSummary]
         /\ UNCHANGED <<mem, disk, live, turn, edit, saved, stale, crashes>>
<1>1. job[id] \in Summary
  BY DEF Typed
<1>2. StoreSummary(id, job[id]) \/ UNCHANGED cache
  BY DEF RefreshEnds
<1>. QED
  BY <1>1, <1>2, StoreSummaryIs DEF RefreshEnds

LEMMA RestartIs ==
  ASSUME Typed, Restart
  PROVE  /\ mem' = disk /\ disk' = disk /\ live' = [id \in Id |-> None] /\ saved' = TRUE
         /\ cache' = [id \in Id |-> NoSummary] /\ job' = [id \in Id |-> NoSummary]
         /\ stale' = stale /\ crashes' \in 0..MaxCrashes /\ crashes' # crashes
         /\ turn' \in [Turn -> Actor] /\ edit' \in [Edit -> Editor]
         /\ \A t \in Turn : /\ turn'[t] \in {Done, turn[t]} /\ ~InFlight(turn'[t])
                            /\ turn'[t].phase = "new" => turn[t].phase = "new"
         /\ \A e \in Edit : edit'[e] \in {Done, edit[e]} /\ ~InFlight(edit'[e])
<1>1. \A t \in Turn : turn[t] \in Actor
  BY DEF Typed
<1>2. \A e \in Edit : edit[e] \in Editor
  BY DEF Typed
<1>3. /\ turn' = [t \in Turn |-> IF Ends(turn[t]) THEN Done ELSE turn[t]]
      /\ edit' = [e \in Edit |-> IF Ends(edit[e]) THEN Done ELSE edit[e]]
  BY DEF Restart
<1>4. /\ \A t \in Turn : ~Ends(turn[t]) => ~InFlight(turn[t])
      /\ \A e \in Edit : ~Ends(edit[e]) => ~InFlight(edit[e])
  BY DEF Ends
<1>5. /\ turn' \in [Turn -> Actor]
      /\ \A t \in Turn : /\ turn'[t] \in {Done, turn[t]} /\ ~InFlight(turn'[t])
                         /\ turn'[t].phase = "new" => turn[t].phase = "new"
  BY <1>1, <1>3, <1>4, IdleIs
<1>6. /\ edit' \in [Edit -> Editor]
      /\ \A e \in Edit : edit'[e] \in {Done, edit[e]} /\ ~InFlight(edit'[e])
  BY <1>2, <1>3, <1>4, IdleIs
<1>7. crashes' \in 0..MaxCrashes /\ crashes' # crashes
  BY StoreAssumption DEF Restart, Typed
<1>. QED
  BY <1>5, <1>6, <1>7 DEF Restart

-----------------------------------------------------------------------------
(* Types are kept.                                                          *)

LEMMA WrittenIsTyped ==
  ASSUME CopiesExist, NEW id \in Id, NEW rec, NEW owner,
         NEW t \in Turn \cup {None}, NEW b, NEW e \in Edit \cup {None}, NEW c,
         Written(id, rec, owner, t, b, e, c),
         t \in Turn => (InFlight(b) => b.copy \in Record),
         e \in Edit => (InFlight(c) => c.copy \in Record)
  PROVE  /\ mem' \in Store /\ live' \in [Id -> Turn \cup {None}]
         /\ turn' \in [Turn -> Actor] /\ edit' \in [Edit -> Editor] /\ CopiesExist'
<1>1. ASSUME NEW u \in Turn, InFlight(turn'[u]) PROVE turn'[u].copy \in Record
  BY <1>1 DEF Written, Kept, CopiesExist, InFlight
<1>2. ASSUME NEW u \in Edit, InFlight(edit'[u]) PROVE edit'[u].copy \in Record
  BY <1>2 DEF Written, Kept, CopiesExist, InFlight
<1>. QED
  BY <1>1, <1>2 DEF Written, CopiesExist, InFlight

LEMMA OnlyTurnIsTyped ==
  ASSUME CopiesExist, NEW t \in Turn, NEW b, OnlyTurn(t, b), InFlight(b) => b.copy \in Record,
         Typed
  PROVE  turn' \in [Turn -> Actor] /\ edit' \in [Edit -> Editor] /\ CopiesExist'
BY DEF OnlyTurn, CopiesExist, InFlight, Typed

LEMMA OnlyEditIsTyped ==
  ASSUME CopiesExist, NEW e \in Edit, NEW c, OnlyEdit(e, c), InFlight(c) => c.copy \in Record,
         Typed
  PROVE  turn' \in [Turn -> Actor] /\ edit' \in [Edit -> Editor] /\ CopiesExist'
BY DEF OnlyEdit, CopiesExist, InFlight, Typed

LEMMA TypedInit == Init => Typed /\ CopiesExist
<1>. SUFFICES ASSUME Init PROVE Typed /\ CopiesExist
  OBVIOUS
<1>1. \A id \in Id : PastOf(id) \in Seq(Entry)
  <2>1. /\ PastWeb \in Nat /\ Past - PastWeb \in Nat
        /\ \A i \in 1..PastWeb : i \in Turn
        /\ \A i \in 1..(Past - PastWeb) : PastWeb + i \in Turn
    BY StoreAssumption DEF Turn
  <2>2. [i \in 1..(Past - PastWeb) |-> Answered(PastWeb + i)] \in [1..(Past - PastWeb) -> Entry]
    BY <2>1 DEF Answered, Entry
  <2>3. [i \in 1..PastWeb |-> Answered(i)] \in [1..PastWeb -> Entry]
    BY <2>1 DEF Answered, Entry
  <2>4. ASSUME NEW n \in Nat, NEW f \in [1..n -> Entry] PROVE f \in Seq(Entry)
    BY SeqDef
  <2>5. /\ [i \in 1..(Past - PastWeb) |-> Answered(PastWeb + i)] \in Seq(Entry)
        /\ [i \in 1..PastWeb |-> Answered(i)] \in Seq(Entry)
    BY <2>1, <2>2, <2>3, <2>4
  <2>. QED
    BY <2>5 DEF PastOf
<1>2. Folded(NoSummary, 1..PastWeb \cap {1}) \in Summary
  <2>1. 1..PastWeb \cap {1} \in SUBSET Turn
    BY StoreAssumption DEF Turn
  <2>. QED
    BY <2>1, NewRecordIs, FoldedIs
<1>3. \A id \in Id : /\ [NewRecord EXCEPT !.history = PastOf(id)] \in Record
                     /\ [NewRecord EXCEPT !.history = PastOf(id),
                            !.summary = Folded(@, 1..PastWeb \cap {1})] \in Record
  BY <1>1, <1>2, NewRecordIs DEF Record
<1>4. mem \in Store /\ disk \in Store
  BY <1>3 DEF Init, Store
<1>5. turn \in [Turn -> Actor] /\ edit \in [Edit -> Editor]
  BY IdleIs DEF Init
<1>6. CopiesExist
  BY IdleIs DEF Init, CopiesExist
<1>7. 0 \in 0..MaxCrashes
  BY StoreAssumption
<1>. QED
  BY <1>4, <1>5, <1>6, <1>7, NewRecordIs DEF Init, Typed

LEMMA TypedStep == Typed /\ CopiesExist /\ [Next]_vars => Typed' /\ CopiesExist'
<1>. SUFFICES ASSUME Typed, CopiesExist, [Next]_vars PROVE Typed' /\ CopiesExist'
  OBVIOUS
<1>. USE DEF Flushed
<1>1. CASE UNCHANGED vars
  BY <1>1 DEF vars, Typed, CopiesExist, InFlight
<1>2. CASE NewWebConv
  <2>1. /\ NextConvID \in Id /\ Written(NextConvID, NewRecord, None, None, Idle, None, Idle)
        /\ Flushed /\ UNCHANGED <<cache, job, stale, crashes>>
    BY <1>2, NewWebConvIs
  <2>2. /\ mem' \in Store /\ live' \in [Id -> Turn \cup {None}]
        /\ turn' \in [Turn -> Actor] /\ edit' \in [Edit -> Editor] /\ CopiesExist'
    BY <2>1, EditsAre, WrittenIsTyped
  <2>. QED
    BY <2>1, <2>2 DEF Typed
<1>3. ASSUME NEW id \in Id, Delete(id) PROVE Typed' /\ CopiesExist'
  <2>1. /\ Written(id, NoRecord, None, None, Idle, None, Idle)
        /\ Flushed /\ UNCHANGED <<cache, job, stale, crashes>>
    BY <1>3, DeleteIs
  <2>2. /\ mem' \in Store /\ live' \in [Id -> Turn \cup {None}]
        /\ turn' \in [Turn -> Actor] /\ edit' \in [Edit -> Editor] /\ CopiesExist'
    BY <2>1, EditsAre, WrittenIsTyped
  <2>. QED
    BY <2>1, <2>2 DEF Typed
<1>4. ASSUME NEW id \in Id, RefreshEnds(id) PROVE Typed' /\ CopiesExist'
  BY <1>4, RefreshEndsIs, NewRecordIs DEF Typed, CopiesExist, InFlight
<1>5. ASSUME NEW t \in Turn, NEW id \in Id, Read(t, id) PROVE Typed' /\ CopiesExist'
  <2>1. PICK b \in Actor : b.copy = mem[id] /\ OnlyTurn(t, b)
    BY <1>5, ReadIs
  <2>2. mem[id] \in Record /\ UNCHANGED <<mem, disk, live, cache, job, saved, stale, crashes>>
    BY <1>5, ReadIs
  <2>3. turn' \in [Turn -> Actor] /\ edit' \in [Edit -> Editor] /\ CopiesExist'
    BY <2>1, <2>2, OnlyTurnIsTyped
  <2>. QED
    BY <2>2, <2>3 DEF Typed
<1>6. ASSUME NEW t \in Turn, Prepare(t) PROVE Typed' /\ CopiesExist'
  <2>1. turn[t].copy \in Record
    BY <1>6 DEF Prepare, CopiesExist, InFlight
  <2>2. /\ SaveOnly \/ UNCHANGED <<mem, live, disk, saved>>
        /\ turn' \in [Turn -> Actor] /\ \A u \in Turn : u # t => turn'[u] = turn[u]
        /\ job' \in [Id -> Summary] /\ UNCHANGED <<edit, cache, stale, crashes>>
    BY <1>6, <2>1, PrepareIs
  <2>3. /\ mem' = mem /\ live' = live /\ disk' \in Store /\ saved' \in BOOLEAN
    BY <2>2, SaveOnlyIs
  <2>4. PICK s \in Known(t) : turn'[t].copy \in {turn[t].copy, WithSummary(turn[t].copy, s)}
    BY <1>6, <2>1, PrepareIs
  <2>5. s \in Summary
    BY <2>1, BestIsKnown
  <2>6. turn'[t].copy \in Record
    BY <2>1, <2>4, <2>5, WithSummaryIs
  <2>7. CopiesExist'
    BY <2>2, <2>6 DEF CopiesExist, InFlight
  <2>. QED
    BY <2>2, <2>3, <2>7 DEF Typed
<1>7. ASSUME NEW t \in Turn, Summarised(t) PROVE Typed' /\ CopiesExist'
  <2>1. turn[t].copy \in Record
    BY <1>7 DEF Summarised, CopiesExist, InFlight
  <2>2. /\ turn' \in [Turn -> Actor] /\ \A u \in Turn : u # t => turn'[u] = turn[u]
        /\ cache' \in [Id -> Summary]
        /\ UNCHANGED <<mem, disk, live, edit, job, saved, stale, crashes>>
    BY <1>7, <2>1, SummarisedIs
  <2>3. PICK s \in MadeOf(Known(t), turn[t].copy.history) :
          turn'[t].copy = WithSummary(turn[t].copy, s)
    BY <1>7, <2>1, SummarisedIs
  <2>4. Known(t) \in SUBSET Summary /\ turn[t].copy.history \in Seq(Entry)
    BY <2>1, BestIsKnown, RecordIs
  <2>5. s \in Summary
    BY <2>4, MadeOfIs
  <2>6. turn'[t].copy \in Record
    BY <2>1, <2>3, <2>5, WithSummaryIs
  <2>7. CopiesExist'
    BY <2>2, <2>6 DEF CopiesExist, InFlight
  <2>. QED
    BY <2>2, <2>7 DEF Typed
<1>8. ASSUME NEW t \in Turn, SavePending(t) PROVE Typed' /\ CopiesExist'
  <2>1. /\ turn[t].id \in Id /\ turn[t].copy \in Record /\ Flushed
        /\ UNCHANGED <<cache, job, stale, crashes>>
    BY <1>8, SavePendingIs
  <2>2. PICK b \in Actor :
          /\ Written(turn[t].id, WithPrompt(turn[t].copy, t), t, t, b, None, Idle)
          /\ b.copy = WithPrompt(turn[t].copy, t)
    BY <1>8, SavePendingIs
  <2>3. b.copy \in Record
    BY <2>1, <2>2, WithPromptIs
  <2>4. /\ mem' \in Store /\ live' \in [Id -> Turn \cup {None}]
        /\ turn' \in [Turn -> Actor] /\ edit' \in [Edit -> Editor] /\ CopiesExist'
    BY <2>1, <2>2, <2>3, EditsAre, WrittenIsTyped
  <2>. QED
    BY <2>1, <2>4 DEF Typed
<1>9. ASSUME NEW t \in Turn, Answer(t) PROVE Typed' /\ CopiesExist'
  <2>1. /\ turn[t].id \in Id /\ turn[t].copy \in Record
        /\ UNCHANGED <<disk, live, cache, job, saved, stale, crashes>>
    BY <1>9, AnswerIs
  <2>2. PICK p \in Pin \cup {Unset}, b \in Actor :
          /\ b.copy = WithAnswer(turn[t].copy, t, cache[turn[t].id], p)
          /\ \/ Written(turn[t].id, b.copy, t, t, b, None, Idle)
             \/ OnlyTurn(t, b) /\ UNCHANGED mem
    BY <1>9, AnswerIs
  <2>3. b.copy \in Record
    <3>1. cache[turn[t].id] \in Summary
      BY <2>1 DEF Typed
    <3>. QED
      BY <2>1, <2>2, <3>1, WithAnswerIs
  <2>4. CASE Written(turn[t].id, b.copy, t, t, b, None, Idle)
    <3>1. /\ mem' \in Store /\ live' \in [Id -> Turn \cup {None}]
          /\ turn' \in [Turn -> Actor] /\ edit' \in [Edit -> Editor] /\ CopiesExist'
      BY <2>1, <2>3, <2>4, EditsAre, WrittenIsTyped
    <3>. QED
      BY <2>1, <3>1 DEF Typed
  <2>5. CASE OnlyTurn(t, b) /\ UNCHANGED mem
    <3>1. turn' \in [Turn -> Actor] /\ edit' \in [Edit -> Editor] /\ CopiesExist'
      BY <2>3, <2>5, OnlyTurnIsTyped
    <3>. QED
      BY <2>1, <2>5, <3>1 DEF Typed
  <2>. QED
    BY <2>2, <2>4, <2>5
<1>10. ASSUME NEW t \in Turn, Fail(t) PROVE Typed' /\ CopiesExist'
  <2>1. OnlyTurn(t, Done) /\ UNCHANGED <<mem, disk, live, cache, job, saved, stale, crashes>>
    BY <1>10, FailIs
  <2>2. turn' \in [Turn -> Actor] /\ edit' \in [Edit -> Editor] /\ CopiesExist'
    BY <2>1, IdleIs, OnlyTurnIsTyped
  <2>. QED
    BY <2>1, <2>2 DEF Typed
<1>11. ASSUME NEW t \in Turn, SaveAnswer(t) PROVE Typed' /\ CopiesExist'
  <2>1. /\ turn[t].id \in Id /\ turn[t].copy \in Record /\ Flushed
        /\ UNCHANGED <<cache, job, stale, crashes>>
    BY <1>11, SaveAnswerIs
  <2>2. PICK b \in Actor : /\ Written(turn[t].id, turn[t].copy, t, t, b, None, Idle)
                           /\ b.copy = turn[t].copy
    BY <1>11, SaveAnswerIs
  <2>3. /\ mem' \in Store /\ live' \in [Id -> Turn \cup {None}]
        /\ turn' \in [Turn -> Actor] /\ edit' \in [Edit -> Editor] /\ CopiesExist'
    BY <2>1, <2>2, EditsAre, WrittenIsTyped
  <2>. QED
    BY <2>1, <2>3 DEF Typed
<1>12. ASSUME NEW t \in Turn, EndTurn(t) PROVE Typed' /\ CopiesExist'
  <2>1. /\ SaveOnly \/ UNCHANGED <<mem, live, disk, saved>>
        /\ OnlyTurn(t, Done) /\ job' \in [Id -> Summary] /\ UNCHANGED <<cache, stale, crashes>>
    BY <1>12, EndTurnIs
  <2>2. turn' \in [Turn -> Actor] /\ edit' \in [Edit -> Editor] /\ CopiesExist'
    BY <2>1, IdleIs, OnlyTurnIsTyped
  <2>3. /\ mem' = mem /\ live' = live /\ disk' \in Store /\ saved' \in BOOLEAN
    BY <2>1, SaveOnlyIs
  <2>. QED
    BY <2>1, <2>2, <2>3 DEF Typed
<1>13. ASSUME NEW e \in Edit, NEW id \in Id, GetForEdit(e, id) PROVE Typed' /\ CopiesExist'
  <2>1. PICK c \in Editor : c.copy = mem[id] /\ OnlyEdit(e, c)
    BY <1>13, GetForEditIs
  <2>2. mem[id] \in Record /\ UNCHANGED <<mem, disk, live, cache, job, saved, stale, crashes>>
    BY <1>13, GetForEditIs
  <2>3. turn' \in [Turn -> Actor] /\ edit' \in [Edit -> Editor] /\ CopiesExist'
    BY <2>1, <2>2, OnlyEditIsTyped
  <2>. QED
    BY <2>2, <2>3 DEF Typed
<1>14. ASSUME NEW e \in Edit, PutEdit(e) PROVE Typed' /\ CopiesExist'
  <2>1. /\ edit[e].id \in Id
        /\ Written(edit[e].id, Edited(edit[e].copy, e), None, None, Idle, e, Done) /\ Flushed
        /\ stale' = (stale \/ ~edit[e].sync) /\ UNCHANGED <<cache, job, crashes>>
    BY <1>14, PutEditIs
  <2>2. /\ mem' \in Store /\ live' \in [Id -> Turn \cup {None}]
        /\ turn' \in [Turn -> Actor] /\ edit' \in [Edit -> Editor] /\ CopiesExist'
    BY <2>1, EditsAre, IdleIs, WrittenIsTyped
  <2>3. stale' \in BOOLEAN
    BY <2>1
  <2>. QED
    BY <2>1, <2>2, <2>3 DEF Typed
<1>15. ASSUME NEW e \in Edit, CompactionFails(e) PROVE Typed' /\ CopiesExist'
  <2>1. OnlyEdit(e, Done) /\ UNCHANGED <<mem, disk, live, cache, job, saved, stale, crashes>>
    BY <1>15, CompactionFailsIs
  <2>2. turn' \in [Turn -> Actor] /\ edit' \in [Edit -> Editor] /\ CopiesExist'
    BY <2>1, IdleIs, OnlyEditIsTyped
  <2>. QED
    BY <2>1, <2>2 DEF Typed
<1>16. CASE Restart
  <2>1. CopiesExist'
    BY <1>16, RestartIs DEF CopiesExist
  <2>2. live' \in [Id -> Turn \cup {None}]
    BY <1>16, RestartIs
  <2>3. cache' \in [Id -> Summary] /\ job' \in [Id -> Summary]
    BY <1>16, RestartIs, NewRecordIs
  <2>. QED
    BY <1>16, <2>1, <2>2, <2>3, RestartIs DEF Typed
<1>. QED
  BY <1>1, <1>2, <1>3, <1>4, <1>5, <1>6, <1>7, <1>8, <1>9, <1>10, <1>11, <1>12, <1>13,
     <1>14, <1>15, <1>16 DEF Next, TurnStep, EditStep

-----------------------------------------------------------------------------
(* The order of turns.  A turn is ahead of a conversation if it has not     *)
(* written a prompt there and still may.  Whatever is known of the          *)
(* conversation is older than that.                                         *)

InMemory(a) == a.phase \in {"read", "summing", "ready"}

Ahead(turns, id) ==
    {v \in Turn : turns[v].phase = "new" \/ (InMemory(turns[v]) /\ turns[v].id = id)}

Fine(rec, U) ==
    rec # NoRecord =>
        /\ Ascending(rec.history)
        /\ \A u \in TurnsIn(rec.history) : Early(U, u)
        /\ Early(U, rec.summary.upTo)

AllFine ==
    /\ \A x \in Id : Fine(mem[x], Ahead(turn, x)) /\ Fine(disk[x], Ahead(turn, x))
    /\ \A x \in Id : Early(Ahead(turn, x), cache[x].upTo) /\ Early(Ahead(turn, x), job[x].upTo)
    /\ \A t \in Turn : InFlight(turn[t]) => Fine(turn[t].copy, Ahead(turn, turn[t].id))
    /\ \A e \in Edit : InFlight(edit[e]) => Fine(edit[e].copy, Ahead(turn, edit[e].id))

(* A conversation has one turn at work.                                     *)
OneTurn ==
    \A t, u \in Turn :
        InFlight(turn[t]) /\ InFlight(turn[u]) /\ turn[t].id = turn[u].id => t = u

(* Turns begin in their order.                                              *)
InOrder ==
    \A t, u \in Turn : turn[t].phase # "new" /\ turn[u].phase = "new" => t < u

Inv == Typed /\ CopiesExist /\ OneTurn /\ InOrder /\ AllFine

(* All but a's marks stay.                                                  *)
Same(a, b) == b.phase = a.phase /\ b.id = a.id /\ b.copy = a.copy /\ b.told = a.told

(* Only turn t and edit e do a step.                                        *)
Frame(t, e) ==
    /\ \A u \in Turn : u # t => Same(turn[u], turn'[u])
    /\ \A u \in Edit : u # e => Same(edit[u], edit'[u])

(* The turn goes on, or begins on a conversation that has none at work.     *)
Onward(t) ==
    /\ turn'[t].phase = "new" => turn[t].phase = "new"
    /\ turn[t].phase = "new" => \A u \in 1..(t - 1) : turn[u].phase # "new"
    /\ InFlight(turn'[t]) =>
         \/ /\ InFlight(turn[t]) /\ turn'[t].id = turn[t].id
            /\ InMemory(turn'[t]) => InMemory(turn[t])
         \/ /\ turn[t].phase = "new"
            /\ \A u \in Turn : ~(InFlight(turn[u]) /\ turn[u].id = turn'[t].id)

LEMMA FineLess ==
  ASSUME NEW rec, NEW U, NEW V \in SUBSET U, Fine(rec, U)
  PROVE  Fine(rec, V)
BY DEF Fine, Early

LEMMA AheadStep ==
  ASSUME NEW t, t \in Turn => Onward(t), NEW e, Frame(t, e)
  PROVE  \A x : Ahead(turn', x) \in SUBSET Ahead(turn, x)
<1>. SUFFICES ASSUME NEW x, NEW v \in Turn, v \in Ahead(turn', x)
              PROVE  v \in Ahead(turn, x)
  BY DEF Ahead
<1>1. CASE v = t
  BY <1>1 DEF Ahead, Onward, InMemory, InFlight
<1>2. CASE v # t
  BY <1>2 DEF Ahead, Frame, Same, InMemory
<1>. QED
  BY <1>1, <1>2

LEMMA OneTurnStep ==
  ASSUME OneTurn, NEW t, t \in Turn => Onward(t), NEW e, Frame(t, e)
  PROVE  OneTurn'
<1>. SUFFICES ASSUME NEW u \in Turn, NEW v \in Turn, InFlight(turn'[u]), InFlight(turn'[v]),
                     turn'[u].id = turn'[v].id, u # v
              PROVE  FALSE
  BY DEF OneTurn, InFlight
<1>1. \A w \in Turn : w # t => /\ InFlight(turn'[w]) <=> InFlight(turn[w])
                               /\ turn'[w].id = turn[w].id
  BY DEF Frame, Same, InFlight
<1>2. CASE u = t
  BY <1>1, <1>2 DEF Onward, OneTurn
<1>3. CASE v = t
  BY <1>1, <1>3 DEF Onward, OneTurn
<1>4. CASE u # t /\ v # t
  BY <1>1, <1>4 DEF OneTurn
<1>. QED
  BY <1>2, <1>3, <1>4

LEMMA InOrderStep ==
  ASSUME InOrder, NEW t, t \in Turn => Onward(t), NEW e, Frame(t, e)
  PROVE  InOrder'
<1>. SUFFICES ASSUME NEW u \in Turn, NEW v \in Turn,
                     turn'[u].phase # "new", turn'[v].phase = "new"
              PROVE  u < v
  BY DEF InOrder
<1>1. turn[v].phase = "new"
  BY DEF Frame, Same, Onward
<1>2. CASE turn[u].phase # "new"
  BY <1>1, <1>2 DEF InOrder
<1>3. CASE turn[u].phase = "new"
  <2>1. u = t /\ u # v
    BY <1>3 DEF Frame, Same
  <2>2. v \notin 1..(u - 1)
    BY <1>1, <1>3, <2>1 DEF Onward
  <2>. QED
    BY <2>1, <2>2, StoreAssumption DEF Turn
<1>. QED
  BY <1>2, <1>3

(* What a step has to show to keep the order.                               *)
LEMMA FineStep ==
  ASSUME AllFine, Typed, NEW t, t \in Turn => Onward(t), NEW e, Frame(t, e),
         NEW id \in Id, NEW rec, mem'[id] \in {mem[id], rec},
         \A x \in Id : x # id => mem'[x] = mem[x],
         \A x \in Id : disk'[x] \in {disk[x], mem'[x]},
         Fine(rec, Ahead(turn', id)),
         t \in Turn => (InFlight(turn'[t]) => Fine(turn'[t].copy, Ahead(turn', turn'[t].id))),
         e \in Edit => (InFlight(edit'[e]) => Fine(edit'[e].copy, Ahead(turn', edit'[e].id))),
         \A x \in Id : Early(Ahead(turn, x), cache'[x].upTo) /\ Early(Ahead(turn, x), job'[x].upTo)
  PROVE  AllFine'
<1>1. \A x : Ahead(turn', x) \in SUBSET Ahead(turn, x)
  BY AheadStep
<1>2. \A x, q : Fine(q, Ahead(turn, x)) => Fine(q, Ahead(turn', x))
  BY <1>1, FineLess
<1>3. \A x \in Id : Fine(mem'[x], Ahead(turn', x))
  BY <1>2 DEF AllFine
<1>4. \A x \in Id : Fine(disk'[x], Ahead(turn', x))
  BY <1>2, <1>3 DEF AllFine
<1>5. \A x \in Id : /\ Early(Ahead(turn', x), cache'[x].upTo)
                    /\ Early(Ahead(turn', x), job'[x].upTo)
  BY <1>1 DEF Early
<1>6. ASSUME NEW u \in Turn, InFlight(turn'[u])
      PROVE  Fine(turn'[u].copy, Ahead(turn', turn'[u].id))
  <2>1. CASE u = t
    BY <1>6, <2>1
  <2>2. CASE u # t
    <3>1. turn'[u].copy = turn[u].copy /\ turn'[u].id = turn[u].id /\ InFlight(turn[u])
      BY <1>6, <2>2 DEF Frame, Same, InFlight
    <3>2. Fine(turn[u].copy, Ahead(turn, turn[u].id))
      BY <3>1 DEF AllFine
    <3>. QED
      BY <1>2, <3>1, <3>2
  <2>. QED
    BY <2>1, <2>2
<1>7. ASSUME NEW u \in Edit, InFlight(edit'[u])
      PROVE  Fine(edit'[u].copy, Ahead(turn', edit'[u].id))
  <2>1. CASE u = e
    BY <1>7, <2>1
  <2>2. CASE u # e
    <3>1. edit'[u].copy = edit[u].copy /\ edit'[u].id = edit[u].id /\ InFlight(edit[u])
      BY <1>7, <2>2 DEF Frame, Same, InFlight
    <3>2. Fine(edit[u].copy, Ahead(turn, edit[u].id))
      BY <3>1 DEF AllFine
    <3>. QED
      BY <1>2, <3>1, <3>2
  <2>. QED
    BY <2>1, <2>2
<1>. QED
  BY <1>3, <1>4, <1>5, <1>6, <1>7 DEF AllFine, InFlight

LEMMA AheadIsLater == \A x : \A v \in Ahead(turn, x) : v \in Turn /\ 0 < v
BY StoreAssumption DEF Ahead, Turn

LEMMA FineRecords ==
  ASSUME NEW U \in SUBSET Turn
  PROVE  /\ Early(U, NoSummary.upTo) /\ Fine(NoRecord, U) /\ Fine(NewRecord, U)
         /\ \A r \in Record, e \in Edit : Fine(r, U) => Fine(Edited(r, e), U)
         /\ \A r \in Record, s \in Summary :
              Fine(r, U) /\ Early(U, s.upTo) => Fine(WithSummary(r, s), U)
         /\ \A r \in Record, t \in Turn, s \in Summary, p \in Pin \cup {Unset} :
              Fine(r, U) /\ Early(U, s.upTo) => Fine(WithAnswer(r, t, s, p), U)
<1>1. \A v \in U : 0 < v
  BY StoreAssumption DEF Turn
<1>2. Early(U, NoSummary.upTo)
  BY <1>1 DEF Early, NoSummary
<1>3. TurnsIn(<<>>) = {} /\ Ascending(<<>>)
  BY NewRecordIs DEF Ascending
<1>4. Fine(NoRecord, U) /\ Fine(NewRecord, U)
  BY <1>2, <1>3, NewRecordIs DEF Fine
<1>5. ASSUME NEW r \in Record, NEW e \in Edit, Fine(r, U) PROVE Fine(Edited(r, e), U)
  <2>1. /\ r # NoRecord /\ Edited(r, e).summary = r.summary
        /\ Edited(r, e).history \in {r.history, <<>>}
    BY EditedIs, NoRecordIsNone
  <2>. QED
    BY <1>3, <1>5, <2>1 DEF Fine
<1>6. ASSUME NEW r \in Record, NEW s \in Summary, Fine(r, U), Early(U, s.upTo)
      PROVE  Fine(WithSummary(r, s), U)
  <2>1. /\ r # NoRecord /\ WithSummary(r, s).summary = s
        /\ WithSummary(r, s).history = r.history
    BY WithSummaryIs, NoRecordIsNone
  <2>. QED
    BY <1>6, <2>1 DEF Fine
<1>7. ASSUME NEW r \in Record, NEW t \in Turn, NEW s \in Summary, NEW p \in Pin \cup {Unset},
             Fine(r, U), Early(U, s.upTo)
      PROVE  Fine(WithAnswer(r, t, s, p), U)
  <2>1. /\ r # NoRecord /\ WithAnswer(r, t, s, p).summary \in {s, r.summary}
        /\ WithAnswer(r, t, s, p).history = RecordCompletedTurn(r.history, t)
    BY WithAnswerIs, NoRecordIsNone
  <2>2. /\ TurnsIn(RecordCompletedTurn(r.history, t)) = TurnsIn(r.history)
        /\ Ascending(r.history) => Ascending(RecordCompletedTurn(r.history, t))
    BY Recorded, RecordIs
  <2>. QED
    BY <1>7, <2>1, <2>2 DEF Fine
<1>. QED
  BY <1>2, <1>4, <1>5, <1>6, <1>7

LEMMA FinePrompt ==
  ASSUME NEW U \in SUBSET Turn, NEW V \in SUBSET U, NEW t \in U, Early(V, t),
         NEW r \in Record, Fine(r, U)
  PROVE  Fine(WithPrompt(r, t), V)
<1>1. /\ r # NoRecord /\ WithPrompt(r, t).summary = r.summary
      /\ WithPrompt(r, t).history = Append(r.history, Prompt(t)) /\ r.history \in Seq(Entry)
  BY WithPromptIs, NoRecordIsNone, RecordIs
<1>2. \A u \in TurnsIn(r.history) : u < t /\ Early(V, u)
  BY <1>1 DEF Fine, Early
<1>3. /\ TurnsIn(WithPrompt(r, t).history) = TurnsIn(r.history) \cup {t}
      /\ Ascending(WithPrompt(r, t).history)
  BY <1>1, <1>2, Prompted DEF Fine
<1>4. Early(V, r.summary.upTo)
  BY <1>1 DEF Fine, Early
<1>. QED
  BY <1>1, <1>2, <1>3, <1>4 DEF Fine

LEMMA WrittenFrame ==
  ASSUME NEW id, NEW rec, NEW owner, NEW t, NEW b, NEW e, NEW c,
         Written(id, rec, owner, t, b, e, c)
  PROVE  /\ Frame(t, e) /\ mem'[id] = rec
         /\ \A x \in Id : x # id => mem'[x] = mem[x]
         /\ t \in Turn => turn'[t] = b
         /\ e \in Edit => edit'[e] = c
BY DEF Written, Frame, Kept, Same

(* What a turn at work knows is older than all that is ahead.               *)
LEMMA CopyIsFine ==
  ASSUME Inv, NEW t \in Turn, InFlight(turn[t])
  PROVE  /\ turn[t].id \in Id /\ turn[t].copy \in Record /\ turn[t].copy # NoRecord
         /\ turn[t].copy.history \in Seq(Entry) /\ turn[t].copy.summary \in Summary
         /\ cache[turn[t].id] \in Summary /\ job[turn[t].id] \in Summary
         /\ Fine(turn[t].copy, Ahead(turn, turn[t].id))
         /\ \A s \in MadeOf(Known(t), turn[t].copy.history) :
              s \in Summary /\ Early(Ahead(turn, turn[t].id), s.upTo)
<1>. DEFINE id == turn[t].id
            rec == turn[t].copy
            U == Ahead(turn, id)
<1>1. id \in Id /\ rec \in Record
  BY DEF Inv, Typed, Actor, CopiesExist
<1>2. rec # NoRecord /\ rec.history \in Seq(Entry) /\ rec.summary \in Summary
  BY <1>1, NoRecordIsNone, RecordIs
<1>3. cache[id] \in Summary /\ job[id] \in Summary
  BY <1>1 DEF Inv, Typed
<1>4. Fine(rec, U)
  BY DEF Inv, AllFine
<1>5. ASSUME NEW s \in MadeOf(Known(t), rec.history) PROVE s \in Summary /\ Early(U, s.upTo)
  <2>1. Known(t) \in SUBSET Summary
    BY <1>2, <1>3 DEF Known
  <2>2. /\ \A k \in Known(t) : Early(U, k.upTo)
        /\ \A u \in TurnsIn(rec.history) : Early(U, u)
    BY <1>1, <1>2, <1>4 DEF Known, Fine, Inv, AllFine
  <2>. QED
    BY <1>2, <2>1, <2>2, MadeOfIs
<1>. QED
  BY <1>1, <1>2, <1>3, <1>4, <1>5

LEMMA CacheIsFine ==
  ASSUME Inv, NEW x \in Id
  PROVE  Early(Ahead(turn, x), cache[x].upTo) /\ Early(Ahead(turn, x), job[x].upTo)
BY DEF Inv, AllFine

LEMMA InvBy ==
  ASSUME Inv, [Next]_vars, NEW t, t \in Turn => Onward(t), NEW e, Frame(t, e),
         NEW id \in Id, NEW rec, mem'[id] \in {mem[id], rec},
         \A x \in Id : x # id => mem'[x] = mem[x],
         \A x \in Id : disk'[x] \in {disk[x], mem'[x]},
         Fine(rec, Ahead(turn', id)),
         t \in Turn => (InFlight(turn'[t]) => Fine(turn'[t].copy, Ahead(turn', turn'[t].id))),
         e \in Edit => (InFlight(edit'[e]) => Fine(edit'[e].copy, Ahead(turn', edit'[e].id))),
         \A x \in Id : Early(Ahead(turn, x), cache'[x].upTo) /\ Early(Ahead(turn, x), job'[x].upTo)
  PROVE  Inv'
<1>1. Typed' /\ CopiesExist'
  BY TypedStep DEF Inv
<1>2. OneTurn'
  BY OneTurnStep DEF Inv
<1>3. InOrder'
  BY InOrderStep DEF Inv
<1>4. AllFine'
  <2>1. AllFine /\ Typed
    BY DEF Inv
  <2>. QED
    BY <2>1, FineStep
<1>. QED
  BY <1>1, <1>2, <1>3, <1>4 DEF Inv

LEMMA AheadIsOfTurns == \A x : Ahead(turn, x) \in SUBSET Turn /\ Ahead(turn', x) \in SUBSET Turn
BY DEF Ahead

LEMMA InvInit == Init => Inv
<1>. SUFFICES ASSUME Init PROVE Inv
  OBVIOUS
<1>1. Typed /\ CopiesExist
  BY TypedInit
<1>2. \A t \in Turn : turn[t] = IF t <= Past THEN Done ELSE Idle
  BY DEF Init
<1>3. \A t \in Turn : ~InFlight(turn[t]) /\ (turn[t].phase = "new" <=> ~(t <= Past))
  BY <1>2, IdleIs
<1>4. OneTurn
  BY <1>3 DEF OneTurn
<1>5. InOrder
  BY <1>3, StoreAssumption DEF InOrder, Turn
<1>6. \A x : \A v \in Ahead(turn, x) : v \in Turn /\ ~(v <= Past)
  BY <1>3 DEF Ahead, InMemory, InFlight
<1>7. \A x, n : n \in 0..Past => Early(Ahead(turn, x), n)
  BY <1>6, StoreAssumption DEF Early, Turn
<1>8. ASSUME NEW id \in Id
      PROVE  /\ PastOf(id) \in Seq(Entry)
             /\ Ascending(PastOf(id)) /\ \A u \in TurnsIn(PastOf(id)) : u \in 0..Past
  <2>1. /\ PastWeb \in Nat /\ Past \in Nat /\ Past - PastWeb \in Nat /\ PastWeb <= Past
        /\ \A i \in 1..PastWeb : i \in Turn
        /\ \A i \in 1..(Past - PastWeb) : PastWeb + i \in Turn
    BY StoreAssumption DEF Turn
  <2>2. ASSUME NEW n \in Nat, NEW k \in Nat, \A i \in 1..n : k + i \in Turn, k + n <= Past,
               NEW h, h = [i \in 1..n |-> Answered(k + i)]
        PROVE  h \in Seq(Entry) /\ Ascending(h) /\ \A u \in TurnsIn(h) : u \in 0..Past
    <3>1. h \in [1..n -> Entry]
      BY <2>2 DEF Answered, Entry
    <3>2. DOMAIN h = 1..n /\ \A i \in 1..n : h[i].turn = k + i
      BY <2>2 DEF Answered
    <3>3. h \in Seq(Entry)
      BY <3>1, SeqDef
    <3>4. Ascending(h)
      BY <3>2 DEF Ascending
    <3>5. \A i \in 1..n : k + i \in 0..Past
      BY <2>1, <2>2
    <3>6. \A u \in TurnsIn(h) : u \in 0..Past
      BY <3>2, <3>5 DEF TurnsIn
    <3>. QED
      BY <3>3, <3>4, <3>6
  <2>3. CASE id = Telegram
    <3>1. PastOf(id) = [i \in 1..(Past - PastWeb) |-> Answered(PastWeb + i)]
      BY <2>3 DEF PastOf
    <3>2. PastWeb + (Past - PastWeb) <= Past
      BY <2>1
    <3>. QED
      BY <2>1, <2>2, <3>1, <3>2
  <2>4. CASE id # Telegram
    <3>1. PastOf(id) = [i \in 1..PastWeb |-> Answered(0 + i)]
      BY <2>1, <2>4 DEF PastOf
    <3>. QED
      BY <2>1, <2>2, <3>1
  <2>. QED
    BY <2>3, <2>4
<1>9. ASSUME NEW id \in Id PROVE Fine(mem[id], Ahead(turn, id))
  <2>. DEFINE U == Ahead(turn, id)
              first == Folded(NoSummary, 1..PastWeb \cap {1})
  <2>1. U \in SUBSET Turn /\ Early(U, NoSummary.upTo)
    BY AheadIsOfTurns, <1>7, StoreAssumption DEF NoSummary
  <2>2. \A u \in TurnsIn(PastOf(id)) : Early(U, u)
    BY <1>7, <1>8
  <2>3. first \in Summary /\ Early(U, first.upTo)
    <3>1. 1..PastWeb \cap {1} \in SUBSET Turn /\ \A p \in 1..PastWeb \cap {1} : p \in 0..Past
      BY StoreAssumption DEF Turn
    <3>2. \A p \in 1..PastWeb \cap {1} : Early(U, p)
      BY <1>7, <3>1
    <3>. QED
      BY <2>1, <3>1, <3>2, NewRecordIs, FoldedIs, FoldedEarly
  <2>. HIDE DEF first, U
  <2>4. ASSUME NEW s \in {NoSummary, first}, NEW r \in Record, r.history = PastOf(id), r.summary = s
        PROVE  Fine(r, U)
    BY <1>8, <2>1, <2>2, <2>3, <2>4 DEF Fine
  <2>5. CASE id = Telegram
    <3>1. id # 1
      BY <2>5 DEF Telegram
    <3>2. mem[id] \in Record /\ mem[id].history = PastOf(id) /\ mem[id].summary = NoSummary
      BY <1>8, <2>5, <3>1, NewRecordIs DEF Init, Record
    <3>. QED
      BY <2>4, <3>2 DEF U
  <2>6. CASE id = 1
    <3>1. id # Telegram
      BY <2>6 DEF Telegram
    <3>2. mem[id] = [NewRecord EXCEPT !.history = PastOf(id),
                                      !.summary = Folded(@, 1..PastWeb \cap {1})]
      BY <2>6, <3>1, Zenon DEF Init
    <3>3. mem[id] \in Record /\ mem[id].history = PastOf(id) /\ mem[id].summary = first
      BY <1>8, <2>3, <3>2, NewRecordIs DEF Record, first
    <3>. QED
      BY <2>4, <3>3 DEF U
  <2>7. CASE id # Telegram /\ id # 1
    <3>1. mem[id] = NoRecord
      BY <2>7 DEF Init
    <3>. QED
      BY <3>1, AheadIsOfTurns, FineRecords
  <2>. QED
    BY <2>5, <2>6, <2>7
<1>10. AllFine
  <2>1. /\ disk = mem /\ \A e \in Edit : ~InFlight(edit[e])
        /\ \A x \in Id : cache[x] = NoSummary /\ job[x] = NoSummary
    BY IdleIs DEF Init
  <2>2. \A x : Early(Ahead(turn, x), NoSummary.upTo)
    BY AheadIsOfTurns, FineRecords
  <2>. QED
    BY <1>3, <1>9, <2>1, <2>2 DEF AllFine
<1>. QED
  BY <1>1, <1>4, <1>5, <1>10 DEF Inv

LEMMA InvStep == Inv /\ [Next]_vars => Inv'
<1>. SUFFICES ASSUME Inv, [Next]_vars PROVE Inv'
  OBVIOUS
<1>0. /\ Typed /\ CopiesExist /\ None \notin Turn /\ None \notin Edit
      /\ \A x : Ahead(turn, x) \in SUBSET Turn /\ Ahead(turn', x) \in SUBSET Turn
      /\ \A x \in Id : /\ Early(Ahead(turn, x), cache[x].upTo)
                       /\ Early(Ahead(turn, x), job[x].upTo)
                       /\ Fine(mem[x], Ahead(turn, x))
  BY EditsAre, AheadIsOfTurns DEF Inv, AllFine
<1>1. CASE UNCHANGED vars
  BY <1>1 DEF vars, Inv, Typed, CopiesExist, OneTurn, InOrder, AllFine, InFlight, Ahead
(* Nobody who is at work writes rec: a new conversation, a deletion.        *)
<1>2. ASSUME NEW id \in Id, NEW rec \in {NewRecord, NoRecord},
             Written(id, rec, None, None, Idle, None, Idle), Flushed,
             UNCHANGED <<cache, job>>
      PROVE  Inv'
  <2>1. /\ Frame(None, None) /\ mem'[id] = rec
        /\ \A x \in Id : x # id => mem'[x] = mem[x]
    BY <1>2, WrittenFrame
  <2>2. Fine(rec, Ahead(turn', id))
    BY <1>0, <1>2, FineRecords
  <2>3. \A x \in Id : disk'[x] \in {disk[x], mem'[x]}
    BY <1>2 DEF Flushed
  <2>. QED
    BY <1>0, <1>2, <2>1, <2>2, <2>3, InvBy
<1>3. ASSUME NEW id \in Id, RefreshEnds(id) PROVE Inv'
  <2>1. /\ Frame(None, None) /\ mem' = mem /\ disk' = disk
    BY <1>0, <1>3, RefreshEndsIs DEF Frame, Same
  <2>2. ASSUME NEW x \in Id
        PROVE  Early(Ahead(turn, x), cache'[x].upTo) /\ Early(Ahead(turn, x), job'[x].upTo)
    <3>1. cache'[x] \in {cache[x], job[x]} /\ job'[x] \in {job[x], NoSummary}
      BY <1>0, <1>3, RefreshEndsIs DEF Typed
    <3>2. Early(Ahead(turn, x), NoSummary.upTo)
      BY <1>0, FineRecords
    <3>. QED
      BY <1>0, <3>1, <3>2
  <2>3. Fine(NoRecord, Ahead(turn', id))
    BY <1>0, FineRecords
  <2>. QED
    BY <1>0, <2>1, <2>2, <2>3, InvBy
(* A turn alone.                                                            *)
<1>4. ASSUME NEW t \in Turn, NEW b, turn'[t] = b, UNCHANGED edit,
             \A u \in Turn : u # t => turn'[u] = turn[u], Onward(t),
             mem' = mem, \A x \in Id : disk'[x] \in {disk[x], mem'[x]},
             \A x \in Id : /\ Early(Ahead(turn, x), cache'[x].upTo)
                           /\ Early(Ahead(turn, x), job'[x].upTo),
             InFlight(b) => Fine(b.copy, Ahead(turn, b.id))
      PROVE  Inv'
  <2>1. Frame(t, None)
    BY <1>4 DEF Frame, Same
  <2>2. \A x : Ahead(turn', x) \in SUBSET Ahead(turn, x)
    BY <1>4, <2>1, AheadStep
  <2>3. InFlight(b) => Fine(b.copy, Ahead(turn', b.id))
    BY <1>4, <2>2, FineLess
  <2>4. Telegram \in Id /\ Fine(NoRecord, Ahead(turn', Telegram))
    BY <1>0, FineRecords, StoreAssumption DEF Telegram, Id
  <2>. QED
    BY <1>0, <1>4, <2>1, <2>3, <2>4, InvBy
<1>5. ASSUME NEW t \in Turn, NEW id \in Id, Read(t, id) PROVE Inv'
  <2>1. /\ turn[t].phase = "new" /\ mem[id] \in Record
        /\ \A u \in Turn : ~(InFlight(turn[u]) /\ turn[u].id = id)
        /\ \A u \in 1..(t - 1) : turn[u].phase # "new"
        /\ UNCHANGED <<mem, disk, live, cache, job, saved, stale, crashes>>
    BY <1>0, <1>5, ReadIs
  <2>2. PICK b \in Actor : b.phase = "read" /\ b.id = id /\ b.copy = mem[id] /\ OnlyTurn(t, b)
    BY <1>0, <1>5, ReadIs
  <2>3. Onward(t)
    BY <2>1, <2>2 DEF Onward, OnlyTurn
  <2>4. Fine(b.copy, Ahead(turn, b.id))
    BY <1>0, <2>2
  <2>. QED
    BY <1>0, <1>4, <2>1, <2>2, <2>3, <2>4 DEF OnlyTurn
<1>6. ASSUME NEW t \in Turn, Prepare(t) PROVE Inv'
  <2>0. InFlight(turn[t]) /\ turn[t].phase = "read"
    BY <1>6 DEF Prepare, InFlight
  <2>1. /\ turn[t].id \in Id /\ turn[t].copy \in Record
        /\ Fine(turn[t].copy, Ahead(turn, turn[t].id))
        /\ \A s \in MadeOf(Known(t), turn[t].copy.history) :
             s \in Summary /\ Early(Ahead(turn, turn[t].id), s.upTo)
    BY <2>0, CopyIsFine
  <2>2. /\ SaveOnly \/ UNCHANGED <<mem, live, disk, saved>>
        /\ \A u \in Turn : u # t => turn'[u] = turn[u]
        /\ turn'[t].phase \in {"ready", "summing"} /\ turn'[t].id = turn[t].id
        /\ job'[turn[t].id] \in {job[turn[t].id]} \cup MadeOf(Known(t), turn[t].copy.history)
        /\ \A x \in Id : x # turn[t].id => job'[x] = job[x]
        /\ UNCHANGED <<edit, cache, stale, crashes>>
    BY <1>0, <1>6, <2>1, PrepareIs
  <2>3. PICK s \in Known(t) : turn'[t].copy \in {turn[t].copy, WithSummary(turn[t].copy, s)}
    BY <1>0, <1>6, <2>1, PrepareIs
  <2>4. s \in MadeOf(Known(t), turn[t].copy.history)
    BY DEF MadeOf
  <2>5. Fine(WithSummary(turn[t].copy, s), Ahead(turn, turn[t].id))
    BY <1>0, <2>1, <2>4, FineRecords
  <2>6. mem' = mem /\ \A x \in Id : disk'[x] \in {disk[x], mem'[x]}
    BY <1>0, <2>2, SaveOnlyIs
  <2>7. Onward(t)
    BY <2>0, <2>2 DEF Onward, InFlight, InMemory
  <2>8. \A x \in Id : Early(Ahead(turn, x), job'[x].upTo)
    BY <1>0, <2>1, <2>2
  <2>9. Fine(turn'[t].copy, Ahead(turn, turn'[t].id))
    BY <2>1, <2>2, <2>3, <2>5
  <2>. QED
    BY <1>0, <1>4, <2>2, <2>6, <2>7, <2>8, <2>9
<1>7. ASSUME NEW t \in Turn, Summarised(t) PROVE Inv'
  <2>0. InFlight(turn[t]) /\ turn[t].phase = "summing"
    BY <1>7 DEF Summarised, InFlight
  <2>1. /\ turn[t].id \in Id /\ turn[t].copy \in Record
        /\ Fine(turn[t].copy, Ahead(turn, turn[t].id))
        /\ \A s \in MadeOf(Known(t), turn[t].copy.history) :
             s \in Summary /\ Early(Ahead(turn, turn[t].id), s.upTo)
    BY <2>0, CopyIsFine
  <2>2. /\ \A u \in Turn : u # t => turn'[u] = turn[u]
        /\ turn'[t].phase = "ready" /\ turn'[t].id = turn[t].id
        /\ cache'[turn[t].id] \in {cache[turn[t].id]} \cup MadeOf(Known(t), turn[t].copy.history)
        /\ \A x \in Id : x # turn[t].id => cache'[x] = cache[x]
        /\ UNCHANGED <<mem, disk, live, edit, job, saved, stale, crashes>>
    BY <1>0, <1>7, <2>1, SummarisedIs
  <2>3. PICK s \in MadeOf(Known(t), turn[t].copy.history) :
          turn'[t].copy = WithSummary(turn[t].copy, s)
    BY <1>0, <1>7, <2>1, SummarisedIs
  <2>4. Fine(turn'[t].copy, Ahead(turn, turn'[t].id))
    BY <1>0, <2>1, <2>2, <2>3, FineRecords
  <2>5. Onward(t)
    BY <2>0, <2>2 DEF Onward, InFlight, InMemory
  <2>6. \A x \in Id : Early(Ahead(turn, x), cache'[x].upTo)
    BY <1>0, <2>1, <2>2
  <2>. QED
    BY <1>0, <1>4, <2>2, <2>4, <2>5, <2>6
<1>8. ASSUME NEW t \in Turn, SavePending(t) PROVE Inv'
  <2>. DEFINE id == turn[t].id
              rec == WithPrompt(turn[t].copy, t)
  <2>1. /\ turn[t].phase = "ready" /\ id \in Id /\ turn[t].copy \in Record
        /\ Flushed /\ UNCHANGED <<cache, job, stale, crashes>>
    BY <1>0, <1>8, SavePendingIs
  <2>2. PICK b \in Actor : /\ Written(id, rec, t, t, b, None, Idle)
                           /\ b.phase = "running" /\ b.id = id /\ b.copy = rec
    BY <1>0, <1>8, SavePendingIs
  <2>3. /\ Frame(t, None) /\ mem'[id] = rec /\ turn'[t] = b
        /\ \A x \in Id : x # id => mem'[x] = mem[x]
    BY <2>2, WrittenFrame
  <2>4. Onward(t)
    BY <2>1, <2>2, <2>3 DEF Onward, InFlight, InMemory
  <2>5. Ahead(turn', id) \in SUBSET Ahead(turn, id) /\ t \in Ahead(turn, id)
    BY <2>1, <2>3, <2>4, AheadStep DEF Ahead, InMemory
  <2>6. Early(Ahead(turn', id), t)
    <3>. SUFFICES ASSUME NEW v \in Turn, v \in Ahead(turn', id) PROVE t < v
      BY <1>0 DEF Early
    <3>1. v # t
      BY <2>2, <2>3 DEF Ahead, InMemory
    <3>2. v \in Ahead(turn, id)
      BY <2>5
    <3>3. turn[v].phase = "new"
      BY <2>1, <3>1, <3>2 DEF Ahead, InMemory, Inv, OneTurn, InFlight
    <3>. QED
      BY <2>1, <3>3 DEF Inv, InOrder
  <2>7. Fine(turn[t].copy, Ahead(turn, id))
    BY <2>1 DEF Inv, AllFine, InFlight
  <2>8. Fine(rec, Ahead(turn', id))
    BY <1>0, <2>1, <2>5, <2>6, <2>7, FinePrompt
  <2>9. \A x \in Id : disk'[x] \in {disk[x], mem'[x]}
    BY <2>1 DEF Flushed
  <2>. HIDE DEF id, rec
  <2>10. InFlight(turn'[t]) => Fine(turn'[t].copy, Ahead(turn', turn'[t].id))
    BY <2>2, <2>3, <2>8
  <2>. QED
    BY <1>0, <2>1, <2>3, <2>4, <2>8, <2>9, <2>10, InvBy
<1>9. ASSUME NEW t \in Turn, Answer(t) PROVE Inv'
  <2>. DEFINE id == turn[t].id
  <2>1. /\ turn[t].phase = "running" /\ id \in Id /\ turn[t].copy \in Record
        /\ UNCHANGED <<disk, live, cache, job, saved, stale, crashes>>
    BY <1>0, <1>9, AnswerIs
  <2>2. PICK p \in Pin \cup {Unset}, b \in Actor :
          /\ b.phase = "answered" /\ b.id = id
          /\ b.copy = WithAnswer(turn[t].copy, t, cache[id], p)
          /\ \/ Written(id, b.copy, t, t, b, None, Idle)
             \/ OnlyTurn(t, b) /\ UNCHANGED mem
    BY <1>0, <1>9, AnswerIs
  <2>3. Fine(turn[t].copy, Ahead(turn, id)) /\ cache[id] \in Summary
    BY <1>0, <2>1 DEF Inv, AllFine, InFlight, Typed
  <2>4. Fine(b.copy, Ahead(turn, id))
    BY <1>0, <2>1, <2>2, <2>3, FineRecords
  <2>5. CASE Written(id, b.copy, t, t, b, None, Idle)
    <3>1. /\ Frame(t, None) /\ mem'[id] = b.copy /\ turn'[t] = b
          /\ \A x \in Id : x # id => mem'[x] = mem[x]
      BY <2>5, WrittenFrame
    <3>2. Onward(t)
      BY <2>1, <2>2, <3>1 DEF Onward, InFlight, InMemory
    <3>3. Ahead(turn', id) \in SUBSET Ahead(turn, id)
      BY <3>1, <3>2, AheadStep
    <3>4. Fine(b.copy, Ahead(turn', id))
      BY <2>4, <3>3, FineLess
    <3>5. \A x \in Id : disk'[x] \in {disk[x], mem'[x]}
      BY <2>1
    <3>. HIDE DEF id
    <3>6. InFlight(turn'[t]) => Fine(turn'[t].copy, Ahead(turn', turn'[t].id))
      BY <2>2, <3>1, <3>4
    <3>. QED
      BY <1>0, <2>1, <3>1, <3>2, <3>4, <3>5, <3>6, InvBy
  <2>6. CASE OnlyTurn(t, b) /\ UNCHANGED mem
    <3>1. Onward(t)
      BY <2>1, <2>2, <2>6 DEF Onward, InFlight, InMemory, OnlyTurn
    <3>. QED
      BY <1>0, <1>4, <2>1, <2>2, <2>4, <2>6, <3>1 DEF OnlyTurn
  <2>. QED
    BY <2>2, <2>5, <2>6
<1>10. ASSUME NEW t \in Turn, Fail(t) PROVE Inv'
  <2>1. /\ turn[t].phase = "running" /\ OnlyTurn(t, Done)
        /\ UNCHANGED <<mem, disk, live, cache, job, saved, stale, crashes>>
    BY <1>0, <1>10, FailIs
  <2>2. Onward(t)
    BY <2>1, IdleIs DEF Onward, OnlyTurn
  <2>. QED
    BY <1>0, <1>4, <2>1, <2>2, IdleIs DEF OnlyTurn
<1>11. ASSUME NEW t \in Turn, SaveAnswer(t) PROVE Inv'
  <2>. DEFINE id == turn[t].id
              rec == turn[t].copy
  <2>1. /\ turn[t].phase = "answered" /\ id \in Id /\ rec \in Record
        /\ Flushed /\ UNCHANGED <<cache, job, stale, crashes>>
    BY <1>0, <1>11, SaveAnswerIs
  <2>2. PICK b \in Actor : /\ Written(id, rec, t, t, b, None, Idle)
                           /\ b.phase = "saved" /\ b.id = id /\ b.copy = rec
    BY <1>0, <1>11, SaveAnswerIs
  <2>3. /\ Frame(t, None) /\ mem'[id] = rec /\ turn'[t] = b
        /\ \A x \in Id : x # id => mem'[x] = mem[x]
    BY <2>2, WrittenFrame
  <2>4. Onward(t)
    BY <2>1, <2>2, <2>3 DEF Onward, InFlight, InMemory
  <2>5. Ahead(turn', id) \in SUBSET Ahead(turn, id)
    BY <2>3, <2>4, AheadStep
  <2>6. Fine(rec, Ahead(turn, id))
    BY <2>1 DEF Inv, AllFine, InFlight
  <2>7. Fine(rec, Ahead(turn', id))
    BY <2>5, <2>6, FineLess
  <2>8. \A x \in Id : disk'[x] \in {disk[x], mem'[x]}
    BY <2>1 DEF Flushed
  <2>. HIDE DEF id, rec
  <2>9. InFlight(turn'[t]) => Fine(turn'[t].copy, Ahead(turn', turn'[t].id))
    BY <2>2, <2>3, <2>7
  <2>. QED
    BY <1>0, <2>1, <2>3, <2>4, <2>7, <2>8, <2>9, InvBy
<1>12. ASSUME NEW t \in Turn, EndTurn(t) PROVE Inv'
  <2>0. InFlight(turn[t]) /\ turn[t].phase = "saved"
    BY <1>12 DEF EndTurn, InFlight
  <2>1. /\ turn[t].id \in Id
        /\ \A s \in MadeOf(Known(t), turn[t].copy.history) :
             Early(Ahead(turn, turn[t].id), s.upTo)
    BY <2>0, CopyIsFine
  <2>2. /\ SaveOnly \/ UNCHANGED <<mem, live, disk, saved>>
        /\ OnlyTurn(t, Done)
        /\ job'[turn[t].id] \in {job[turn[t].id]} \cup MadeOf(Known(t), turn[t].copy.history)
        /\ \A x \in Id : x # turn[t].id => job'[x] = job[x]
        /\ UNCHANGED <<cache, stale, crashes>>
    BY <1>0, <1>12, EndTurnIs
  <2>3. mem' = mem /\ \A x \in Id : disk'[x] \in {disk[x], mem'[x]}
    BY <1>0, <2>2, SaveOnlyIs
  <2>4. Onward(t)
    BY <2>0, <2>2, IdleIs DEF Onward, OnlyTurn
  <2>5. \A x \in Id : Early(Ahead(turn, x), job'[x].upTo)
    BY <1>0, <2>1, <2>2
  <2>. QED
    BY <1>0, <1>4, <2>2, <2>3, <2>4, <2>5, IdleIs DEF OnlyTurn
(* An edit alone.                                                           *)
<1>13. ASSUME NEW e \in Edit, NEW c, OnlyEdit(e, c),
              UNCHANGED <<mem, disk, cache, job>>,
              InFlight(c) => Fine(c.copy, Ahead(turn, c.id))
       PROVE  Inv'
  <2>1. Frame(None, e) /\ edit'[e] = c /\ turn' = turn
    BY <1>13 DEF Frame, Same, OnlyEdit
  <2>2. Telegram \in Id /\ Fine(NoRecord, Ahead(turn', Telegram))
    BY <1>0, FineRecords, StoreAssumption DEF Telegram, Id
  <2>. QED
    BY <1>0, <1>13, <2>1, <2>2, InvBy
<1>14. ASSUME NEW e \in Edit, NEW id \in Id, GetForEdit(e, id) PROVE Inv'
  <2>1. PICK c \in Editor : c.id = id /\ c.copy = mem[id] /\ OnlyEdit(e, c)
    BY <1>0, <1>14, GetForEditIs
  <2>2. UNCHANGED <<mem, disk, live, cache, job, saved, stale, crashes>>
    BY <1>0, <1>14, GetForEditIs
  <2>. QED
    BY <1>0, <1>13, <2>1, <2>2
<1>15. ASSUME NEW e \in Edit, PutEdit(e) PROVE Inv'
  <2>. DEFINE id == edit[e].id
              rec == Edited(edit[e].copy, e)
  <2>1. /\ edit[e].phase = "read" /\ id \in Id /\ edit[e].copy \in Record
        /\ Written(id, rec, None, None, Idle, e, Done) /\ Flushed
        /\ UNCHANGED <<cache, job, crashes>>
    BY <1>0, <1>15, PutEditIs
  <2>2. /\ Frame(None, e) /\ mem'[id] = rec /\ edit'[e] = Done
        /\ \A x \in Id : x # id => mem'[x] = mem[x]
    BY <2>1, WrittenFrame
  <2>3. Fine(edit[e].copy, Ahead(turn, id))
    BY <2>1 DEF Inv, AllFine, InFlight
  <2>4. Fine(rec, Ahead(turn, id))
    BY <1>0, <2>1, <2>3, FineRecords
  <2>5. Ahead(turn', id) \in SUBSET Ahead(turn, id)
    BY <1>0, <2>2, AheadStep
  <2>6. Fine(rec, Ahead(turn', id))
    BY <2>4, <2>5, FineLess
  <2>7. \A x \in Id : disk'[x] \in {disk[x], mem'[x]}
    BY <2>1 DEF Flushed
  <2>. HIDE DEF id, rec
  <2>8. ~InFlight(edit'[e])
    BY <2>2, IdleIs
  <2>. QED
    BY <1>0, <2>1, <2>2, <2>6, <2>7, <2>8, InvBy
<1>16. ASSUME NEW e \in Edit, CompactionFails(e) PROVE Inv'
  <2>1. OnlyEdit(e, Done) /\ UNCHANGED <<mem, disk, live, cache, job, saved, stale, crashes>>
    BY <1>0, <1>16, CompactionFailsIs
  <2>. QED
    BY <1>13, <2>1, IdleIs
<1>17. CASE Restart
  <2>1. Typed' /\ CopiesExist'
    BY TypedStep DEF Inv
  <2>2. /\ mem' = disk /\ disk' = disk
        /\ cache' = [id \in Id |-> NoSummary] /\ job' = [id \in Id |-> NoSummary]
        /\ \A t \in Turn : /\ turn'[t] \in {Done, turn[t]} /\ ~InFlight(turn'[t])
                           /\ turn'[t].phase = "new" => turn[t].phase = "new"
        /\ \A e \in Edit : ~InFlight(edit'[e])
    BY <1>0, <1>17, RestartIs
  <2>3. OneTurn'
    BY <2>2 DEF OneTurn, InFlight
  <2>4. \A t \in Turn : turn'[t] = (IF Ends(turn[t]) THEN Done ELSE turn[t])
    BY <1>17 DEF Restart
  <2>5. InOrder'
    <3>. SUFFICES ASSUME NEW t \in Turn, NEW u \in Turn,
                         turn'[t].phase # "new", turn'[u].phase = "new"
                  PROVE  t < u
      BY DEF InOrder
    <3>1. turn[u].phase = "new" /\ ~Ends(turn[u])
      BY <2>2, <2>4, IdleIs
    <3>2. turn[t].phase # "new"
      BY <2>4, <3>1 DEF Ends, InFlight
    <3>. QED
      BY <3>1, <3>2 DEF Inv, InOrder
  <2>6. \A x : Ahead(turn', x) \in SUBSET Ahead(turn, x)
    BY <2>2 DEF Ahead, InMemory, InFlight
  <2>7. \A x \in Id : Fine(disk[x], Ahead(turn', x))
    BY <2>6, FineLess DEF Inv, AllFine
  <2>8. \A x : Early(Ahead(turn', x), NoSummary.upTo)
    BY <1>0, FineRecords
  <2>9. AllFine'
    BY <2>2, <2>7, <2>8 DEF AllFine, InFlight
  <2>. QED
    BY <2>1, <2>3, <2>5, <2>9 DEF Inv
<1>18. CASE NewWebConv
  BY <1>0, <1>2, <1>18, NewWebConvIs
<1>19. ASSUME NEW id \in Id, Delete(id) PROVE Inv'
  BY <1>0, <1>2, <1>19, DeleteIs
<1>. QED
  BY <1>1, <1>3, <1>5, <1>6, <1>7, <1>8, <1>9, <1>10, <1>11, <1>12, <1>14, <1>15, <1>16,
     <1>17, <1>18, <1>19 DEF Next, TurnStep, EditStep

LEMMA InvHolds == Spec => []Inv
<1>. QED
  BY InvInit, InvStep, PTL DEF Spec

(* The type invariant: whoever is at work, whatever a save leaves out.      *)
THEOREM TypeCorrect == Spec => []TypeOK
<1>1. Inv => TypeOK
  <2>. SUFFICES ASSUME Inv PROVE TypeOK
    OBVIOUS
  <2>1. Typed
    BY DEF Inv
  <2>2. ASSUME NEW id \in Id, Exists(id) PROVE Distinct(mem[id].history)
    <3>1. mem[id] \in Record
      BY <2>1, <2>2 DEF Typed, Store, Exists
    <3>2. Ascending(mem[id].history)
      BY <2>2 DEF Inv, AllFine, Fine, Exists
    <3>3. /\ mem[id].history \in Seq(Entry)
          /\ DOMAIN mem[id].history = 1..Len(mem[id].history)
          /\ \A i \in DOMAIN mem[id].history : mem[id].history[i].turn \in Turn
      BY <3>1, RecordIs, Turns
    <3>4. \A n \in Turn : n \in Int
      BY StoreAssumption DEF Turn
    <3>. SUFFICES ASSUME NEW i \in DOMAIN mem[id].history, NEW j \in DOMAIN mem[id].history,
                         mem[id].history[i].turn = mem[id].history[j].turn, i # j
                  PROVE  FALSE
      BY DEF Distinct
    <3>5. i < j \/ j < i
      BY <3>3
    <3>. QED
      BY <3>2, <3>3, <3>4, <3>5 DEF Ascending
  <2>3. \A id \in Id : mem[id] \in Record \cup {NoRecord} /\ disk[id] \in Record \cup {NoRecord}
    BY <2>1 DEF Typed, Store
  <2>4. \A t \in Turn : turn[t] \in Actor
    BY <2>1 DEF Typed
  <2>5. \A e \in Edit : edit[e] \in Editor
    BY <2>1 DEF Typed
  <2>6. /\ \A id \in Id : /\ cache[id] \in Summary /\ job[id] \in Summary
                          /\ live[id] \in Turn \cup {None}
        /\ crashes \in 0..MaxCrashes /\ saved \in BOOLEAN /\ stale \in BOOLEAN
    BY <2>1 DEF Typed
  <2>7. \A t \in Turn : /\ turn[t].phase \in Phases /\ turn[t].id \in Id
                        /\ turn[t].copy \in Record \cup {NoRecord}
                        /\ turn[t].told \subseteq Turn
    BY <2>4 DEF Actor
  <2>8. \A e \in Edit : edit[e].phase \in {"new", "read", "done"}
    BY <2>5 DEF Editor
  <2>. QED
    BY <2>2, <2>3, <2>6, <2>7, <2>8 DEF TypeOK, Phases
<1>. QED
  BY <1>1, InvHolds, PTL

-----------------------------------------------------------------------------
(* What an actor's marks are worth: as long as nobody else wrote, its copy  *)
(* is the record that the store holds.                                      *)

SyncedTurn(t, a, m, owner) ==
    /\ InMemory(a) /\ a.sync => Core(a.copy) = Core(m)
    /\ a.phase = "running" => (owner = t => m = a.copy) /\ (a.sync => owner = t)
    /\ a.phase = "answered" /\ a.sync => m = a.copy
    /\ a.phase = "answered" /\ a.seen /\ m # NoRecord => a.copy.pin = m.pin

SyncedEdit(a, m) == a.phase = "read" /\ a.sync => a.copy = m

SyncInv ==
    /\ \A t \in Turn : SyncedTurn(t, turn[t], mem[turn[t].id], live[turn[t].id])
    /\ \A e \in Edit : SyncedEdit(edit[e], mem[edit[e].id])

LEMMA RecordEqual ==
  ASSUME NEW r \in Record, NEW s \in Record, r.title = s.title, r.pin = s.pin,
         r.history = s.history, r.summary = s.summary
  PROVE  r = s
BY RecordIs

LEMMA CoreIs ==
  ASSUME NEW r \in Record
  PROVE  /\ Core(r) \in Record /\ Core(r).title = r.title /\ Core(r).pin = r.pin
         /\ Core(r).history = r.history /\ Core(r).summary = NoSummary
         /\ Core(r) # NoRecord /\ r # NoRecord
<1>1. Core(r) = [r EXCEPT !.summary = NoSummary]
  BY NoRecordIsNone DEF Core
<1>. QED
  BY <1>1, NoRecordIsNone, NewRecordIs DEF Record

LEMMA CoreOfNone == Core(NoRecord) = NoRecord
BY DEF Core

LEMMA CoreOfSummary ==
  ASSUME NEW r \in Record, NEW s \in Summary
  PROVE  Core(WithSummary(r, s)) = Core(r)
<1>1. /\ WithSummary(r, s) \in Record
      /\ WithSummary(r, s).title = r.title /\ WithSummary(r, s).pin = r.pin
      /\ WithSummary(r, s).history = r.history
  BY WithSummaryIs
<1>. QED
  BY <1>1, CoreIs, RecordEqual

(* A write leaves the marks of the others true.                             *)
LEMMA SyncOthers ==
  ASSUME Inv, SyncInv, NEW id \in Id, NEW rec, NEW t, NEW b, NEW e, NEW c,
         NEW owner, owner = t \/ owner = None, Written(id, rec, owner, t, b, e, c),
         t \in Turn => SyncedTurn(t, turn'[t], mem'[turn'[t].id], live'[turn'[t].id]),
         e \in Edit => SyncedEdit(edit'[e], mem'[edit'[e].id])
  PROVE  SyncInv'
<1>1. ASSUME NEW u \in Turn, u # t
      PROVE  SyncedTurn(u, turn'[u], mem'[turn'[u].id], live'[turn'[u].id])
  <2>1. /\ Kept(turn[u], turn'[u], id) /\ u # None /\ turn[u].id \in Id
        /\ SyncedTurn(u, turn[u], mem[turn[u].id], live[turn[u].id])
    BY <1>1, EditsAre DEF Written, SyncInv, Inv, Typed, Actor
  <2>2. CASE InFlight(turn[u]) /\ turn[u].id = id
    <3>1. ~turn'[u].sync /\ ~turn'[u].seen /\ live'[turn'[u].id] # u
      BY <1>1, <2>1, <2>2 DEF Kept, Written
    <3>. QED
      BY <3>1 DEF SyncedTurn
  <2>3. CASE InFlight(turn[u]) /\ turn[u].id # id
    <3>1. turn'[u] = turn[u] /\ mem'[turn[u].id] = mem[turn[u].id]
          /\ live'[turn[u].id] = live[turn[u].id]
      BY <2>1, <2>3 DEF Kept, Written
    <3>. QED
      BY <2>1, <3>1
  <2>4. CASE ~InFlight(turn[u])
    <3>1. ~InFlight(turn'[u])
      BY <2>1, <2>4 DEF Kept, InFlight
    <3>. QED
      BY <3>1 DEF SyncedTurn, InMemory, InFlight
  <2>. QED
    BY <2>2, <2>3, <2>4
<1>2. ASSUME NEW u \in Edit, u # e PROVE SyncedEdit(edit'[u], mem'[edit'[u].id])
  <2>1. /\ Kept(edit[u], edit'[u], id) /\ edit[u].id \in Id
        /\ SyncedEdit(edit[u], mem[edit[u].id])
    BY <1>2 DEF Written, SyncInv, Inv, Typed, Editor
  <2>2. CASE InFlight(edit[u]) /\ edit[u].id = id
    BY <2>1, <2>2 DEF Kept, SyncedEdit
  <2>3. CASE InFlight(edit[u]) /\ edit[u].id # id
    BY <2>1, <2>3 DEF Kept, Written
  <2>4. CASE ~InFlight(edit[u])
    BY <2>1, <2>4 DEF Kept, SyncedEdit, InFlight
  <2>. QED
    BY <2>2, <2>3, <2>4
<1>3. \A u \in Turn : SyncedTurn(u, turn'[u], mem'[turn'[u].id], live'[turn'[u].id])
  BY <1>1
<1>4. \A u \in Edit : SyncedEdit(edit'[u], mem'[edit'[u].id])
  BY <1>2
<1>. QED
  BY <1>3, <1>4 DEF SyncInv

LEMMA SyncOnlyTurn ==
  ASSUME SyncInv, NEW t \in Turn, NEW b, turn'[t] = b,
         \A u \in Turn : u # t => turn'[u] = turn[u], UNCHANGED <<mem, live, edit>>,
         SyncedTurn(t, b, mem[b.id], live[b.id])
  PROVE  SyncInv'
<1>1. \A u \in Turn : SyncedTurn(u, turn'[u], mem'[turn'[u].id], live'[turn'[u].id])
  BY DEF SyncInv
<1>2. \A u \in Edit : SyncedEdit(edit'[u], mem'[edit'[u].id])
  BY DEF SyncInv
<1>. QED
  BY <1>1, <1>2 DEF SyncInv

LEMMA SyncOnlyEdit ==
  ASSUME SyncInv, NEW e \in Edit, NEW c, OnlyEdit(e, c), UNCHANGED <<mem, live>>,
         SyncedEdit(c, mem[c.id])
  PROVE  SyncInv'
<1>1. \A u \in Turn : SyncedTurn(u, turn'[u], mem'[turn'[u].id], live'[turn'[u].id])
  BY DEF SyncInv, OnlyEdit
<1>2. \A u \in Edit : SyncedEdit(edit'[u], mem'[edit'[u].id])
  BY DEF SyncInv, OnlyEdit
<1>. QED
  BY <1>1, <1>2 DEF SyncInv

LEMMA SyncDone ==
  /\ \A t, m, o : SyncedTurn(t, Done, m, o)
  /\ \A m : SyncedEdit(Done, m)
BY IdleIs DEF SyncedTurn, SyncedEdit, InMemory

LEMMA SyncStep == Inv /\ SyncInv /\ [Next]_vars => SyncInv'
<1>. SUFFICES ASSUME Inv, SyncInv, [Next]_vars PROVE SyncInv'
  OBVIOUS
<1>0. Typed /\ CopiesExist /\ None \notin Turn /\ None \notin Edit
  BY EditsAre DEF Inv
<1>1. CASE UNCHANGED vars
  BY <1>1 DEF vars, SyncInv
<1>2. CASE NewWebConv
  BY <1>0, <1>2, NewWebConvIs, SyncOthers
<1>3. ASSUME NEW id \in Id, Delete(id) PROVE SyncInv'
  BY <1>0, <1>3, DeleteIs, SyncOthers
<1>4. ASSUME NEW id \in Id, RefreshEnds(id) PROVE SyncInv'
  <2>1. UNCHANGED <<mem, live, turn, edit>>
    BY <1>4 DEF RefreshEnds
  <2>. QED
    BY <2>1 DEF SyncInv
<1>5. ASSUME NEW t \in Turn, NEW id \in Id, Read(t, id) PROVE SyncInv'
  <2>1. UNCHANGED <<mem, disk, live, cache, job, saved, stale, crashes>>
    BY <1>0, <1>5, ReadIs
  <2>2. PICK b \in Actor : b.phase = "read" /\ b.id = id /\ b.copy = mem[id] /\ OnlyTurn(t, b)
    BY <1>0, <1>5, ReadIs
  <2>3. SyncedTurn(t, b, mem[b.id], live[b.id])
    BY <2>2 DEF SyncedTurn
  <2>. QED
    BY <2>1, <2>2, <2>3, SyncOnlyTurn DEF OnlyTurn
<1>6. ASSUME NEW t \in Turn, Prepare(t) PROVE SyncInv'
  <2>1. turn[t].phase = "read" /\ turn[t].copy \in Record
    BY <1>0, <1>6 DEF Prepare, CopiesExist, InFlight
  <2>2. /\ SaveOnly \/ UNCHANGED <<mem, live, disk, saved>>
        /\ \A u \in Turn : u # t => turn'[u] = turn[u]
        /\ turn'[t].phase \in {"ready", "summing"} /\ turn'[t].id = turn[t].id
        /\ turn'[t].sync = turn[t].sync /\ UNCHANGED <<edit, cache, stale, crashes>>
    BY <1>0, <1>6, <2>1, PrepareIs
  <2>3. PICK s \in Known(t) : turn'[t].copy \in {turn[t].copy, WithSummary(turn[t].copy, s)}
    BY <1>0, <1>6, <2>1, PrepareIs
  <2>4. Known(t) \in SUBSET Summary
    BY <1>0, <2>1, BestIsKnown
  <2>5. Core(turn'[t].copy) = Core(turn[t].copy)
    BY <2>1, <2>3, <2>4, CoreOfSummary
  <2>6. mem' = mem /\ live' = live
    BY <1>0, <2>2, SaveOnlyIs
  <2>7. turn[t].sync => Core(turn[t].copy) = Core(mem[turn[t].id])
    BY <2>1 DEF SyncInv, SyncedTurn, InMemory
  <2>8. SyncedTurn(t, turn'[t], mem[turn'[t].id], live[turn'[t].id])
    BY <2>2, <2>5, <2>7 DEF SyncedTurn
  <2>. QED
    BY <2>2, <2>6, <2>8, SyncOnlyTurn
<1>7. ASSUME NEW t \in Turn, Summarised(t) PROVE SyncInv'
  <2>1. turn[t].phase = "summing" /\ turn[t].copy \in Record
    BY <1>0, <1>7 DEF Summarised, CopiesExist, InFlight
  <2>2. /\ \A u \in Turn : u # t => turn'[u] = turn[u]
        /\ turn'[t].phase = "ready" /\ turn'[t].id = turn[t].id
        /\ turn'[t].sync = turn[t].sync
        /\ UNCHANGED <<mem, disk, live, edit, job, saved, stale, crashes>>
    BY <1>0, <1>7, <2>1, SummarisedIs
  <2>3. PICK s \in MadeOf(Known(t), turn[t].copy.history) :
          turn'[t].copy = WithSummary(turn[t].copy, s)
    BY <1>0, <1>7, <2>1, SummarisedIs
  <2>4. s \in Summary
    BY <2>1, CopyIsFine DEF InFlight
  <2>5. Core(turn'[t].copy) = Core(turn[t].copy)
    BY <2>1, <2>3, <2>4, CoreOfSummary
  <2>6. turn[t].sync => Core(turn[t].copy) = Core(mem[turn[t].id])
    BY <2>1 DEF SyncInv, SyncedTurn, InMemory
  <2>7. SyncedTurn(t, turn'[t], mem[turn'[t].id], live[turn'[t].id])
    BY <2>2, <2>5, <2>6 DEF SyncedTurn
  <2>. QED
    BY <2>2, <2>7, SyncOnlyTurn
<1>8. ASSUME NEW t \in Turn, SavePending(t) PROVE SyncInv'
  <2>1. turn[t].id \in Id
    BY <1>0, <1>8, SavePendingIs
  <2>2. PICK b \in Actor :
          /\ Written(turn[t].id, WithPrompt(turn[t].copy, t), t, t, b, None, Idle)
          /\ b.phase = "running" /\ b.id = turn[t].id /\ b.copy = WithPrompt(turn[t].copy, t)
    BY <1>0, <1>8, SavePendingIs
  <2>3. turn'[t] = b /\ mem'[b.id] = b.copy /\ live'[b.id] = t
    BY <2>2 DEF Written
  <2>4. SyncedTurn(t, b, mem'[b.id], live'[b.id])
    BY <2>2, <2>3 DEF SyncedTurn, InMemory
  <2>. QED
    BY <1>0, <2>1, <2>2, <2>3, <2>4, SyncOthers
<1>9. ASSUME NEW t \in Turn, Answer(t) PROVE SyncInv'
  <2>1. /\ turn[t].phase = "running" /\ turn[t].id \in Id /\ turn[t].copy \in Record
        /\ UNCHANGED <<disk, live, cache, job, saved, stale, crashes>>
    BY <1>0, <1>9, AnswerIs
  <2>2. PICK p \in Pin \cup {Unset}, b \in Actor :
          /\ p = PinPickedUp(turn[t].copy, mem[turn[t].id])
          /\ b.phase = "answered" /\ b.id = turn[t].id /\ b.sync = turn[t].sync
          /\ b.copy = WithAnswer(turn[t].copy, t, cache[turn[t].id], p)
          /\ \/ /\ live[turn[t].id] = t
                /\ Written(turn[t].id, b.copy, t, t, b, None, Idle)
             \/ live[turn[t].id] # t /\ OnlyTurn(t, b) /\ UNCHANGED mem
    BY <1>0, <1>9, AnswerIs
  <2>3. CASE Written(turn[t].id, b.copy, t, t, b, None, Idle)
    <3>1. turn'[t] = b /\ mem'[b.id] = b.copy
      BY <2>2, <2>3 DEF Written
    <3>2. SyncedTurn(t, b, mem'[b.id], live'[b.id])
      BY <2>2, <3>1 DEF SyncedTurn, InMemory
    <3>. QED
      BY <1>0, <2>1, <2>3, <3>1, <3>2, SyncOthers
  <2>4. CASE live[turn[t].id] # t /\ OnlyTurn(t, b) /\ UNCHANGED mem
    <3>1. ~b.sync
      BY <2>1, <2>2, <2>4 DEF SyncInv, SyncedTurn
    <3>2. b.copy.pin = p
      <4>1. cache[turn[t].id] \in Summary
        BY <1>0, <2>1 DEF Typed
      <4>. QED
        BY <2>1, <2>2, <4>1, WithAnswerIs
    <3>3. mem[b.id] # NoRecord => p = mem[b.id].pin
      BY <2>2 DEF PinPickedUp
    <3>4. SyncedTurn(t, b, mem[b.id], live[b.id])
      BY <2>2, <3>1, <3>2, <3>3 DEF SyncedTurn, InMemory
    <3>. QED
      BY <2>1, <2>4, <3>4, SyncOnlyTurn DEF OnlyTurn
  <2>. QED
    BY <2>2, <2>3, <2>4
<1>10. ASSUME NEW t \in Turn, Fail(t) PROVE SyncInv'
  BY <1>0, <1>10, FailIs, SyncDone, SyncOnlyTurn DEF OnlyTurn
<1>11. ASSUME NEW t \in Turn, SaveAnswer(t) PROVE SyncInv'
  <2>1. turn[t].id \in Id
    BY <1>0, <1>11, SaveAnswerIs
  <2>2. PICK b \in Actor : /\ Written(turn[t].id, turn[t].copy, t, t, b, None, Idle)
                           /\ b.phase = "saved"
    BY <1>0, <1>11, SaveAnswerIs
  <2>3. turn'[t] = b
    BY <2>2 DEF Written
  <2>4. SyncedTurn(t, b, mem'[b.id], live'[b.id])
    BY <2>2 DEF SyncedTurn, InMemory
  <2>. QED
    BY <1>0, <2>1, <2>2, <2>3, <2>4, SyncOthers
<1>12. ASSUME NEW t \in Turn, EndTurn(t) PROVE SyncInv'
  <2>1. (SaveOnly \/ UNCHANGED <<mem, live, disk, saved>>) /\ OnlyTurn(t, Done)
    BY <1>0, <1>12, EndTurnIs
  <2>2. mem' = mem /\ live' = live
    BY <1>0, <2>1, SaveOnlyIs
  <2>. QED
    BY <2>1, <2>2, SyncDone, SyncOnlyTurn DEF OnlyTurn
<1>13. ASSUME NEW e \in Edit, NEW id \in Id, GetForEdit(e, id) PROVE SyncInv'
  <2>1. PICK c \in Editor : c.id = id /\ c.copy = mem[id] /\ OnlyEdit(e, c)
    BY <1>0, <1>13, GetForEditIs
  <2>2. UNCHANGED <<mem, disk, live, cache, job, saved, stale, crashes>>
    BY <1>0, <1>13, GetForEditIs
  <2>3. SyncedEdit(c, mem[c.id])
    BY <2>1 DEF SyncedEdit
  <2>. QED
    BY <2>1, <2>2, <2>3, SyncOnlyEdit
<1>14. ASSUME NEW e \in Edit, PutEdit(e) PROVE SyncInv'
  <2>1. /\ edit[e].id \in Id
        /\ Written(edit[e].id, Edited(edit[e].copy, e), None, None, Idle, e, Done)
    BY <1>0, <1>14, PutEditIs
  <2>2. edit'[e] = Done
    BY <2>1 DEF Written
  <2>. QED
    BY <1>0, <2>1, <2>2, SyncDone, SyncOthers
<1>15. ASSUME NEW e \in Edit, CompactionFails(e) PROVE SyncInv'
  BY <1>0, <1>15, CompactionFailsIs, SyncDone, SyncOnlyEdit
<1>16. CASE Restart
  <2>1. /\ \A t \in Turn : ~InFlight(turn'[t])
        /\ \A e \in Edit : ~InFlight(edit'[e])
    BY <1>0, <1>16, RestartIs
  <2>2. \A t \in Turn : SyncedTurn(t, turn'[t], mem'[turn'[t].id], live'[turn'[t].id])
    BY <2>1 DEF SyncedTurn, InMemory, InFlight
  <2>3. \A e \in Edit : SyncedEdit(edit'[e], mem'[edit'[e].id])
    BY <2>1 DEF SyncedEdit, InFlight
  <2>. QED
    BY <2>2, <2>3 DEF SyncInv
<1>. QED
  BY <1>1, <1>2, <1>3, <1>4, <1>5, <1>6, <1>7, <1>8, <1>9, <1>10, <1>11, <1>12, <1>13,
     <1>14, <1>15, <1>16 DEF Next, TurnStep, EditStep

LEMMA SyncInit == Init => SyncInv
<1>. SUFFICES ASSUME Init PROVE SyncInv
  OBVIOUS
<1>1. /\ \A t \in Turn : turn[t] = Done \/ turn[t] = Idle
      /\ \A e \in Edit : edit[e] = Idle
  BY DEF Init
<1>. QED
  BY <1>1, IdleIs DEF SyncInv, SyncedTurn, SyncedEdit, InMemory

-----------------------------------------------------------------------------
(* Changes are atomic unless they overlap.                                  *)

Accounted(id) ==
    Core(mem'[id]) # Core(mem[id]) =>
       \/ Atomically(id)
       \/ crashes' # crashes
       \/ \E t \in Turn : Stale(turn[t], turn'[t], id)
       \/ \E e \in Edit : Stale(edit[e], edit'[e], id)

LEMMA EditedCore ==
  ASSUME NEW r \in Record, NEW e \in Edit
  PROVE  Core(Edited(r, e)) \in {[Core(r) EXCEPT !.title = e], [Core(r) EXCEPT !.pin = e],
                                 [Core(r) EXCEPT !.history = <<>>]}
<1>. DEFINE k == Core(r)
            g == Core(Edited(r, e))
<1>1. /\ k \in Record /\ k.title = r.title /\ k.pin = r.pin
      /\ k.history = r.history /\ k.summary = NoSummary
  BY CoreIs
<1>2. Edited(r, e) \in Record
  BY EditedIs
<1>3. /\ g \in Record /\ g.title = Edited(r, e).title /\ g.pin = Edited(r, e).pin
      /\ g.history = Edited(r, e).history /\ g.summary = NoSummary
  BY <1>2, CoreIs
<1>. HIDE DEF k, g
<1>4. CASE e \in Rename
  <2>1. Edited(r, e) = [r EXCEPT !.title = e]
    BY <1>4, EditedIs
  <2>2. Edited(r, e).title = e /\ Edited(r, e).pin = r.pin /\ Edited(r, e).history = r.history
    BY <2>1 DEF Record
  <2>. DEFINE q == [k EXCEPT !.title = e]
  <2>3. /\ q \in Record /\ q.title = e /\ q.pin = k.pin /\ q.history = k.history
        /\ q.summary = k.summary
    BY <1>1, <1>4 DEF Record
  <2>. HIDE DEF q
  <2>4. g = q
    BY <1>1, <1>3, <2>2, <2>3, RecordEqual
  <2>. QED
    BY <2>4 DEF q, g, k
<1>5. CASE e \in Pin
  <2>1. Edited(r, e) = [r EXCEPT !.pin = e]
    BY <1>5, EditedIs
  <2>2. Edited(r, e).title = r.title /\ Edited(r, e).pin = e /\ Edited(r, e).history = r.history
    BY <2>1 DEF Record
  <2>. DEFINE q == [k EXCEPT !.pin = e]
  <2>3. /\ q \in Record /\ q.title = k.title /\ q.pin = e /\ q.history = k.history
        /\ q.summary = k.summary
    BY <1>1, <1>5 DEF Record
  <2>. HIDE DEF q
  <2>4. g = q
    BY <1>1, <1>3, <2>2, <2>3, RecordEqual
  <2>. QED
    BY <2>4 DEF q, g, k
<1>6. CASE e \in Compaction
  <2>1. Edited(r, e) = [r EXCEPT !.history = <<>>]
    BY <1>6, EditedIs
  <2>2. Edited(r, e).title = r.title /\ Edited(r, e).pin = r.pin /\ Edited(r, e).history = <<>>
    BY <2>1 DEF Record
  <2>. DEFINE q == [k EXCEPT !.history = <<>>]
  <2>3. /\ q \in Record /\ q.title = k.title /\ q.pin = k.pin /\ q.history = <<>>
        /\ q.summary = k.summary
    BY <1>1, NewRecordIs DEF Record
  <2>. HIDE DEF q
  <2>4. g = q
    BY <1>1, <1>3, <2>2, <2>3, RecordEqual
  <2>. QED
    BY <2>4 DEF q, g, k
<1>. QED
  BY <1>4, <1>5, <1>6, EditsAre

LEMMA PromptCore ==
  ASSUME NEW r \in Record, NEW t \in Turn
  PROVE  Core(WithPrompt(r, t)) = [Core(r) EXCEPT !.history = Append(@, Prompt(t))]
<1>. DEFINE k == Core(r)
            g == Core(WithPrompt(r, t))
            q == [k EXCEPT !.history = Append(@, Prompt(t))]
<1>1. /\ k \in Record /\ k.title = r.title /\ k.pin = r.pin
      /\ k.history = r.history /\ k.summary = NoSummary /\ k.history \in Seq(Entry)
  BY CoreIs, RecordIs
<1>2. /\ WithPrompt(r, t) \in Record /\ WithPrompt(r, t).title = r.title
      /\ WithPrompt(r, t).pin = r.pin
      /\ WithPrompt(r, t).history = Append(r.history, Prompt(t))
  BY WithPromptIs
<1>3. /\ g \in Record /\ g.title = r.title /\ g.pin = r.pin
      /\ g.history = Append(r.history, Prompt(t)) /\ g.summary = NoSummary
  BY <1>2, CoreIs
<1>4. Append(k.history, Prompt(t)) \in Seq(Entry)
  BY <1>1, Prompted
<1>. HIDE DEF k, g
<1>5. /\ q \in Record /\ q.title = k.title /\ q.pin = k.pin
      /\ q.history = Append(k.history, Prompt(t)) /\ q.summary = k.summary
  BY <1>1, <1>4 DEF Record
<1>. HIDE DEF q
<1>6. /\ g \in Record /\ q \in Record /\ g.title = q.title /\ g.pin = q.pin
      /\ g.history = q.history /\ g.summary = q.summary
  BY <1>1, <1>3, <1>5
<1>7. g = q
  BY <1>6, RecordEqual
<1>. QED
  BY <1>7 DEF q, g, k

LEMMA AnswerCore ==
  ASSUME NEW r \in Record, NEW t \in Turn, NEW s \in Summary
  PROVE  Core(WithAnswer(r, t, s, r.pin)) =
           [Core(r) EXCEPT !.history = [i \in DOMAIN @ |->
              IF @[i].turn = t THEN [@[i] EXCEPT !.answered = TRUE] ELSE @[i]]]
<1>. DEFINE k == Core(r)
            w == WithAnswer(r, t, s, r.pin)
            g == Core(w)
            h == [i \in DOMAIN k.history |->
                    IF k.history[i].turn = t THEN [k.history[i] EXCEPT !.answered = TRUE]
                                             ELSE k.history[i]]
            q == [k EXCEPT !.history = h]
<1>1. /\ k \in Record /\ k.title = r.title /\ k.pin = r.pin
      /\ k.history = r.history /\ k.summary = NoSummary /\ k.history \in Seq(Entry)
      /\ r.pin \in Pin \cup {Unset}
  BY CoreIs, RecordIs
<1>2. /\ w \in Record /\ w.title = r.title /\ w.pin = r.pin
      /\ w.history = RecordCompletedTurn(r.history, t)
  BY <1>1, WithAnswerIs
<1>. HIDE DEF w
<1>3. /\ g \in Record /\ g.title = r.title /\ g.pin = r.pin
      /\ g.history = RecordCompletedTurn(r.history, t) /\ g.summary = NoSummary
  BY <1>2, CoreIs
<1>. HIDE DEF g, k
<1>4. h = RecordCompletedTurn(k.history, t) /\ h \in Seq(Entry)
  BY <1>1, Recorded
<1>5. /\ q \in Record /\ q.title = k.title /\ q.pin = k.pin
      /\ q.history = h /\ q.summary = k.summary
  <2>. HIDE DEF h
  <2>. QED
    BY <1>1, <1>4 DEF Record
<1>. HIDE DEF q
<1>6. g = q
  BY <1>1, <1>3, <1>4, <1>5, RecordEqual
<1>. QED
  BY <1>6 DEF q, g, k, h, w

LEMMA AccountedStep == Inv /\ SyncInv /\ [Next]_vars => \A id \in Id : Accounted(id)
<1>. SUFFICES ASSUME Inv, SyncInv, [Next]_vars, NEW id \in Id, Core(mem'[id]) # Core(mem[id])
              PROVE  Accounted(id)
  BY DEF Accounted
<1>0. Typed /\ CopiesExist /\ mem[id] \in Record \cup {NoRecord}
  BY DEF Inv, Typed, Store
<1>1. CASE mem' = mem
  BY <1>1
<1>2. CASE NewWebConv
  <2>1. /\ ~Exists(NextConvID)
        /\ Written(NextConvID, NewRecord, None, None, Idle, None, Idle)
    BY <1>0, <1>2, NewWebConvIs
  <2>2. id = NextConvID /\ mem'[id] = NewRecord /\ mem[id] = NoRecord
    BY <2>1 DEF Written, Exists
  <2>3. Core(NewRecord) = NewRecord
    BY NewRecordIs, CoreIs, RecordEqual
  <2>4. Atomically(id)
    BY <2>2, <2>3, CoreOfNone DEF Atomically
  <2>. QED
    BY <2>4 DEF Accounted
<1>3. ASSUME NEW x \in Id, Delete(x) PROVE Accounted(id)
  <2>1. Exists(x) /\ Written(x, NoRecord, None, None, Idle, None, Idle)
    BY <1>0, <1>3, DeleteIs
  <2>2. id = x /\ mem'[id] = NoRecord /\ mem[id] \in Record
    BY <1>0, <2>1 DEF Written, Exists
  <2>3. Atomically(id)
    BY <2>2, CoreOfNone, CoreIs DEF Atomically
  <2>. QED
    BY <2>3 DEF Accounted
<1>4. ASSUME NEW e \in Edit, PutEdit(e) PROVE Accounted(id)
  <2>1. /\ edit[e].phase = "read" /\ edit[e].copy \in Record
        /\ Written(edit[e].id, Edited(edit[e].copy, e), None, None, Idle, e, Done)
    BY <1>0, <1>4, PutEditIs
  <2>2. /\ id = edit[e].id /\ mem'[id] = Edited(edit[e].copy, e)
        /\ edit'[e].phase = "done"
    BY <2>1, IdleIs DEF Written
  <2>3. CASE ~edit[e].sync
    <3>1. Stale(edit[e], edit'[e], id)
      BY <2>1, <2>2, <2>3 DEF Stale
    <3>. QED
      BY <3>1 DEF Accounted
  <2>4. CASE edit[e].sync
    <3>1. mem[id] = edit[e].copy
      BY <2>1, <2>2, <2>4 DEF SyncInv, SyncedEdit
    <3>2. Core(mem'[id]) \in {[Core(mem[id]) EXCEPT !.title = e],
                              [Core(mem[id]) EXCEPT !.pin = e],
                              [Core(mem[id]) EXCEPT !.history = <<>>]}
      BY <2>1, <2>2, <3>1, EditedCore
    <3>3. Applied(Core(mem[id]), Core(mem'[id]))
      BY <2>1, <2>2, <3>2 DEF Applied
    <3>4. Core(mem[id]) # NoRecord
      BY <2>1, <3>1, CoreIs
    <3>5. Atomically(id)
      BY <3>3, <3>4 DEF Atomically
    <3>. QED
      BY <3>5 DEF Accounted
  <2>. QED
    BY <2>3, <2>4
<1>5. ASSUME NEW t \in Turn, SavePending(t) PROVE Accounted(id)
  <2>1. turn[t].phase = "ready" /\ turn[t].copy \in Record
    BY <1>0, <1>5, SavePendingIs
  <2>2. PICK b \in Actor :
          /\ Written(turn[t].id, WithPrompt(turn[t].copy, t), t, t, b, None, Idle)
          /\ b.phase = "running"
    BY <1>0, <1>5, SavePendingIs
  <2>3. /\ id = turn[t].id /\ mem'[id] = WithPrompt(turn[t].copy, t)
        /\ turn'[t].phase = "running"
    BY <2>2 DEF Written
  <2>4. CASE ~turn[t].sync
    <3>1. Stale(turn[t], turn'[t], id)
      BY <2>1, <2>3, <2>4 DEF Stale
    <3>. QED
      BY <3>1 DEF Accounted
  <2>5. CASE turn[t].sync
    <3>1. Core(mem[id]) = Core(turn[t].copy)
      BY <2>1, <2>3, <2>5 DEF SyncInv, SyncedTurn, InMemory
    <3>2. Core(mem'[id]) = [Core(mem[id]) EXCEPT !.history = Append(@, Prompt(t))]
      BY <2>1, <2>3, <3>1, PromptCore
    <3>3. Applied(Core(mem[id]), Core(mem'[id]))
      BY <2>1, <2>3, <3>2 DEF Applied
    <3>4. Core(mem[id]) # NoRecord
      BY <2>1, <3>1, CoreIs
    <3>5. Atomically(id)
      BY <3>3, <3>4 DEF Atomically
    <3>. QED
      BY <3>5 DEF Accounted
  <2>. QED
    BY <2>4, <2>5
<1>6. ASSUME NEW t \in Turn, Answer(t) PROVE Accounted(id)
  <2>1. turn[t].phase = "running" /\ turn[t].copy \in Record /\ turn[t].id \in Id
    BY <1>0, <1>6, AnswerIs
  <2>2. PICK p \in Pin \cup {Unset}, b \in Actor :
          /\ p = PinPickedUp(turn[t].copy, mem[turn[t].id])
          /\ b.phase = "answered"
          /\ b.copy = WithAnswer(turn[t].copy, t, cache[turn[t].id], p)
          /\ \/ /\ live[turn[t].id] = t
                /\ Written(turn[t].id, b.copy, t, t, b, None, Idle)
             \/ live[turn[t].id] # t /\ OnlyTurn(t, b) /\ UNCHANGED mem
    BY <1>0, <1>6, AnswerIs
  <2>3. /\ live[turn[t].id] = t
        /\ Written(turn[t].id, b.copy, t, t, b, None, Idle)
    BY <2>2
  <2>4. id = turn[t].id /\ mem'[id] = b.copy /\ turn'[t].phase = "answered"
    BY <2>2, <2>3 DEF Written
  <2>5. mem[id] = turn[t].copy
    BY <2>1, <2>3, <2>4 DEF SyncInv, SyncedTurn
  <2>6. p = turn[t].copy.pin
    BY <2>2, <2>4, <2>5 DEF PinPickedUp
  <2>7. cache[turn[t].id] \in Summary
    BY <1>0, <2>1 DEF Typed
  <2>8. Core(mem'[id]) = [Core(mem[id]) EXCEPT !.history = [i \in DOMAIN @ |->
              IF @[i].turn = t THEN [@[i] EXCEPT !.answered = TRUE] ELSE @[i]]]
    <3>. DEFINE r == turn[t].copy
    <3>1. mem'[id] = WithAnswer(r, t, cache[turn[t].id], r.pin) /\ mem[id] = r
      BY <2>2, <2>4, <2>5, <2>6
    <3>. QED
      BY <2>1, <2>7, <3>1, AnswerCore
  <2>9. Applied(Core(mem[id]), Core(mem'[id]))
    BY <2>1, <2>4, <2>8 DEF Applied
  <2>10. Core(mem[id]) # NoRecord
    BY <2>1, <2>5, CoreIs
  <2>11. Atomically(id)
    BY <2>9, <2>10 DEF Atomically
  <2>. QED
    BY <2>11 DEF Accounted
<1>7. ASSUME NEW t \in Turn, SaveAnswer(t) PROVE Accounted(id)
  <2>1. turn[t].phase = "answered"
    BY <1>0, <1>7, SaveAnswerIs
  <2>2. PICK b \in Actor : /\ Written(turn[t].id, turn[t].copy, t, t, b, None, Idle)
                           /\ b.phase = "saved"
    BY <1>0, <1>7, SaveAnswerIs
  <2>3. id = turn[t].id /\ mem'[id] = turn[t].copy /\ turn'[t].phase = "saved"
    BY <2>2 DEF Written
  <2>4. ~turn[t].sync
    BY <2>1, <2>3 DEF SyncInv, SyncedTurn
  <2>5. Stale(turn[t], turn'[t], id)
    BY <2>1, <2>3, <2>4 DEF Stale
  <2>. QED
    BY <2>5 DEF Accounted
<1>8. CASE Restart
  BY <1>0, <1>8, RestartIs DEF Accounted
<1>9. ASSUME NEW t \in Turn, Prepare(t) \/ EndTurn(t) PROVE mem' = mem
  <2>1. SaveOnly \/ UNCHANGED <<mem, live, disk, saved>>
    BY <1>9 DEF Prepare, EndTurn
  <2>. QED
    BY <1>0, <2>1, SaveOnlyIs
<1>10. CASE UNCHANGED vars
  BY <1>10 DEF vars
<1>11. ASSUME NEW x \in Id, RefreshEnds(x) PROVE mem' = mem
  BY <1>11 DEF RefreshEnds
<1>12. ASSUME NEW t \in Turn, NEW x \in Id, Read(t, x) \/ Summarised(t) \/ Fail(t)
       PROVE  mem' = mem
  BY <1>12 DEF Read, Summarised, Fail
<1>13. ASSUME NEW e \in Edit, NEW x \in Id, GetForEdit(e, x) \/ CompactionFails(e)
       PROVE  mem' = mem
  BY <1>13 DEF GetForEdit, CompactionFails
<1>. QED
  BY <1>1, <1>2, <1>3, <1>4, <1>5, <1>6, <1>7, <1>8, <1>9, <1>10, <1>11, <1>12, <1>13
     DEF Next, TurnStep, EditStep

LEMMA SyncHolds == Spec => [](Inv /\ SyncInv)
<1>. QED
  BY InvInit, InvStep, SyncInit, SyncStep, PTL DEF Spec

(* Only an actor whose record was written by another in between changes it  *)
(* in a way that its request does not account for.                          *)
THEOREM ChangesAreAtomic == Spec => AtomicUnlessOverlapped
<1>1. Inv /\ SyncInv /\ [Next]_vars =>
        [\A id \in Id :
           Core(mem'[id]) # Core(mem[id]) =>
              \/ Atomically(id)
              \/ crashes' # crashes
              \/ \E t \in Turn : Stale(turn[t], turn'[t], id)
              \/ \E e \in Edit : Stale(edit[e], edit'[e], id)]_vars
  BY AccountedStep DEF Accounted
<1>. QED
  BY <1>1, SyncHolds, PTL DEF Spec, AtomicUnlessOverlapped

-----------------------------------------------------------------------------
(* The pin, and what is on disk.                                            *)

LEMMA PinStep ==
  ASSUME Inv, SyncInv, [Next]_vars, NEW t \in Turn,
         turn[t].phase = "answered", turn'[t].phase = "saved", turn[t].seen,
         Exists(turn[t].id)
  PROVE  mem'[turn[t].id].pin = mem[turn[t].id].pin
<1>0. Typed /\ CopiesExist /\ None \notin Turn /\ None \notin Edit
  BY EditsAre DEF Inv
<1>1. CASE SaveAnswer(t)
  <2>1. mem'[turn[t].id] = turn[t].copy
    BY <1>0, <1>1, SaveAnswerIs DEF Written
  <2>2. turn[t].copy.pin = mem[turn[t].id].pin
    BY DEF SyncInv, SyncedTurn, Exists
  <2>. QED
    BY <2>1, <2>2
(* Nothing else takes a turn from there to there.                           *)
<1>2. ASSUME UNCHANGED turn PROVE FALSE
  BY <1>2
<1>3. ASSUME NEW u, u # t \/ turn[u].phase # "answered",
             \A v \in Turn : v # u => turn'[v].phase = turn[v].phase
      PROVE  FALSE
  BY <1>3
<1>4. ASSUME NEW id, NEW rec, NEW owner, NEW u, u # t \/ turn[u].phase # "answered",
             NEW b, NEW e, NEW c, Written(id, rec, owner, u, b, e, c)
      PROVE  FALSE
  <2>1. \A v \in Turn : v # u => turn'[v].phase = turn[v].phase
    BY <1>4 DEF Written, Kept
  <2>. QED
    BY <1>3, <1>4, <2>1
<1>5. ASSUME NEW u \in Turn, u # t \/ turn[u].phase # "answered", NEW b, OnlyTurn(u, b)
      PROVE  FALSE
  BY <1>3, <1>5 DEF OnlyTurn
<1>6. ~NewWebConv
  BY <1>0, <1>4, NewWebConvIs
<1>7. \A id \in Id : ~Delete(id)
  BY <1>0, <1>4, DeleteIs
<1>8. \A id \in Id : ~RefreshEnds(id)
  BY <1>2 DEF RefreshEnds
<1>9. \A u \in Turn, id \in Id : ~Read(u, id)
  BY <1>0, <1>5, ReadIs
<1>10. ASSUME NEW u \in Turn, Prepare(u) PROVE FALSE
  <2>1. turn[u].copy \in Record /\ turn[u].phase = "read"
    BY <1>0, <1>10 DEF Prepare, CopiesExist, InFlight
  <2>2. \A v \in Turn : v # u => turn'[v] = turn[v]
    BY <1>0, <1>10, <2>1, PrepareIs
  <2>. QED
    BY <1>3, <2>1, <2>2
<1>11. ASSUME NEW u \in Turn, Summarised(u) PROVE FALSE
  <2>1. turn[u].copy \in Record /\ turn[u].phase = "summing"
    BY <1>0, <1>11 DEF Summarised, CopiesExist, InFlight
  <2>2. \A v \in Turn : v # u => turn'[v] = turn[v]
    BY <1>0, <1>11, <2>1, SummarisedIs
  <2>. QED
    BY <1>3, <2>1, <2>2
<1>12. \A u \in Turn : ~SavePending(u)
  BY <1>0, <1>4, SavePendingIs
<1>13. ASSUME NEW u \in Turn, Answer(u) PROVE FALSE
  <2>1. PICK b \in Actor : /\ b.phase = "answered"
                           /\ \/ Written(turn[u].id, b.copy, u, u, b, None, Idle)
                              \/ OnlyTurn(u, b)
    BY <1>0, <1>13, AnswerIs
  <2>2. turn[u].phase = "running"
    BY <1>0, <1>13, AnswerIs
  <2>. QED
    BY <1>4, <1>5, <2>1, <2>2
<1>14. \A u \in Turn : ~Fail(u)
  BY <1>0, <1>5, FailIs
<1>15. \A u \in Turn : u # t => ~SaveAnswer(u)
  BY <1>0, <1>4, SaveAnswerIs
<1>16. \A u \in Turn : ~EndTurn(u)
  BY <1>0, <1>5, EndTurnIs
<1>17. \A e \in Edit, id \in Id : ~GetForEdit(e, id)
  BY <1>2 DEF GetForEdit
<1>18. \A e \in Edit : ~PutEdit(e)
  BY <1>0, <1>4, PutEditIs
<1>19. \A e \in Edit : ~CompactionFails(e)
  BY <1>2 DEF CompactionFails
<1>20. ~Restart
  <2>. SUFFICES ASSUME Restart PROVE FALSE
    OBVIOUS
  <2>1. ~InFlight(turn'[t])
    BY <1>0, RestartIs
  <2>. QED
    BY <2>1 DEF InFlight
<1>21. ~(UNCHANGED vars)
  BY <1>2 DEF vars
<1>. QED
  BY <1>1, <1>6, <1>7, <1>8, <1>9, <1>10, <1>11, <1>12, <1>13, <1>14, <1>15, <1>16, <1>17,
     <1>18, <1>19, <1>20, <1>21 DEF Next, TurnStep, EditStep

(* A pin set while a turn runs survives the turn's final save.              *)
THEOREM PinIsKept == Spec => PinSetDuringRunIsKept
<1>1. Inv /\ SyncInv /\ [Next]_vars =>
        [\A t \in Turn :
           LET id == turn[t].id
           IN turn[t].phase = "answered" /\ turn'[t].phase = "saved"
                /\ turn[t].seen /\ Exists(id) => mem'[id].pin = mem[id].pin]_vars
  BY PinStep
<1>. QED
  BY <1>1, SyncHolds, PTL DEF Spec, PinSetDuringRunIsKept

(* The records that differ from those on disk are those of answers that are *)
(* about to be saved.                                                       *)
Unsaved(id) == live[id] \in Turn /\ turn[live[id]].phase = "answered"

Durable == saved => \A id \in Id : mem[id] = disk[id] \/ Unsaved(id)

LEMMA DurableStep == Inv /\ Durable /\ [Next]_vars => Durable'
<1>. SUFFICES ASSUME Inv, Durable, [Next]_vars PROVE Durable'
  OBVIOUS
<1>0. Typed /\ CopiesExist /\ None \notin Turn
  BY EditsAre DEF Inv
<1>1. ASSUME Flushed PROVE Durable'
  BY <1>1 DEF Flushed, Durable, Unsaved
(* A step that saves all or nothing, of a turn that has no answer to save.  *)
<1>2. ASSUME mem' = mem, live' = live, saved' => disk' = mem' \/ (saved /\ disk' = disk),
             NEW t, t \in Turn => turn[t].phase # "answered",
             \A u \in Turn : u # t => turn'[u] = turn[u]
      PROVE  Durable'
  <2>1. CASE disk' = mem'
    BY <2>1 DEF Durable
  <2>2. CASE saved /\ disk' = disk
    <3>. SUFFICES ASSUME NEW id \in Id, mem[id] # disk[id]
                  PROVE  live'[id] \in Turn /\ turn'[live'[id]].phase = "answered"
      BY <1>2, <2>2 DEF Durable, Unsaved
    <3>1. live[id] \in Turn /\ turn[live[id]].phase = "answered"
      BY <2>2 DEF Durable, Unsaved
    <3>. QED
      BY <1>2, <3>1
  <2>3. CASE ~saved'
    BY <2>3 DEF Durable
  <2>. QED
    BY <1>2, <2>1, <2>2, <2>3
<1>3. ASSUME NEW t \in Turn, NEW b, OnlyTurn(t, b), turn[t].phase # "answered",
             UNCHANGED <<mem, live, disk, saved>>
      PROVE  Durable'
  BY <1>2, <1>3 DEF OnlyTurn
<1>4. CASE UNCHANGED <<mem, live, disk, saved, turn>>
  BY <1>4 DEF Durable, Unsaved
<1>5. CASE NewWebConv
  BY <1>0, <1>1, <1>5, NewWebConvIs
<1>6. ASSUME NEW id \in Id, Delete(id) PROVE Durable'
  BY <1>0, <1>1, <1>6, DeleteIs
<1>7. ASSUME NEW t \in Turn, NEW id \in Id, Read(t, id) PROVE Durable'
  BY <1>0, <1>3, <1>7, ReadIs
<1>8. ASSUME NEW t \in Turn, Prepare(t) PROVE Durable'
  <2>1. turn[t].copy \in Record /\ turn[t].phase = "read"
    BY <1>0, <1>8 DEF Prepare, CopiesExist, InFlight
  <2>2. /\ SaveOnly \/ UNCHANGED <<mem, live, disk, saved>>
        /\ \A v \in Turn : v # t => turn'[v] = turn[v]
    BY <1>0, <1>8, <2>1, PrepareIs
  <2>3. mem' = mem /\ live' = live /\ (saved' => disk' = mem' \/ (saved /\ disk' = disk))
    BY <1>0, <2>2, SaveOnlyIs
  <2>. QED
    BY <1>2, <2>1, <2>2, <2>3
<1>9. ASSUME NEW t \in Turn, Summarised(t) PROVE Durable'
  <2>1. turn[t].copy \in Record /\ turn[t].phase = "summing"
    BY <1>0, <1>9 DEF Summarised, CopiesExist, InFlight
  <2>2. /\ \A v \in Turn : v # t => turn'[v] = turn[v]
        /\ UNCHANGED <<mem, disk, live, edit, job, saved, stale, crashes>>
    BY <1>0, <1>9, <2>1, SummarisedIs
  <2>. QED
    BY <1>2, <2>1, <2>2
<1>10. ASSUME NEW t \in Turn, SavePending(t) PROVE Durable'
  BY <1>0, <1>1, <1>10, SavePendingIs
<1>11. ASSUME NEW t \in Turn, Answer(t) PROVE Durable'
  <2>1. /\ turn[t].phase = "running" /\ turn[t].id \in Id
        /\ UNCHANGED <<disk, live, cache, job, saved, stale, crashes>>
    BY <1>0, <1>11, AnswerIs
  <2>2. PICK b \in Actor :
          /\ b.phase = "answered"
          /\ \/ /\ live[turn[t].id] = t
                /\ Written(turn[t].id, b.copy, t, t, b, None, Idle)
             \/ OnlyTurn(t, b) /\ UNCHANGED mem
    BY <1>0, <1>11, AnswerIs
  <2>3. CASE live[turn[t].id] = t /\ Written(turn[t].id, b.copy, t, t, b, None, Idle)
    <3>. SUFFICES ASSUME saved, NEW id \in Id, mem'[id] # disk'[id]
                  PROVE  live'[id] \in Turn /\ turn'[live'[id]].phase = "answered"
      BY <2>1 DEF Durable, Unsaved
    <3>1. turn'[t].phase = "answered"
      BY <2>2, <2>3 DEF Written
    <3>2. CASE id = turn[t].id
      BY <2>1, <2>3, <3>1, <3>2
    <3>3. CASE id # turn[t].id
      <4>1. live[id] \in Turn /\ turn[live[id]].phase = "answered"
        BY <2>1, <2>3, <3>3 DEF Written, Durable, Unsaved
      <4>2. turn'[live[id]].phase = "answered"
        BY <2>1, <2>3, <4>1 DEF Written, Kept
      <4>. QED
        BY <2>1, <4>1, <4>2
    <3>. QED
      BY <3>2, <3>3
  <2>4. CASE OnlyTurn(t, b) /\ UNCHANGED mem
    BY <1>3, <2>1, <2>4
  <2>. QED
    BY <2>2, <2>3, <2>4
<1>12. ASSUME NEW t \in Turn, Fail(t) PROVE Durable'
  BY <1>0, <1>3, <1>12, FailIs
<1>13. ASSUME NEW t \in Turn, SaveAnswer(t) PROVE Durable'
  BY <1>0, <1>1, <1>13, SaveAnswerIs
<1>14. ASSUME NEW t \in Turn, EndTurn(t) PROVE Durable'
  <2>1. /\ turn[t].phase = "saved" /\ OnlyTurn(t, Done)
        /\ SaveOnly \/ UNCHANGED <<mem, live, disk, saved>>
    BY <1>0, <1>14, EndTurnIs
  <2>2. mem' = mem /\ live' = live /\ (saved' => disk' = mem' \/ (saved /\ disk' = disk))
    BY <1>0, <2>1, SaveOnlyIs
  <2>. QED
    BY <1>2, <2>1, <2>2 DEF OnlyTurn
<1>15. ASSUME NEW e \in Edit, PutEdit(e) PROVE Durable'
  BY <1>0, <1>1, <1>15, PutEditIs
<1>16. CASE Restart
  <2>1. mem' = disk /\ disk' = disk
    BY <1>0, <1>16, RestartIs
  <2>. QED
    BY <2>1 DEF Durable
<1>17. ASSUME NEW id \in Id, RefreshEnds(id) PROVE Durable'
  BY <1>4, <1>17 DEF RefreshEnds
<1>18. ASSUME NEW e \in Edit, NEW id \in Id, GetForEdit(e, id) \/ CompactionFails(e)
       PROVE  Durable'
  BY <1>4, <1>18 DEF GetForEdit, CompactionFails
<1>19. CASE UNCHANGED vars
  BY <1>4, <1>19 DEF vars
<1>20. Id # {}
  BY StoreAssumption DEF Id
<1>. QED
  BY <1>5, <1>6, <1>7, <1>8, <1>9, <1>10, <1>11, <1>12, <1>13, <1>14, <1>15, <1>16, <1>17,
     <1>18, <1>19, <1>20 DEF Next, TurnStep, EditStep

(* What was acknowledged without an error is on disk, the answer apart that *)
(* is about to be saved.                                                    *)
THEOREM ConfirmedIsOnDisk == Spec => []ConfirmedIsDurable
<1>1. Init => Durable
  BY DEF Init, Durable
<1>2. Durable => ConfirmedIsDurable
  BY EditsAre DEF Durable, Unsaved, ConfirmedIsDurable
<1>. QED
  BY <1>1, <1>2, InvInit, InvStep, DurableStep, PTL DEF Spec

-----------------------------------------------------------------------------
(* What summaries leave out.  As long as no edit brought old turns back, a  *)
(* summary of a conversation covers the turns it claims to, in the record   *)
(* and in the copy of the turn at work, which holds whatever the record     *)
(* does.  c, j and m are the cached summary, the one in the making and the  *)
(* record.                                                                  *)

GoodRecord(c, j, m) ==
    m # NoRecord => \A s \in {c, j, m.summary} : Cover(s, m.history)

GoodTurn(c, j, m, a) ==
    /\ \A s \in {c, j, a.copy.summary} : Cover(s, a.copy.history)
    /\ m # NoRecord => /\ Cover(m.summary, a.copy.history)
                       /\ TurnsIn(m.history) \subseteq TurnsIn(a.copy.history)
    /\ a.phase = "ready" => TurnsIn(a.copy.history) \subseteq a.told

CoverInv ==
    ~stale =>
      /\ \A x \in Id : GoodRecord(cache[x], job[x], mem[x])
      /\ \A x \in Id : disk[x] # NoRecord => Cover(disk[x].summary, disk[x].history)
      /\ \A t \in Turn : InFlight(turn[t]) =>
           GoodTurn(cache[turn[t].id], job[turn[t].id], mem[turn[t].id], turn[t])

LEMMA CoverLess ==
  ASSUME NEW s, NEW h, NEW g, TurnsIn(g) \subseteq TurnsIn(h), Cover(s, h)
  PROVE  Cover(s, g)
BY DEF Cover

LEMMA NothingCovers ==
  /\ \A h \in Seq(Entry) : Cover(NoSummary, h)
  /\ \A s : Cover(s, <<>>)
<1>1. \A h \in Seq(Entry) : \A u \in TurnsIn(h) : u \in Turn
  BY Turns
<1>2. \A u \in Turn : ~(u <= 0)
  BY StoreAssumption DEF Turn
<1>. QED
  BY <1>1, <1>2, NewRecordIs DEF Cover, NoSummary

(* A step of turn t on conversation id, and one of nobody's turn.           *)
LEMMA CoverByTurn ==
  ASSUME Inv, CoverInv, NEW t \in Turn, NEW id \in Id, NEW e, Frame(t, e),
         InFlight(turn[t]) => turn[t].id = id,
         InFlight(turn[t]) \/ (\A u \in Turn : ~(InFlight(turn[u]) /\ turn[u].id = id)),
         InFlight(turn'[t]) => turn'[t].id = id,
         \A x \in Id : x # id => mem'[x] = mem[x] /\ cache'[x] = cache[x] /\ job'[x] = job[x],
         \A x \in Id : disk'[x] \in {disk[x], mem'[x]}, stale' = stale,
         ~stale => /\ GoodRecord(cache'[id], job'[id], mem'[id])
                   /\ InFlight(turn'[t]) =>
                        GoodTurn(cache'[id], job'[id], mem'[id], turn'[t])
  PROVE  CoverInv'
<1>. SUFFICES ASSUME ~stale
              PROVE  /\ \A x \in Id : GoodRecord(cache'[x], job'[x], mem'[x])
                     /\ \A x \in Id : disk'[x] # NoRecord =>
                          Cover(disk'[x].summary, disk'[x].history)
                     /\ \A u \in Turn : InFlight(turn'[u]) =>
                          GoodTurn(cache'[turn'[u].id], job'[turn'[u].id],
                                   mem'[turn'[u].id], turn'[u])
  BY DEF CoverInv, InFlight
<1>1. \A x \in Id : GoodRecord(cache'[x], job'[x], mem'[x])
  BY DEF CoverInv
<1>2. \A x \in Id : disk'[x] # NoRecord => Cover(disk'[x].summary, disk'[x].history)
  BY <1>1 DEF CoverInv, GoodRecord
<1>3. ASSUME NEW u \in Turn, InFlight(turn'[u])
      PROVE  GoodTurn(cache'[turn'[u].id], job'[turn'[u].id], mem'[turn'[u].id], turn'[u])
  <2>1. CASE u = t
    BY <1>3, <2>1
  <2>2. CASE u # t
    <3>1. Same(turn[u], turn'[u]) /\ InFlight(turn[u])
      BY <1>3, <2>2 DEF Frame, Same, InFlight
    <3>2. turn[u].id # id /\ turn[u].id \in Id
      BY <2>2, <3>1 DEF Inv, OneTurn, Typed, Actor
    <3>3. GoodTurn(cache[turn[u].id], job[turn[u].id], mem[turn[u].id], turn[u])
      BY <3>1 DEF CoverInv
    <3>. QED
      BY <3>1, <3>2, <3>3 DEF Same, GoodTurn
  <2>. QED
    BY <2>1, <2>2
<1>. QED
  BY <1>1, <1>2, <1>3

LEMMA CoverByOther ==
  ASSUME Inv, CoverInv, NEW id \in Id, NEW e, Frame(None, e),
         \A x \in Id : x # id => mem'[x] = mem[x] /\ cache'[x] = cache[x] /\ job'[x] = job[x],
         \A x \in Id : disk'[x] \in {disk[x], mem'[x]}, ~stale' => ~stale,
         ~stale' => /\ GoodRecord(cache'[id], job'[id], mem'[id])
                    /\ \A u \in Turn : InFlight(turn[u]) /\ turn[u].id = id =>
                         GoodTurn(cache'[id], job'[id], mem'[id], turn[u])
  PROVE  CoverInv'
<1>. SUFFICES ASSUME ~stale'
              PROVE  /\ \A x \in Id : GoodRecord(cache'[x], job'[x], mem'[x])
                     /\ \A x \in Id : disk'[x] # NoRecord =>
                          Cover(disk'[x].summary, disk'[x].history)
                     /\ \A u \in Turn : InFlight(turn'[u]) =>
                          GoodTurn(cache'[turn'[u].id], job'[turn'[u].id],
                                   mem'[turn'[u].id], turn'[u])
  BY DEF CoverInv, InFlight
<1>1. \A x \in Id : GoodRecord(cache'[x], job'[x], mem'[x])
  BY DEF CoverInv
<1>2. \A x \in Id : disk'[x] # NoRecord => Cover(disk'[x].summary, disk'[x].history)
  BY <1>1 DEF CoverInv, GoodRecord
<1>3. ASSUME NEW u \in Turn, InFlight(turn'[u])
      PROVE  GoodTurn(cache'[turn'[u].id], job'[turn'[u].id], mem'[turn'[u].id], turn'[u])
  <2>1. Same(turn[u], turn'[u]) /\ InFlight(turn[u]) /\ turn[u].id \in Id
    BY <1>3, EditsAre DEF Frame, Same, InFlight, Inv, Typed, Actor
  <2>2. GoodTurn(cache[turn[u].id], job[turn[u].id], mem[turn[u].id], turn[u])
    BY <2>1 DEF CoverInv
  <2>3. CASE turn[u].id = id
    BY <2>1, <2>3 DEF Same, GoodTurn
  <2>4. CASE turn[u].id # id
    BY <2>1, <2>2, <2>4 DEF Same, GoodTurn
  <2>. QED
    BY <2>3, <2>4
<1>. QED
  BY <1>1, <1>2, <1>3

(* What the turn at work makes of its copy covers the record as well.       *)
LEMMA MadeIsGood ==
  ASSUME Inv, CoverInv, ~stale, NEW t \in Turn, InFlight(turn[t]),
         NEW s \in MadeOf(Known(t), turn[t].copy.history)
  PROVE  /\ Cover(s, turn[t].copy.history)
         /\ mem[turn[t].id] # NoRecord => Cover(s, mem[turn[t].id].history)
<1>1. /\ turn[t].copy.history \in Seq(Entry) /\ Known(t) \in SUBSET Summary
      /\ Ascending(turn[t].copy.history)
  BY CopyIsFine DEF Known, Fine
<1>2. GoodTurn(cache[turn[t].id], job[turn[t].id], mem[turn[t].id], turn[t])
  BY DEF CoverInv
<1>3. \A k \in Known(t) : Cover(k, turn[t].copy.history)
  BY <1>2 DEF Known, GoodTurn
<1>4. Cover(s, turn[t].copy.history)
  BY <1>1, <1>3, MadeOfIs
<1>. QED
  BY <1>2, <1>4, CoverLess DEF GoodTurn

LEMMA CoverPrompt ==
  ASSUME NEW h \in Seq(Entry), NEW t \in Turn, NEW s \in Summary, Cover(s, h), s.upTo < t
  PROVE  Cover(s, Append(h, Prompt(t)))
<1>1. TurnsIn(Append(h, Prompt(t))) = TurnsIn(h) \cup {t}
  BY Prompted
<1>2. ~(t <= s.upTo)
  BY StoreAssumption DEF Turn, Summary
<1>. QED
  BY <1>1, <1>2 DEF Cover

LEMMA CoverInit == Init => CoverInv
<1>. SUFFICES ASSUME Init PROVE CoverInv
  OBVIOUS
<1>1. /\ disk = mem /\ Typed
      /\ \A t \in Turn : ~InFlight(turn[t])
      /\ \A x \in Id : cache[x] = NoSummary /\ job[x] = NoSummary
  BY IdleIs, TypedInit DEF Init
<1>2. ASSUME NEW x \in Id, mem[x] # NoRecord
      PROVE  Cover(mem[x].summary, mem[x].history) /\ Cover(NoSummary, mem[x].history)
  <2>1. mem[x] \in Record
    BY <1>1, <1>2 DEF Typed, Store
  <2>2. mem[x].history \in Seq(Entry)
    BY <2>1, RecordIs
  <2>. DEFINE P == 1..PastWeb \cap {1}
  <2>3. mem[x].summary \in {NoSummary, Folded(NoSummary, P)}
    <3>1. CASE x = 1
      <4>1. x # Telegram
        BY <3>1 DEF Telegram
      <4>2. mem[x] = [NewRecord EXCEPT !.history = PastOf(x), !.summary = Folded(@, P)]
        BY <3>1, <4>1, Zenon DEF Init
      <4>3. mem[x].summary = Folded(NewRecord.summary, P)
        BY <4>2 DEF NewRecord
      <4>. QED
        BY <4>3, NewRecordIs
    <3>2. CASE x # 1
      <4>1. mem[x].summary = NewRecord.summary
        BY <1>2, <3>2 DEF Init, NewRecord
      <4>. QED
        BY <4>1, NewRecordIs
    <3>. QED
      BY <3>1, <3>2
  <2>4. P \in SUBSET Turn /\ P \in SUBSET {1}
    BY StoreAssumption DEF Turn
  <2>. HIDE DEF P
  <2>5. /\ P = {} => Folded(NoSummary, P) = NoSummary
        /\ P # {} => Folded(NoSummary, P).upTo = 1 /\ 1 \in Folded(NoSummary, P).turns
    <3>1. /\ P = {} => Folded(NoSummary, P) = NoSummary
          /\ Folded(NoSummary, P).turns = NoSummary.turns \cup P
          /\ P # {} => Folded(NoSummary, P).upTo \in P
      BY <2>4, NewRecordIs, FoldedIs
    <3>2. P # {} => 1 \in P
      BY <2>4
    <3>. QED
      BY <2>4, <3>1, <3>2
  <2>6. \A u \in TurnsIn(mem[x].history) : u \in Turn
    BY <2>2, Turns
  <2>7. \A u \in Turn : u <= 1 => u = 1
    BY StoreAssumption DEF Turn
  <2>8. Cover(NoSummary, mem[x].history)
    BY <2>2, NothingCovers
  <2>. QED
    BY <2>3, <2>5, <2>6, <2>7, <2>8 DEF Cover
<1>3. \A x \in Id : GoodRecord(cache[x], job[x], mem[x])
  BY <1>1, <1>2 DEF GoodRecord
<1>. QED
  BY <1>1, <1>2, <1>3 DEF CoverInv

LEMMA CoverStep == Inv /\ SyncInv /\ CoverInv /\ [Next]_vars => CoverInv'
<1>. SUFFICES ASSUME Inv, SyncInv, CoverInv, [Next]_vars PROVE CoverInv'
  OBVIOUS
<1>0. Typed /\ CopiesExist /\ None \notin Turn /\ None \notin Edit
  BY EditsAre DEF Inv
<1>1. CASE UNCHANGED <<mem, disk, turn, cache, job, stale>>
  BY <1>1 DEF CoverInv
(* A new conversation, a deletion.                                          *)
<1>2. ASSUME NEW id \in Id, NEW rec \in {NewRecord, NoRecord},
             Written(id, rec, None, None, Idle, None, Idle), Flushed,
             UNCHANGED <<cache, job, stale, crashes>>
      PROVE  CoverInv'
  <2>1. /\ Frame(None, None) /\ mem'[id] = rec
        /\ \A x \in Id : x # id => mem'[x] = mem[x]
    BY <1>2, WrittenFrame
  <2>2. GoodRecord(cache'[id], job'[id], rec)
    BY NewRecordIs, NothingCovers DEF GoodRecord
  <2>3. ASSUME NEW u \in Turn, InFlight(turn[u]), turn[u].id = id, ~stale
        PROVE  GoodTurn(cache'[id], job'[id], rec, turn[u])
    <3>1. GoodTurn(cache[id], job[id], mem[id], turn[u])
      BY <2>3 DEF CoverInv
    <3>2. rec # NoRecord => Cover(rec.summary, turn[u].copy.history) /\ TurnsIn(rec.history) = {}
      BY <2>3, CopyIsFine, NewRecordIs, NothingCovers
    <3>. QED
      BY <1>2, <3>1, <3>2 DEF GoodTurn
  <2>4. \A x \in Id : disk'[x] \in {disk[x], mem'[x]}
    BY <1>2 DEF Flushed
  <2>. QED
    BY <1>0, <1>2, <2>1, <2>2, <2>3, <2>4, CoverByOther
<1>3. CASE NewWebConv
  BY <1>0, <1>2, <1>3, NewWebConvIs
<1>4. ASSUME NEW id \in Id, Delete(id) PROVE CoverInv'
  BY <1>0, <1>2, <1>4, DeleteIs
<1>5. ASSUME NEW id \in Id, RefreshEnds(id) PROVE CoverInv'
  <2>1. /\ cache'[id] \in {cache[id], job[id]} /\ job'[id] = NoSummary
        /\ \A x \in Id : x # id => mem'[x] = mem[x] /\ cache'[x] = cache[x] /\ job'[x] = job[x]
        /\ UNCHANGED <<mem, disk, live, turn, edit, saved, stale, crashes>>
    BY <1>0, <1>5, RefreshEndsIs DEF Typed
  <2>2. Frame(None, None) /\ \A x \in Id : disk'[x] \in {disk[x], mem'[x]}
    BY <2>1 DEF Frame, Same
  <2>3. ~stale => GoodRecord(cache'[id], job'[id], mem'[id])
    <3>1. mem[id] # NoRecord => Cover(NoSummary, mem[id].history)
      BY <1>0, RecordIs, NothingCovers DEF Typed, Store
    <3>. QED
      BY <2>1, <3>1 DEF CoverInv, GoodRecord
  <2>4. ASSUME NEW u \in Turn, InFlight(turn[u]), turn[u].id = id, ~stale
        PROVE  GoodTurn(cache'[id], job'[id], mem'[id], turn[u])
    <3>1. GoodTurn(cache[id], job[id], mem[id], turn[u])
      BY <2>4 DEF CoverInv
    <3>2. Cover(NoSummary, turn[u].copy.history)
      BY <2>4, CopyIsFine, NothingCovers
    <3>. QED
      BY <2>1, <3>1, <3>2 DEF GoodTurn
  <2>. QED
    BY <2>1, <2>2, <2>3, <2>4, CoverByOther
<1>6. ASSUME NEW e \in Edit, PutEdit(e) PROVE CoverInv'
  <2>. DEFINE id == edit[e].id
              rec == Edited(edit[e].copy, e)
  <2>1. /\ edit[e].phase = "read" /\ id \in Id /\ edit[e].copy \in Record
        /\ Written(id, rec, None, None, Idle, e, Done) /\ Flushed
        /\ stale' = (stale \/ ~edit[e].sync) /\ UNCHANGED <<cache, job, crashes>>
    BY <1>0, <1>6, PutEditIs
  <2>2. /\ Frame(None, e) /\ mem'[id] = rec
        /\ \A x \in Id : x # id => mem'[x] = mem[x]
    BY <2>1, WrittenFrame
  <2>3. \A x \in Id : disk'[x] \in {disk[x], mem'[x]}
    BY <2>1 DEF Flushed
  <2>4. /\ rec # NoRecord /\ rec.summary = edit[e].copy.summary
        /\ rec.history = edit[e].copy.history \/ rec.history = <<>>
    BY <2>1, EditedIs, NoRecordIsNone
  <2>5. ASSUME ~stale'
        PROVE  /\ ~stale /\ mem[id] # NoRecord /\ rec.summary = mem[id].summary
               /\ TurnsIn(rec.history) \subseteq TurnsIn(mem[id].history)
    <3>1. ~stale /\ edit[e].copy = mem[id]
      BY <2>1, <2>5 DEF SyncInv, SyncedEdit
    <3>. QED
      BY <2>1, <2>4, <3>1, NewRecordIs, NoRecordIsNone
  <2>. HIDE DEF rec, id
  <2>6. ASSUME ~stale' PROVE GoodRecord(cache'[id], job'[id], mem'[id])
    <3>1. \A s \in {cache[id], job[id], mem[id].summary} : Cover(s, mem[id].history)
      BY <2>1, <2>5, <2>6 DEF CoverInv, GoodRecord
    <3>2. \A s \in {cache[id], job[id], mem[id].summary} : Cover(s, rec.history)
      BY <2>5, <2>6, <3>1, CoverLess
    <3>. QED
      BY <2>1, <2>2, <2>5, <2>6, <3>2 DEF GoodRecord
  <2>7. ASSUME ~stale', NEW u \in Turn, InFlight(turn[u]), turn[u].id = id
        PROVE  GoodTurn(cache'[id], job'[id], mem'[id], turn[u])
    <3>1. GoodTurn(cache[id], job[id], mem[id], turn[u])
      BY <2>5, <2>7 DEF CoverInv
    <3>. QED
      BY <2>1, <2>2, <2>5, <2>7, <3>1 DEF GoodTurn
  <2>. QED
    BY <2>1, <2>2, <2>3, <2>5, <2>6, <2>7, CoverByOther
(* The turns.                                                               *)
<1>7. ASSUME NEW t \in Turn, NEW id \in Id, Read(t, id) PROVE CoverInv'
  <2>1. /\ turn[t].phase = "new" /\ mem[id] \in Record
        /\ \A u \in Turn : ~(InFlight(turn[u]) /\ turn[u].id = id)
        /\ UNCHANGED <<mem, disk, live, cache, job, saved, stale, crashes>>
    BY <1>0, <1>7, ReadIs
  <2>2. PICK b \in Actor : b.phase = "read" /\ b.id = id /\ b.copy = mem[id] /\ OnlyTurn(t, b)
    BY <1>0, <1>7, ReadIs
  <2>3. Frame(t, None) /\ turn'[t] = b /\ ~InFlight(turn[t])
    BY <2>1, <2>2 DEF Frame, Same, OnlyTurn, InFlight
  <2>4. ~stale => /\ GoodRecord(cache[id], job[id], mem[id])
                  /\ GoodTurn(cache[id], job[id], mem[id], b)
    BY <2>1, <2>2, NoRecordIsNone DEF CoverInv, GoodRecord, GoodTurn
  <2>. QED
    BY <2>1, <2>2, <2>3, <2>4, CoverByTurn
<1>8. ASSUME NEW t \in Turn, Prepare(t) PROVE CoverInv'
  <2>. DEFINE id == turn[t].id
              h == turn[t].copy.history
  <2>0. InFlight(turn[t]) /\ turn[t].phase = "read"
    BY <1>8 DEF Prepare, InFlight
  <2>1. /\ id \in Id /\ turn[t].copy \in Record /\ Ascending(h)
        /\ Known(t) \in SUBSET Summary
    BY <2>0, CopyIsFine DEF Known, Fine
  <2>2. /\ SaveOnly \/ UNCHANGED <<mem, live, disk, saved>>
        /\ \A u \in Turn : u # t => turn'[u] = turn[u]
        /\ turn'[t].phase \in {"ready", "summing"} /\ turn'[t].id = id
        /\ job'[id] \in {job[id]} \cup MadeOf(Known(t), h)
        /\ \A x \in Id : x # id => job'[x] = job[x]
        /\ turn'[t].phase = "ready" /\ Ascending(h) /\ (\A s \in Known(t) : Cover(s, h))
             => TurnsIn(h) \subseteq turn'[t].told
        /\ UNCHANGED <<edit, cache, stale, crashes>>
    BY <1>0, <1>8, <2>1, PrepareIs
  <2>3. PICK s \in Known(t) : turn'[t].copy \in {turn[t].copy, WithSummary(turn[t].copy, s)}
    BY <1>0, <1>8, <2>1, PrepareIs
  <2>4. turn'[t].copy.history = h /\ turn'[t].copy.summary \in Known(t)
    BY <2>1, <2>3, WithSummaryIs DEF Known
  <2>5. mem' = mem /\ \A x \in Id : disk'[x] \in {disk[x], mem'[x]}
    BY <1>0, <2>2, SaveOnlyIs
  <2>6. Frame(t, None)
    BY <2>2 DEF Frame, Same
  <2>7. ASSUME ~stale
        PROVE  /\ GoodRecord(cache'[id], job'[id], mem'[id])
               /\ GoodTurn(cache'[id], job'[id], mem'[id], turn'[t])
    <3>1. GoodTurn(cache[id], job[id], mem[id], turn[t]) /\ GoodRecord(cache[id], job[id], mem[id])
      BY <2>0, <2>1, <2>7 DEF CoverInv
    <3>2. Cover(job'[id], h) /\ (mem[id] # NoRecord => Cover(job'[id], mem[id].history))
      <4>1. CASE job'[id] = job[id]
        BY <3>1, <4>1 DEF GoodTurn, GoodRecord
      <4>2. CASE job'[id] \in MadeOf(Known(t), h)
        BY <2>0, <2>7, <4>2, MadeIsGood
      <4>. QED
        BY <2>2, <4>1, <4>2
    <3>3. \A k \in Known(t) : Cover(k, h)
      BY <3>1 DEF Known, GoodTurn
    <3>4. turn'[t].phase = "ready" => TurnsIn(h) \subseteq turn'[t].told
      BY <2>1, <2>2, <3>3
    <3>5. GoodRecord(cache'[id], job'[id], mem'[id])
      BY <2>2, <2>5, <3>1, <3>2 DEF GoodRecord
    <3>6. GoodTurn(cache'[id], job'[id], mem'[id], turn'[t])
      BY <2>2, <2>4, <2>5, <3>1, <3>2, <3>3, <3>4 DEF GoodTurn
    <3>. QED
      BY <3>5, <3>6
  <2>. HIDE DEF id, h
  <2>8. turn[t].id = id
    BY DEF id
  <2>. QED
    BY <2>0, <2>1, <2>2, <2>5, <2>6, <2>7, <2>8, CoverByTurn
<1>9. ASSUME NEW t \in Turn, Summarised(t) PROVE CoverInv'
  <2>. DEFINE id == turn[t].id
              h == turn[t].copy.history
  <2>0. InFlight(turn[t]) /\ turn[t].phase = "summing"
    BY <1>9 DEF Summarised, InFlight
  <2>1. /\ id \in Id /\ turn[t].copy \in Record /\ Ascending(h)
        /\ \A s \in MadeOf(Known(t), h) : s \in Summary
    BY <2>0, CopyIsFine DEF Fine
  <2>2. /\ \A u \in Turn : u # t => turn'[u] = turn[u]
        /\ turn'[t].phase = "ready" /\ turn'[t].id = id
        /\ cache'[id] \in {cache[id]} \cup MadeOf(Known(t), h)
        /\ \A x \in Id : x # id => cache'[x] = cache[x]
        /\ Ascending(h) /\ (\A s \in Known(t) : Cover(s, h)) => TurnsIn(h) \subseteq turn'[t].told
        /\ UNCHANGED <<mem, disk, live, edit, job, saved, stale, crashes>>
    BY <1>0, <1>9, <2>1, SummarisedIs
  <2>3. PICK s \in MadeOf(Known(t), h) : turn'[t].copy = WithSummary(turn[t].copy, s)
    BY <1>0, <1>9, <2>1, SummarisedIs
  <2>4. turn'[t].copy.history = h /\ turn'[t].copy.summary = s
    BY <2>1, <2>3, WithSummaryIs
  <2>5. Frame(t, None) /\ \A x \in Id : disk'[x] \in {disk[x], mem'[x]}
    BY <2>2 DEF Frame, Same
  <2>6. ASSUME ~stale
        PROVE  /\ GoodRecord(cache'[id], job'[id], mem'[id])
               /\ GoodTurn(cache'[id], job'[id], mem'[id], turn'[t])
    <3>1. GoodTurn(cache[id], job[id], mem[id], turn[t]) /\ GoodRecord(cache[id], job[id], mem[id])
      BY <2>0, <2>1, <2>6 DEF CoverInv
    <3>2. Cover(cache'[id], h) /\ (mem[id] # NoRecord => Cover(cache'[id], mem[id].history))
      <4>1. CASE cache'[id] = cache[id]
        BY <3>1, <4>1 DEF GoodTurn, GoodRecord
      <4>2. CASE cache'[id] \in MadeOf(Known(t), h)
        BY <2>0, <2>6, <4>2, MadeIsGood
      <4>. QED
        BY <2>2, <4>1, <4>2
    <3>3. Cover(s, h)
      BY <2>0, <2>6, MadeIsGood
    <3>4. \A k \in Known(t) : Cover(k, h)
      BY <3>1 DEF Known, GoodTurn
    <3>5. TurnsIn(h) \subseteq turn'[t].told
      BY <2>1, <2>2, <3>4
    <3>6. GoodRecord(cache'[id], job'[id], mem'[id])
      BY <2>2, <3>1, <3>2 DEF GoodRecord
    <3>7. GoodTurn(cache'[id], job'[id], mem'[id], turn'[t])
      BY <2>2, <2>4, <3>1, <3>2, <3>3, <3>5 DEF GoodTurn
    <3>. QED
      BY <3>6, <3>7
  <2>. HIDE DEF id, h
  <2>7. turn[t].id = id
    BY DEF id
  <2>. QED
    BY <2>0, <2>1, <2>2, <2>5, <2>6, <2>7, CoverByTurn
<1>10. ASSUME NEW t \in Turn, SavePending(t) PROVE CoverInv'
  <2>. DEFINE id == turn[t].id
              h == turn[t].copy.history
              rec == WithPrompt(turn[t].copy, t)
  <2>1. /\ turn[t].phase = "ready" /\ id \in Id /\ turn[t].copy \in Record
        /\ Flushed /\ UNCHANGED <<cache, job, stale, crashes>>
    BY <1>0, <1>10, SavePendingIs
  <2>2. PICK b \in Actor : /\ Written(id, rec, t, t, b, None, Idle)
                           /\ b.phase = "running" /\ b.id = id /\ b.copy = rec
    BY <1>0, <1>10, SavePendingIs
  <2>3. /\ Frame(t, None) /\ mem'[id] = rec /\ turn'[t] = b
        /\ \A x \in Id : x # id => mem'[x] = mem[x]
    BY <2>2, WrittenFrame
  <2>4. InFlight(turn[t]) /\ \A x \in Id : disk'[x] \in {disk[x], mem'[x]}
    BY <2>1 DEF Flushed, InFlight
  <2>5. /\ h \in Seq(Entry) /\ turn[t].copy.summary \in Summary
        /\ cache[id] \in Summary /\ job[id] \in Summary
        /\ Fine(turn[t].copy, Ahead(turn, id)) /\ turn[t].copy # NoRecord
    BY <2>4, CopyIsFine
  <2>6. t \in Ahead(turn, id)
    BY <2>1 DEF Ahead, InMemory
  <2>7. cache[id].upTo < t /\ job[id].upTo < t /\ turn[t].copy.summary.upTo < t
    BY <2>1, <2>5, <2>6, CacheIsFine DEF Fine, Early
  <2>8. rec # NoRecord /\ rec.summary = turn[t].copy.summary /\ rec.history = Append(h, Prompt(t))
    BY <2>1, WithPromptIs, NoRecordIsNone
  <2>9. ASSUME ~stale
        PROVE  /\ GoodRecord(cache'[id], job'[id], mem'[id])
               /\ GoodTurn(cache'[id], job'[id], mem'[id], turn'[t])
    <3>1. \A s \in {cache[id], job[id], turn[t].copy.summary} : Cover(s, h)
      BY <2>4, <2>9 DEF CoverInv, GoodTurn
    <3>2. \A s \in {cache[id], job[id], turn[t].copy.summary} : Cover(s, Append(h, Prompt(t)))
      BY <2>5, <2>7, <3>1, CoverPrompt
    <3>. QED
      BY <2>1, <2>2, <2>3, <2>8, <3>2 DEF GoodRecord, GoodTurn
  <2>. HIDE DEF id, h, rec
  <2>10. turn[t].id = id /\ turn'[t].id = id
    BY <2>2, <2>3 DEF id
  <2>. QED
    BY <2>1, <2>3, <2>4, <2>9, <2>10, CoverByTurn
<1>11. ASSUME NEW t \in Turn, Answer(t) PROVE CoverInv'
  <2>. DEFINE id == turn[t].id
              h == turn[t].copy.history
  <2>1. /\ turn[t].phase = "running" /\ id \in Id /\ turn[t].copy \in Record
        /\ UNCHANGED <<disk, live, cache, job, saved, stale, crashes>>
    BY <1>0, <1>11, AnswerIs
  <2>2. PICK p \in Pin \cup {Unset}, b \in Actor :
          /\ b.phase = "answered" /\ b.id = id
          /\ b.copy = WithAnswer(turn[t].copy, t, cache[id], p)
          /\ \/ Written(id, b.copy, t, t, b, None, Idle)
             \/ OnlyTurn(t, b) /\ UNCHANGED mem
    BY <1>0, <1>11, AnswerIs
  <2>3. InFlight(turn[t]) /\ cache[id] \in Summary /\ h \in Seq(Entry)
    BY <1>0, <2>1, RecordIs DEF InFlight, Typed
  <2>4. /\ b.copy \in Record /\ b.copy # NoRecord
        /\ b.copy.summary \in {cache[id], turn[t].copy.summary}
        /\ TurnsIn(b.copy.history) = TurnsIn(h)
    BY <2>1, <2>2, <2>3, WithAnswerIs, Recorded, NoRecordIsNone
  <2>5. /\ Frame(t, None) /\ turn'[t] = b /\ mem'[id] \in {mem[id], b.copy}
        /\ \A x \in Id : x # id => mem'[x] = mem[x]
    <3>1. CASE Written(id, b.copy, t, t, b, None, Idle)
      BY <3>1, WrittenFrame
    <3>2. CASE OnlyTurn(t, b) /\ UNCHANGED mem
      BY <3>2 DEF OnlyTurn, Frame, Same
    <3>. QED
      BY <2>2, <3>1, <3>2
  <2>6. ASSUME ~stale
        PROVE  /\ GoodRecord(cache'[id], job'[id], mem'[id])
               /\ GoodTurn(cache'[id], job'[id], mem'[id], turn'[t])
    <3>1. GoodTurn(cache[id], job[id], mem[id], turn[t]) /\ GoodRecord(cache[id], job[id], mem[id])
      BY <2>1, <2>3, <2>6 DEF CoverInv
    <3>2. \A s \in {cache[id], job[id], b.copy.summary} : Cover(s, h)
      BY <2>4, <3>1 DEF GoodTurn
    <3>3. \A s \in {cache[id], job[id], b.copy.summary} : Cover(s, b.copy.history)
      BY <2>4, <3>2, CoverLess
    <3>4. CASE mem'[id] = b.copy
      BY <2>1, <2>2, <2>5, <3>3, <3>4 DEF GoodRecord, GoodTurn
    <3>5. CASE mem'[id] = mem[id]
      <4>1. mem[id] # NoRecord => /\ Cover(mem[id].summary, b.copy.history)
                                  /\ TurnsIn(mem[id].history) \subseteq TurnsIn(b.copy.history)
        BY <2>4, <3>1, CoverLess DEF GoodTurn
      <4>. QED
        BY <2>1, <2>2, <2>5, <3>1, <3>3, <3>5, <4>1 DEF GoodRecord, GoodTurn
    <3>. QED
      BY <2>5, <3>4, <3>5
  <2>. HIDE DEF id, h
  <2>7. turn[t].id = id /\ turn'[t].id = id
    BY <2>2, <2>5 DEF id
  <2>8. \A x \in Id : disk'[x] \in {disk[x], mem'[x]}
    BY <2>1
  <2>. QED
    BY <2>1, <2>3, <2>5, <2>6, <2>7, <2>8, CoverByTurn
<1>12. ASSUME NEW t \in Turn, SaveAnswer(t) PROVE CoverInv'
  <2>. DEFINE id == turn[t].id
              rec == turn[t].copy
  <2>1. /\ turn[t].phase = "answered" /\ id \in Id /\ rec \in Record
        /\ Flushed /\ UNCHANGED <<cache, job, stale, crashes>>
    BY <1>0, <1>12, SaveAnswerIs
  <2>2. PICK b \in Actor : /\ Written(id, rec, t, t, b, None, Idle)
                           /\ b.phase = "saved" /\ b.id = id /\ b.copy = rec
    BY <1>0, <1>12, SaveAnswerIs
  <2>3. /\ Frame(t, None) /\ mem'[id] = rec /\ turn'[t] = b
        /\ \A x \in Id : x # id => mem'[x] = mem[x]
    BY <2>2, WrittenFrame
  <2>4. InFlight(turn[t]) /\ \A x \in Id : disk'[x] \in {disk[x], mem'[x]}
    BY <2>1 DEF Flushed, InFlight
  <2>5. ASSUME ~stale
        PROVE  /\ GoodRecord(cache'[id], job'[id], mem'[id])
               /\ GoodTurn(cache'[id], job'[id], mem'[id], turn'[t])
    <3>1. \A s \in {cache[id], job[id], rec.summary} : Cover(s, rec.history)
      BY <2>4, <2>5 DEF CoverInv, GoodTurn
    <3>. QED
      BY <2>1, <2>2, <2>3, <3>1 DEF GoodRecord, GoodTurn
  <2>. HIDE DEF id, rec
  <2>6. turn[t].id = id /\ turn'[t].id = id
    BY <2>2, <2>3 DEF id
  <2>. QED
    BY <2>1, <2>3, <2>4, <2>5, <2>6, CoverByTurn
<1>13. ASSUME NEW t \in Turn, EndTurn(t) PROVE CoverInv'
  <2>. DEFINE id == turn[t].id
              h == turn[t].copy.history
  <2>0. InFlight(turn[t])
    BY <1>13 DEF EndTurn, InFlight
  <2>1. /\ id \in Id
        /\ SaveOnly \/ UNCHANGED <<mem, live, disk, saved>>
        /\ OnlyTurn(t, Done)
        /\ job'[id] \in {job[id]} \cup MadeOf(Known(t), h)
        /\ \A x \in Id : x # id => job'[x] = job[x]
        /\ UNCHANGED <<cache, stale, crashes>>
    BY <1>0, <1>13, EndTurnIs
  <2>2. SaveOnly \/ UNCHANGED <<mem, live, disk, saved>>
    BY <1>0, <1>13, EndTurnIs
  <2>3. mem' = mem /\ \A x \in Id : disk'[x] \in {disk[x], mem'[x]}
    BY <1>0, <2>2, SaveOnlyIs
  <2>4. Frame(t, None) /\ ~InFlight(turn'[t]) /\ id \in Id
    BY <2>0, <2>1, IdleIs, CopyIsFine DEF Frame, Same, OnlyTurn
  <2>5. ASSUME ~stale PROVE GoodRecord(cache'[id], job'[id], mem'[id])
    <3>1. GoodRecord(cache[id], job[id], mem[id])
      BY <2>4, <2>5 DEF CoverInv
    <3>2. mem[id] # NoRecord => Cover(job'[id], mem[id].history)
      <4>1. CASE job'[id] = job[id]
        BY <3>1, <4>1 DEF GoodRecord
      <4>2. CASE job'[id] \in MadeOf(Known(t), h)
        BY <2>0, <2>5, <4>2, MadeIsGood
      <4>. QED
        BY <2>1, <4>1, <4>2
    <3>. QED
      BY <2>1, <2>3, <3>1, <3>2 DEF GoodRecord
  <2>. HIDE DEF id, h
  <2>6. turn[t].id = id
    BY DEF id
  <2>. QED
    BY <2>0, <2>1, <2>3, <2>4, <2>5, <2>6, CoverByTurn
<1>14. ASSUME NEW t \in Turn, Fail(t) PROVE CoverInv'
  <2>1. /\ turn[t].phase = "running" /\ OnlyTurn(t, Done) /\ turn[t].id \in Id
        /\ UNCHANGED <<mem, disk, live, cache, job, saved, stale, crashes>>
    BY <1>0, <1>14, FailIs DEF Typed, Actor
  <2>2. Frame(t, None) /\ ~InFlight(turn'[t]) /\ InFlight(turn[t])
    BY <2>1, IdleIs DEF Frame, Same, OnlyTurn, InFlight
  <2>3. ~stale => GoodRecord(cache'[turn[t].id], job'[turn[t].id], mem'[turn[t].id])
    BY <2>1 DEF CoverInv
  <2>. QED
    BY <2>1, <2>2, <2>3, CoverByTurn
<1>15. ASSUME NEW e \in Edit, NEW id \in Id, GetForEdit(e, id) \/ CompactionFails(e)
       PROVE  CoverInv'
  BY <1>1, <1>15 DEF GetForEdit, CompactionFails
<1>16. CASE Restart
  <2>1. /\ mem' = disk /\ disk' = disk /\ stale' = stale
        /\ \A x \in Id : cache'[x] = NoSummary /\ job'[x] = NoSummary
        /\ \A t \in Turn : ~InFlight(turn'[t])
    BY <1>0, <1>16, RestartIs
  <2>2. ~stale => \A x \in Id : disk[x] # NoRecord => Cover(disk[x].summary, disk[x].history)
    BY DEF CoverInv
  <2>3. \A x \in Id : disk[x] # NoRecord => Cover(NoSummary, disk[x].history)
    BY <1>0, RecordIs, NothingCovers DEF Typed, Store
  <2>4. ~stale => \A x \in Id : GoodRecord(cache'[x], job'[x], mem'[x])
    BY <2>1, <2>2, <2>3 DEF GoodRecord
  <2>. QED
    BY <2>1, <2>2, <2>4 DEF CoverInv, InFlight
<1>17. CASE UNCHANGED vars
  BY <1>1, <1>17 DEF vars
<1>18. Id # {}
  BY StoreAssumption DEF Id
<1>. QED
  BY <1>3, <1>4, <1>5, <1>6, <1>7, <1>8, <1>9, <1>10, <1>11, <1>12, <1>13, <1>14, <1>15,
     <1>16, <1>17, <1>18 DEF Next, TurnStep, EditStep

(* A prompt for a fresh session carries every turn of its record.           *)
THEOREM NothingIsLeftOut == Spec => []FreshContextIsComplete
<1>1. Inv /\ SyncInv /\ CoverInv /\ [Next]_vars => (Inv /\ SyncInv /\ CoverInv)'
  BY InvStep, SyncStep, CoverStep
<1>2. Init => Inv /\ SyncInv /\ CoverInv
  BY InvInit, SyncInit, CoverInit
<1>3. CoverInv => FreshContextIsComplete
  BY DEF CoverInv, GoodTurn, InFlight, FreshContextIsComplete
<1>. QED
  BY <1>1, <1>2, <1>3, PTL DEF Spec
=============================================================================
