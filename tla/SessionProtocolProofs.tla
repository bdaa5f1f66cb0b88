----------------------- MODULE SessionProtocolProofs -----------------------
(* For every number of turns and every set of failures: a record marked     *)
(* Started has an id, and no turn ends because the record and the CLI       *)
(* disagree on whether its session exists; and as long as the backend stays,*)
(* codex names its threads and no compaction opens a session, the session   *)
(* a turn resumes has seen all of the stored history.                       *)
EXTENDS SessionProtocol, TLAPS

(* A record that the last id minted is i: its id is one of those, and it    *)
(* has one if it is Started or not empty.                                   *)
Fine(c, i) ==
    /\ c \in Conversation
    /\ c.sid <= i
    /\ c.started \/ c.asked # {} => c.sid # None

Records == Fine(conv, lastId) /\ Fine(disk, lastId) /\ Fine(copy, lastId)

(* The CLIs' sessions: a map from ids to the turns seen, ids at most lastId.*)
Sessions ==
    /\ DOMAIN knows \subseteq Backend \X (1..MaxId)
    /\ \A s \in DOMAIN knows : knows[s] \subseteq Turn
    /\ \A s \in DOMAIN knows : s[2] <= lastId

(* What a turn that has begun may still mint fits below the bound.          *)
Room ==
    /\ turn.phase = "read" => lastId + 3 <= MaxId
    /\ turn.phase \in Running \ {"continuing"} => lastId + 2 <= MaxId
    /\ turn.phase = "continuing" => lastId + 1 <= MaxId

(* Where a turn is, and what that says about the session it goes for.       *)
PhaseInv ==
    /\ turn.phase # "none" => turn.n # 0
    /\ compacting # "no" => turn.phase \in {"none", "read"} /\ conv.sid # None
    /\ turn.phase \in Running => conv.sid # None
    /\ turn.phase = "first" /\ turn.resume => conv.started
    /\ turn.phase = "resuming" => Key \in DOMAIN knows
    /\ turn.phase = "recovering" /\ turn.backend = "claude" => Key \notin DOMAIN knows
    /\ turn.phase = "continuing" => turn.backend = "claude" /\ Key \notin DOMAIN knows

(* The variables that no step looks at more closely.                        *)
Rest ==
    /\ backend \in Backend /\ compacting \in Backend \cup {"no"}
    /\ memory \subseteq Turn /\ count \in 0..MaxTurns
    /\ dropped \subseteq Turn /\ upset \in BOOLEAN

IInv ==
    /\ Records /\ Sessions
    /\ lastId \in 1..MaxId
    /\ turn \in TurnState
    /\ Room /\ PhaseInv /\ Rest

-----------------------------------------------------------------------------
LEMMA IInvTypes == IInv => TypeOK
BY DEF IInv, TypeOK, Records, Fine, Sessions, Rest

LEMMA FineGrows ==
    \A c, i, j : Fine(c, i) /\ i \in Nat /\ j \in Nat /\ i <= j => Fine(c, j)
BY DEF Fine, Conversation

(* A saved record keeps what is said of the record on disk.                 *)
LEMMA SaveKeeps ==
    \A c, i : Fine(disk, i) /\ Fine(c, i) /\ Save(c) => conv' = c /\ Fine(disk', i)
BY DEF Save

(* A session that sees a prompt stays within the types, and is there.       *)
LEMMA SeesSession ==
    \A s \in Backend \X (1..MaxId) : \A turns \in SUBSET Turn :
        Sessions /\ lastId' \in Nat /\ lastId \in Nat /\ lastId <= lastId'
        /\ s[2] <= lastId' /\ Sees(s, turns)
        => Sessions'
<1> SUFFICES ASSUME NEW s \in Backend \X (1..MaxId), NEW turns \in SUBSET Turn,
                    Sessions, lastId' \in Nat, lastId \in Nat, lastId <= lastId',
                    s[2] <= lastId', Sees(s, turns)
             PROVE  Sessions'
  OBVIOUS
<1>1. DOMAIN knows' = DOMAIN knows \cup {s}
  BY DEF Sees
<1>2. \A k \in DOMAIN knows' : knows'[k] \subseteq Turn
  BY DEF Sees, KnownTo, Sessions
<1>3. \A k \in DOMAIN knows' : k[2] <= lastId'
  BY <1>1 DEF Sessions, Backend
<1> QED BY <1>1, <1>2, <1>3 DEF Sessions

(* What a run leaves in the CLI.                                            *)
LEMMA RanSession ==
    ASSUME IInv, turn.phase \in Running, Ran, MaxId \in Nat
    PROVE  /\ Sessions' /\ lastId' \in 1..MaxId
           /\ lastId' \in {lastId, lastId + 1}
           /\ SessionOf(turn.backend, Key, Resumes)[2] \in 1..lastId'
<1> DEFINE s == SessionOf(turn.backend, Key, Resumes)
<1>1. /\ turn.backend \in Backend /\ turn.n \in Turn /\ conv.sid \in 1..MaxId
      /\ conv.sid <= lastId /\ lastId \in 1..MaxId /\ lastId + 1 <= MaxId
      /\ conv.answered \subseteq Turn /\ Sessions
  BY DEF IInv, Records, Fine, Room, PhaseInv, TurnState, Conversation, Running, Turn,
         None
<1>2. CASE s = Key
  <2>1. lastId' = lastId /\ Key \in Backend \X (1..MaxId) /\ Key[2] = conv.sid
    BY <1>1, <1>2 DEF Ran, Key
  <2>2. Inlined \cup {turn.n} \in SUBSET Turn
    BY <1>1 DEF Inlined
  <2>3. Sees(Key, Inlined \cup {turn.n})
    BY <1>2 DEF Ran
  <2>4. Sessions'
    BY <1>1, <2>1, <2>2, <2>3, SeesSession
  <2> QED BY <1>1, <1>2, <2>1, <2>4
<1>3. CASE s # Key
  <2>1. s = <<turn.backend, lastId + 1>> /\ lastId' = lastId + 1
    BY <1>3 DEF Ran, SessionOf
  <2>2. s \in Backend \X (1..MaxId) /\ s[2] = lastId + 1
    BY <1>1, <2>1
  <2>3. Inlined \cup {turn.n} \in SUBSET Turn
    BY <1>1 DEF Inlined
  <2>4. Sees(s, Inlined \cup {turn.n})
    BY DEF Ran
  <2>5. Sessions'
    BY <1>1, <2>1, <2>2, <2>3, <2>4, SeesSession
  <2> QED BY <1>1, <2>1, <2>2, <2>5
<1> QED BY <1>2, <1>3

(* What a compaction leaves in the CLI.                                     *)
LEMMA CompactRanSession ==
    ASSUME IInv, compacting # "no", CompactRan, UNCHANGED lastId
    PROVE  Sessions'
<1>1. /\ compacting \in Backend /\ conv.sid \in 1..MaxId /\ conv.sid <= lastId
      /\ lastId \in 1..MaxId /\ Sessions
  BY DEF IInv, Records, Fine, PhaseInv, Rest, Conversation, None
<1>2. CASE compacting = "codex"
  BY <1>1, <1>2 DEF CompactRan, Sessions
<1>3. CASE compacting # "codex"
  <2>1. Sees(CompactKey, {}) /\ CompactKey \in Backend \X (1..MaxId)
        /\ CompactKey[2] = conv.sid
    BY <1>1, <1>3 DEF CompactRan, CompactKey
  <2> QED BY <1>1, <2>1, SeesSession
<1> QED BY <1>2, <1>3

-----------------------------------------------------------------------------
LEMMA InitIInv == Init => IInv
<1> SUFFICES ASSUME Init PROVE IInv
  OBVIOUS
<1> USE SessionAssumption
<1>1. Empty \in Conversation /\ NoTurn \in TurnState
  BY DEF Empty, Conversation, NoTurn, TurnState, Backend, Turn
<1>2. DOMAIN knows = {}
  BY DEF Init
<1>3. Records
  BY <1>1 DEF Init, Records, Fine, Empty, None
<1>4. Sessions
  BY <1>2 DEF Sessions
<1>5. lastId \in 1..MaxId /\ turn \in TurnState
  BY <1>1 DEF Init
<1>6. Room
  BY DEF Init, Room, NoTurn, Running
<1>7. PhaseInv
  BY DEF Init, PhaseInv, NoTurn, Running
<1>8. Rest
  <2>1. backend \in Backend /\ compacting \in Backend \cup {"no"}
    BY DEF Init
  <2>2. memory \subseteq Turn /\ dropped \subseteq Turn /\ upset \in BOOLEAN
    BY DEF Init
  <2>3. count \in 0..MaxTurns
    BY DEF Init
  <2> QED BY <2>1, <2>2, <2>3 DEF Rest
<1> QED BY <1>3, <1>4, <1>5, <1>6, <1>7, <1>8 DEF IInv

-----------------------------------------------------------------------------
LEMMA SwitchStep ==
    ASSUME IInv, NEW b \in Backend, SwitchBackend(b) PROVE IInv'
<1>1. /\ copy' = copy /\ turn' = turn /\ knows' = knows /\ lastId' = lastId
      /\ compacting' = compacting
  BY DEF SwitchBackend, cli
<1>2. conv' = conv /\ Fine(disk', lastId)
  BY SaveKeeps DEF SwitchBackend, IInv, Records
<1>3. Records' /\ Sessions' /\ Room' /\ PhaseInv'
  BY <1>1, <1>2 DEF IInv, Records, Fine, Sessions, Room, PhaseInv, Key
<1>4. Rest'
  BY DEF IInv, Rest, SwitchBackend
<1> QED BY <1>1, <1>3, <1>4 DEF IInv

LEMMA SavedStep == IInv /\ SavedWithOthers => IInv'
<1> SUFFICES ASSUME IInv, SavedWithOthers PROVE IInv'
  OBVIOUS
<1>1. /\ conv' = conv /\ disk' = conv /\ copy' = copy /\ turn' = turn
      /\ knows' = knows /\ lastId' = lastId /\ compacting' = compacting
  BY DEF SavedWithOthers, cli
<1>2. Records' /\ Sessions' /\ Room' /\ PhaseInv'
  BY <1>1 DEF IInv, Records, Sessions, Room, PhaseInv, Key
<1>3. Rest'
  BY DEF IInv, Rest, SavedWithOthers, history
<1> QED BY <1>1, <1>2, <1>3 DEF IInv

LEMMA ArrivesStep == IInv /\ Arrives => IInv'
<1> SUFFICES ASSUME IInv, Arrives PROVE IInv'
  OBVIOUS
<1> USE SessionAssumption
<1>1. /\ conv' = conv /\ disk' = disk /\ copy' = conv
      /\ knows' = knows /\ lastId' = lastId /\ compacting' = compacting
  BY DEF Arrives, store, cli
<1>2. count' \in 1..MaxTurns /\ count' \in Turn
  BY DEF IInv, Rest, Arrives, Turn
<1>3. turn' = [phase |-> "read", n |-> count', backend |-> backend, resume |-> FALSE,
               reset |-> FALSE]
  BY DEF Arrives, NoTurn
<1>4. turn' \in TurnState
  BY <1>2, <1>3 DEF IInv, Rest, TurnState
<1>5. Records' /\ Sessions'
  BY <1>1 DEF IInv, Records, Sessions
<1>6. Room'
  BY <1>1, <1>3 DEF Arrives, Room, Running
<1>7. PhaseInv'
  BY <1>1, <1>2, <1>3 DEF IInv, PhaseInv, Running
<1>8. Rest'
  BY <1>2 DEF IInv, Rest, Arrives, history
<1> QED BY <1>1, <1>4, <1>5, <1>6, <1>7, <1>8 DEF IInv

LEMMA BeginsStep == IInv /\ Begins => IInv'
<1> SUFFICES ASSUME IInv, Begins PROVE IInv'
  OBVIOUS
<1> USE SessionAssumption
<1> DEFINE c == WithId(copy, lastId + 1)
<1>1. PICK reset \in Resets(c) :
        LET r == IF reset THEN ResetOf(c, turn.backend, lastId + 1) ELSE c IN
        /\ turn' = [turn EXCEPT !.phase = "first", !.reset = reset, !.resume = r.started]
        /\ lastId' = IF r.sid = copy.sid THEN lastId ELSE lastId + 1
        /\ Save([r EXCEPT !.asked = @ \cup {turn.n}])
  BY DEF Begins
<1> DEFINE r == IF reset THEN ResetOf(c, turn.backend, lastId + 1) ELSE c
           saved == [r EXCEPT !.asked = @ \cup {turn.n}]
<1>2. /\ turn \in TurnState /\ turn.n \in Turn /\ copy \in Conversation
      /\ copy.sid <= lastId /\ lastId \in 1..MaxId /\ lastId + 3 <= MaxId
      /\ compacting = "no" /\ turn.phase = "read" /\ Fine(disk, lastId)
  BY DEF Begins, IInv, Records, Fine, Room, PhaseInv, TurnState, Turn
<1>3. /\ c \in Conversation /\ c.sid \in {copy.sid, lastId + 1} /\ c.sid # None
      /\ reset \in BOOLEAN
  <2>1. CASE copy.sid = None
    <3>1. c = [copy EXCEPT !.sid = lastId + 1, !.started = FALSE]
      BY <2>1 DEF WithId
    <3>2. lastId + 1 \in 0..MaxId /\ lastId + 1 # 0
      BY <1>2
    <3> QED BY <1>2, <2>1, <3>1, <3>2 DEF Conversation, None, Resets
  <2>2. CASE copy.sid # None
    BY <1>2, <2>2 DEF WithId, Resets
  <2> QED BY <2>1, <2>2
<1>4. r \in Conversation /\ r.sid \in {copy.sid, lastId + 1} /\ r.sid # None
  <2>1. lastId + 1 \in 0..MaxId /\ lastId + 1 # 0
    BY <1>2
  <2>2. CASE reset
    BY <1>2, <1>3, <2>1, <2>2 DEF ResetOf, Conversation, None
  <2>3. CASE ~reset
    BY <1>3, <2>3
  <2> QED BY <2>2, <2>3
<1>5. lastId' \in 1..MaxId /\ lastId' + 2 <= MaxId /\ lastId <= lastId' /\ r.sid <= lastId'
  BY <1>1, <1>2, <1>4 DEF Conversation
<1>6. saved \in Conversation /\ saved.sid = r.sid /\ saved.started = r.started
  BY <1>2, <1>4 DEF Conversation
<1>7. Fine(saved, lastId') /\ Fine(disk, lastId')
  BY <1>2, <1>4, <1>5, <1>6, FineGrows DEF Fine
<1>8. conv' = saved /\ Fine(disk', lastId')
  BY <1>1, <1>7, SaveKeeps
<1>9. /\ turn' \in TurnState /\ turn'.phase = "first" /\ turn'.resume = r.started
      /\ turn'.n = turn.n
  BY <1>1, <1>2, <1>3, <1>4 DEF TurnState, Running, Conversation
<1>10. Records'
  <2>1. copy' = Empty /\ Empty \in Conversation /\ Empty.sid = 1
    BY DEF Begins, Empty, Conversation, Turn
  <2> QED BY <1>5, <1>7, <1>8, <2>1 DEF Records, Fine, None
<1>11. Sessions'
  BY <1>2, <1>5 DEF IInv, Sessions, Begins, Backend
<1>12. Room'
  BY <1>5, <1>9 DEF Room, Running
<1>13. PhaseInv'
  BY <1>2, <1>4, <1>6, <1>8, <1>9 DEF PhaseInv, Begins, Running, Turn
<1>14. Rest'
  BY DEF IInv, Rest, Begins, history
<1> QED BY <1>5, <1>9, <1>10, <1>11, <1>12, <1>13, <1>14 DEF IInv

(* Between turns and compactions there is nothing to say of either.         *)
LEMMA AtRest ==
    ASSUME turn' = NoTurn, compacting' = "no"
    PROVE  turn' \in TurnState /\ Room' /\ PhaseInv'
<1>1. turn' \in TurnState
  BY SessionAssumption DEF NoTurn, TurnState, Backend
<1>2. turn'.phase = "none"
  BY DEF NoTurn
<1> QED BY <1>1, <1>2 DEF Room, PhaseInv, Running

LEMMA AnswersStep == IInv /\ Answers => IInv'
<1> SUFFICES ASSUME IInv, Answers PROVE IInv'
  OBVIOUS
<1> USE SessionAssumption
<1> DEFINE s == SessionOf(turn.backend, Key, Resumes)
           new == ~Resumes /\ (~conv.started \/ turn.phase = "recovering" \/ turn.reset)
<1>1. /\ turn.phase \in Running /\ turn' = NoTurn /\ compacting' = "no"
      /\ turn.n \in Turn /\ turn.backend \in Backend
      /\ conv \in Conversation /\ conv.sid # None /\ conv.sid <= lastId
      /\ lastId \in 1..MaxId
  BY DEF Answers, IInv, Records, Fine, PhaseInv, Rest, Running, TurnState, Turn
<1>2. Sessions' /\ lastId' \in 1..MaxId /\ lastId <= lastId'
      /\ (turn.backend = "codex" => s[2] \in 1..lastId')
  <2>1. CASE Ran
    BY <1>1, <2>1, RanSession
  <2>2. CASE turn.phase = "continuing" /\ UNCHANGED cli
    <3>1. turn.backend = "claude" /\ knows' = knows /\ lastId' = lastId
      BY <2>2 DEF IInv, PhaseInv, cli
    <3> QED BY <1>1, <3>1 DEF IInv, Sessions
  <2> QED BY <2>1, <2>2 DEF Answers
<1>3. PICK id \in {s[2]} \cup (IF "noThreadId" \in Failures THEN {None} ELSE {}),
           big \in BOOLEAN :
        LET c == Adopts(conv, new, id) IN
        Save([c EXCEPT !.started = TRUE, !.answered = @ \cup {turn.n},
                       !.big = IF big THEN @ \cup {turn.backend}
                               ELSE @ \ {turn.backend}])
        /\ upset' = (upset \/ id = None)
  BY DEF Answers
<1> DEFINE c == Adopts(conv, new, id)
           saved == [c EXCEPT !.started = TRUE, !.answered = @ \cup {turn.n},
                              !.big = IF big THEN @ \cup {turn.backend}
                                      ELSE @ \ {turn.backend}]
<1>4. c \in Conversation /\ c.sid # None /\ c.sid <= lastId'
  <2>1. CASE c = conv
    BY <1>1, <1>2, <2>1 DEF Conversation
  <2>2. CASE c # conv
    <3>1. c = [conv EXCEPT !.sid = id] /\ id # None /\ turn.backend = "codex"
      BY <2>2 DEF Adopts
    <3>2. id \in 0..MaxId /\ id <= lastId'
      BY <1>2, <1>3, <3>1
    <3> QED BY <1>1, <3>1, <3>2 DEF Conversation
  <2> QED BY <2>1, <2>2
<1>5. saved \in Conversation /\ saved.sid = c.sid
  BY <1>1, <1>4 DEF Conversation
<1>6. Fine(saved, lastId') /\ Fine(disk, lastId') /\ Fine(copy, lastId')
  <2>1. Fine(disk, lastId') /\ Fine(copy, lastId')
    BY <1>1, <1>2, FineGrows DEF IInv, Records
  <2> QED BY <1>4, <1>5, <2>1 DEF Fine
<1>7. conv' = saved /\ Fine(disk', lastId') /\ copy' = copy
  BY <1>3, <1>6, SaveKeeps DEF Answers
<1>8. Records'
  BY <1>6, <1>7 DEF Records, Fine
<1>9. Rest'
  BY <1>3 DEF IInv, Rest, Answers
<1> QED BY <1>1, <1>2, <1>8, <1>9, AtRest DEF IInv

(* A turn that ends without an answer leaves the record alone.              *)
LEMMA GivesUp ==
    ASSUME IInv, turn.phase \in Running, turn' = NoTurn, Ran \/ UNCHANGED cli,
           UNCHANGED <<store, copy, backend, compacting, memory, count, history>>
    PROVE  IInv'
<1> USE SessionAssumption
<1>1. lastId \in 1..MaxId /\ compacting' = "no"
  BY DEF IInv, PhaseInv, Rest, Running
<1>2. Sessions' /\ lastId' \in 1..MaxId /\ lastId <= lastId'
  <2>1. CASE Ran
    BY <1>1, <2>1, RanSession
  <2>2. CASE UNCHANGED cli
    BY <1>1, <2>2 DEF IInv, Sessions, cli
  <2> QED BY <2>1, <2>2
<1>3. Records'
  <2>1. Fine(conv, lastId') /\ Fine(disk, lastId') /\ Fine(copy, lastId')
    BY <1>1, <1>2, FineGrows DEF IInv, Records
  <2> QED BY <2>1 DEF Records, store, Fine
<1>4. Rest'
  BY DEF IInv, Rest, history
<1> QED BY <1>1, <1>2, <1>3, <1>4, AtRest DEF IInv

LEMMA OverflowsStep == IInv /\ Overflows => IInv'
<1> SUFFICES ASSUME IInv, Overflows PROVE IInv'
  OBVIOUS
<1> USE SessionAssumption
<1>1. /\ turn \in TurnState /\ turn.phase \in Running \ {"continuing"}
      /\ turn.backend = "claude" /\ turn.n # 0 /\ compacting = "no"
      /\ Fine(conv, lastId) /\ conv.sid # None
      /\ lastId \in 1..MaxId /\ lastId + 2 <= MaxId /\ lastId' = lastId + 1
  BY DEF Overflows, IInv, Records, Room, PhaseInv, Running
<1>2. Key \in Backend \X (1..MaxId) /\ Key[2] = conv.sid /\ conv.sid <= lastId
  BY <1>1 DEF Key, Fine, Conversation, None, Backend
<1>3. Inlined \in SUBSET Turn
  BY <1>1 DEF Inlined, Fine, Conversation
<1>4. Sees(Key, Inlined) /\ DOMAIN knows' = DOMAIN knows \cup {Key}
  BY DEF Overflows, Sees
<1>5. Sessions'
  BY <1>1, <1>2, <1>3, <1>4, SeesSession DEF IInv
<1>6. conv' = [conv EXCEPT !.sid = lastId + 1, !.started = FALSE]
  BY DEF Overflows, Continuation
<1>7. turn' = [turn EXCEPT !.phase = "continuing"]
  BY DEF Overflows
<1>8. turn' \in TurnState /\ turn'.phase = "continuing" /\ turn'.backend = "claude"
      /\ turn'.n = turn.n
  BY <1>1, <1>7 DEF TurnState, Running
<1>9. Records'
  <2>1. conv \in Conversation /\ lastId + 1 \in 0..MaxId /\ lastId + 1 # 0
    BY <1>1 DEF Fine
  <2>2. conv' \in Conversation /\ conv'.sid = lastId + 1
    BY <1>6, <2>1 DEF Conversation
  <2>3. Fine(conv', lastId')
    BY <1>1, <2>1, <2>2 DEF Fine, None
  <2>4. Fine(disk, lastId') /\ Fine(copy, lastId')
    BY <1>1, FineGrows DEF IInv, Records
  <2> QED BY <2>3, <2>4 DEF Records, Overflows, Fine
<1>10. Room'
  BY <1>1, <1>8 DEF Room, Running
<1>11. PhaseInv'
  <2>1. conv'.sid = lastId + 1 /\ conv'.sid # None
    BY <1>1, <1>6 DEF Fine, Conversation, None
  <2>2. Key' = <<"claude", lastId + 1>>
    BY <1>8, <2>1 DEF Key
  <2>3. \A k \in DOMAIN knows' : k[2] <= lastId
    BY <1>2, <1>4 DEF IInv, Sessions
  <2>4. Key' \notin DOMAIN knows'
    BY <1>1, <2>2, <2>3
  <2> QED BY <1>1, <1>8, <2>1, <2>4 DEF PhaseInv, Overflows
<1>12. Rest'
  BY <1>1 DEF IInv, Rest, Overflows, Fine, Conversation
<1> QED BY <1>1, <1>5, <1>8, <1>9, <1>10, <1>11, <1>12 DEF IInv

(* A rejected run is tried again in the way that the CLI takes.             *)
LEMMA RetriesStep == IInv /\ (Recovers \/ ResumesInstead) => IInv'
<1> SUFFICES ASSUME IInv, Recovers \/ ResumesInstead PROVE IInv'
  OBVIOUS
<1>1. /\ conv' = conv /\ disk' = disk /\ copy' = copy /\ knows' = knows
      /\ lastId' = lastId /\ compacting' = compacting
  BY DEF Recovers, ResumesInstead, store, cli
<1>2. turn.phase = "first" /\ turn \in TurnState /\ compacting = "no"
  BY DEF IInv, PhaseInv, Recovers, ResumesInstead, IsGone, IsInUse
<1>3. Records' /\ Sessions' /\ lastId' \in 1..MaxId
  BY <1>1 DEF IInv, Records, Sessions
<1>4. Rest'
  BY DEF IInv, Rest, Recovers, ResumesInstead, history
<1>5. CASE Recovers
  <2>1. turn' = [turn EXCEPT !.phase = "recovering"]
    BY <1>5 DEF Recovers
  <2>2. turn' \in TurnState /\ turn'.phase = "recovering" /\ turn'.n = turn.n
        /\ turn'.backend = turn.backend
    BY <1>2, <2>1 DEF TurnState, Running
  <2>3. Room'
    BY <1>1, <1>2, <2>2 DEF IInv, Room, Running
  <2>4. Key \notin DOMAIN knows /\ Key' = Key
    BY <1>1, <1>5, <2>2 DEF Recovers, IsGone, Accepted, Key
  <2>5. PhaseInv'
    BY <1>1, <1>2, <2>2, <2>4 DEF IInv, PhaseInv, Running
  <2> QED BY <1>3, <1>4, <2>2, <2>3, <2>5 DEF IInv
<1>6. CASE ResumesInstead
  <2>1. turn' = [turn EXCEPT !.phase = "resuming"]
    BY <1>6 DEF ResumesInstead
  <2>2. turn' \in TurnState /\ turn'.phase = "resuming" /\ turn'.n = turn.n
        /\ turn'.backend = turn.backend
    BY <1>2, <2>1 DEF TurnState, Running
  <2>3. Room'
    BY <1>1, <1>2, <2>2 DEF IInv, Room, Running
  <2>4. Key \in DOMAIN knows /\ Key' = Key
    BY <1>1, <1>6, <2>2 DEF ResumesInstead, IsInUse, Accepted, Key
  <2>5. PhaseInv'
    BY <1>1, <1>2, <2>2, <2>4 DEF IInv, PhaseInv, Running
  <2> QED BY <1>3, <1>4, <2>2, <2>3, <2>5 DEF IInv
<1> QED BY <1>5, <1>6

-----------------------------------------------------------------------------
LEMMA CompactBeginsStep == IInv /\ CompactBegins => IInv'
<1> SUFFICES ASSUME IInv, CompactBegins PROVE IInv'
  OBVIOUS
<1>1. /\ conv' = conv /\ disk' = disk /\ copy' = copy /\ turn' = turn
      /\ knows' = knows /\ lastId' = lastId
  BY DEF CompactBegins, store, cli
<1>2. turn.phase = "none" /\ conv.sid # None
  BY DEF IInv, Records, Fine, CompactBegins
<1>3. Records' /\ Sessions' /\ Room'
  BY <1>1 DEF IInv, Records, Sessions, Room
<1>4. PhaseInv'
  BY <1>1, <1>2 DEF PhaseInv, Running
<1>5. Rest'
  BY DEF IInv, Rest, CompactBegins
<1> QED BY <1>1, <1>3, <1>4, <1>5 DEF IInv

(* After a compaction the phase is none or read, of which little is said.   *)
LEMMA NotRunning ==
    ASSUME IInv, turn' = turn, lastId' = lastId, compacting' = "no",
           turn.phase \in {"none", "read"}
    PROVE  turn' \in TurnState /\ lastId' \in 1..MaxId /\ Room' /\ PhaseInv'
<1>1. turn' \in TurnState /\ lastId' \in 1..MaxId /\ Room'
  BY DEF IInv, Room
<1>2. PhaseInv'
  BY DEF IInv, PhaseInv, Running
<1> QED BY <1>1, <1>2

LEMMA CompactedStep == IInv /\ Compacted => IInv'
<1> SUFFICES ASSUME IInv, Compacted PROVE IInv'
  OBVIOUS
<1> USE SessionAssumption
<1>1. /\ turn' = turn /\ copy' = copy /\ lastId' = lastId /\ compacting # "no"
      /\ compacting' = "no" /\ turn.phase \in {"none", "read"}
      /\ Fine(conv, lastId) /\ Fine(disk, lastId) /\ Fine(copy, lastId)
      /\ lastId \in 1..MaxId
  BY DEF Compacted, IInv, Records, PhaseInv
<1>2. Sessions'
  BY <1>1, CompactRanSession DEF Compacted
<1> DEFINE saved == [conv EXCEPT !.sid = None, !.started = FALSE, !.asked = {},
                                 !.answered = {}]
<1>3. saved \in Conversation /\ saved.sid = 0 /\ ~saved.started /\ saved.asked = {}
  <2>1. conv \in Conversation /\ 0 \in 0..MaxId
    BY <1>1 DEF Fine
  <2> QED BY <2>1 DEF Conversation, None
<1>4. Fine(saved, lastId)
  BY <1>1, <1>3 DEF Fine
<1>5. conv' = saved /\ Fine(disk', lastId)
  BY <1>1, <1>4, SaveKeeps DEF Compacted
<1>6. Records'
  BY <1>1, <1>4, <1>5 DEF Records, Fine
<1>7. memory' \subseteq Turn
  BY DEF IInv, Sessions, Rest, Compacted, KnownTo
<1>8. Rest'
  BY <1>7 DEF IInv, Rest, Compacted, history
<1> QED BY <1>1, <1>2, <1>6, <1>8, NotRunning DEF IInv

LEMMA CompactFailsStep == IInv /\ CompactFails => IInv'
<1> SUFFICES ASSUME IInv, CompactFails PROVE IInv'
  OBVIOUS
<1>1. /\ conv' = conv /\ disk' = disk /\ turn' = turn /\ copy' = copy
      /\ lastId' = lastId /\ compacting # "no" /\ compacting' = "no"
      /\ turn.phase \in {"none", "read"}
  BY DEF CompactFails, IInv, PhaseInv, store
<1>2. Sessions'
  <2>1. CASE CompactRan
    BY <1>1, <2>1, CompactRanSession
  <2>2. CASE UNCHANGED knows
    BY <1>1, <2>2 DEF IInv, Sessions
  <2> QED BY <2>1, <2>2 DEF CompactFails
<1>3. Records'
  BY <1>1 DEF IInv, Records
<1>4. Rest'
  BY DEF IInv, Rest, CompactFails, history
<1> QED BY <1>1, <1>2, <1>3, <1>4, NotRunning DEF IInv

LEMMA PrunedStep == IInv /\ Pruned => IInv'
<1> SUFFICES ASSUME IInv, Pruned PROVE IInv'
  OBVIOUS
<1>1. /\ conv' = conv /\ disk' = disk /\ turn' = turn /\ copy' = copy
      /\ lastId' = lastId /\ compacting' = "no"
      /\ turn.phase \in {"none", "read"}
  BY DEF Pruned, store
<1>2. Sessions'
  BY <1>1 DEF Pruned, IInv, Sessions
<1>3. Records'
  BY <1>1 DEF IInv, Records
<1>4. Rest'
  BY DEF IInv, Rest, Pruned, history
<1> QED BY <1>1, <1>2, <1>3, <1>4, NotRunning DEF IInv

LEMMA CrashStep == IInv /\ Crash => IInv'
<1> SUFFICES ASSUME IInv, Crash PROVE IInv'
  OBVIOUS
<1> USE SessionAssumption
<1>1. /\ turn' = NoTurn /\ compacting' = "no" /\ lastId \in 1..MaxId
      /\ conv' = disk /\ disk' = disk /\ copy' = Empty
  BY DEF Crash, IInv
<1>2. Sessions' /\ lastId' \in 1..MaxId /\ lastId <= lastId'
  <2>1. CASE turn.phase \in Running /\ Ran
    BY <1>1, <2>1, RanSession
  <2>2. CASE compacting # "no" /\ CompactRan /\ UNCHANGED lastId
    BY <1>1, <2>2, CompactRanSession
  <2>3. CASE UNCHANGED cli
    BY <1>1, <2>3 DEF IInv, Sessions, cli
  <2> QED BY <2>1, <2>2, <2>3 DEF Crash
<1>3. Records'
  <2>1. Empty \in Conversation /\ Empty.sid = 1
    BY DEF Empty, Conversation, Turn
  <2>2. Fine(Empty, lastId')
    BY <1>2, <2>1 DEF Fine, None
  <2>3. Fine(disk, lastId')
    BY <1>1, <1>2, FineGrows DEF IInv, Records
  <2> QED BY <1>1, <2>2, <2>3 DEF Records, Fine
<1>4. Rest'
  BY <1>1 DEF IInv, Rest, Crash, history
<1> QED BY <1>1, <1>2, <1>3, <1>4, AtRest DEF IInv

LEMMA Stutter == IInv /\ UNCHANGED vars => IInv'
<1> SUFFICES ASSUME IInv, UNCHANGED vars PROVE IInv'
  OBVIOUS
<1>1. Records' /\ Sessions' /\ Room'
  BY DEF IInv, Records, Sessions, Room, vars
<1>2. PhaseInv' /\ Rest'
  BY DEF IInv, PhaseInv, Key, Rest, vars
<1> QED BY <1>1, <1>2 DEF IInv, vars

-----------------------------------------------------------------------------
(* The invariant holds initially and every step of the protocol keeps it.   *)
LEMMA Invariance == Spec => []IInv
<1>1. IInv /\ [Next]_vars => IInv'
  <2> SUFFICES ASSUME IInv, [Next]_vars PROVE IInv'
    OBVIOUS
  <2>1. ASSUME NEW b \in Backend, SwitchBackend(b) PROVE IInv'
    BY <2>1, SwitchStep
  <2>2. CASE SavedWithOthers \/ Arrives
    BY <2>2, SavedStep, ArrivesStep
  <2>3. CASE Begins
    BY <2>3, BeginsStep
  <2>4. CASE Answers
    BY <2>4, AnswersStep
  <2>5. CASE Fails
    BY <2>5, GivesUp DEF Fails
  <2>6. CASE AuthFails
    BY <2>6, GivesUp DEF AuthFails
  <2>7. CASE Overflows
    BY <2>7, OverflowsStep
  <2>8. CASE Recovers \/ ResumesInstead
    BY <2>8, RetriesStep
  <2>9. CASE CompactBegins
    BY <2>9, CompactBeginsStep
  <2>10. CASE Compacted
    BY <2>10, CompactedStep
  <2>11. CASE CompactFails
    BY <2>11, CompactFailsStep
  <2>12. CASE Pruned
    BY <2>12, PrunedStep
  <2>13. CASE Crash
    BY <2>13, CrashStep
  <2>14. CASE UNCHANGED vars
    BY <2>14, Stutter
  <2> QED
    BY <2>1, <2>2, <2>3, <2>4, <2>5, <2>6, <2>7, <2>8, <2>9, <2>10, <2>11, <2>12,
       <2>13, <2>14 DEF Next
<1> QED BY <1>1, InitIInv, PTL DEF Spec

(* The record, the sessions and the turn keep their types, and a record     *)
(* marked Started has an id to resume (manager.go:1436-1444).               *)
THEOREM SessionTypeCorrect == Spec => []TypeOK
BY Invariance, IInvTypes, PTL

(* No turn ends because the record and the CLI disagree on whether its      *)
(* session exists: every run has an id that the CLI takes, or is rejected   *)
(* in one of the two ways that are retried (manager.go:1585, 1633).         *)
THEOREM NoTurnDeadEnds == Spec => []NoDeadEnd
<1>1. IInv => NoDeadEnd
  <2> SUFFICES ASSUME IInv, turn.phase \in Running
               PROVE  Accepted(turn.backend, Key, Resumes) \/ IsGone \/ IsInUse
    BY DEF NoDeadEnd
  <2>1. CASE turn.phase = "first"
    <3>1. turn.resume \in BOOLEAN /\ (turn.resume => conv.started)
      BY <2>1 DEF IInv, PhaseInv, TurnState
    <3>2. CASE turn.resume
      BY <2>1, <3>1, <3>2 DEF IsGone, Resumes
    <3>3. CASE ~turn.resume
      BY <2>1, <3>3 DEF IsInUse, Resumes
    <3> QED BY <3>1, <3>2, <3>3
  <2>2. CASE turn.phase = "resuming"
    BY <2>2 DEF IInv, PhaseInv, Accepted, Resumes
  <2>3. CASE turn.phase \in {"recovering", "continuing"}
    BY <2>3 DEF IInv, PhaseInv, Accepted, Resumes
  <2> QED BY <2>1, <2>2, <2>3 DEF Running
<1> QED BY <1>1, Invariance, PTL

-----------------------------------------------------------------------------
(* The session holds the history.                                           *)

(* The session that record c names under backend b, if a turn would go on   *)
(* with it, has seen c's answered turns; k is what the CLIs know, d what    *)
(* overflows dropped.                                                       *)
HoldsFor(c, b, k, d) ==
    /\ <<b, c.sid>> \in DOMAIN k
    /\ c.started \/ b = "claude"
    => c.answered \subseteq k[<<b, c.sid>>] \cup d

(* Of two records that name one session the older has no answer more.       *)
NoNewer(old, c) == old.sid = c.sid /\ c.sid # None => old.answered \subseteq c.answered

(* The turn and the compaction go for the session the record names.         *)
SameSession ==
    /\ turn.phase # "none" => turn.backend = backend
    /\ compacting # "no" => compacting = backend /\ conv.started
    /\ turn.phase = "first" => turn.resume = conv.started
    /\ turn.phase = "resuming" => backend = "claude"
    /\ turn.phase = "continuing" => conv.answered \subseteq dropped

RecordsHeld ==
    /\ HoldsFor(conv, backend, knows, dropped)
    /\ HoldsFor(disk, backend, knows, dropped)
    /\ NoNewer(disk, conv)

(* A turn that waits for telegramMu brings back the record it read.         *)
CopyHeld ==
    turn.phase = "read" =>
        /\ HoldsFor(copy, backend, knows, dropped)
        /\ NoNewer(disk, copy) /\ NoNewer(conv, copy)

InContext == SameSession /\ RecordsHeld /\ CopyHeld

ContextInv == ~upset => InContext

-----------------------------------------------------------------------------
(* What a session that sees a prompt knows afterwards.                      *)
LEMMA SeesKnows ==
    ASSUME NEW s, NEW turns, Sees(s, turns)
    PROVE  /\ DOMAIN knows' = DOMAIN knows \cup {s}
           /\ turns \subseteq knows'[s]
           /\ \A k \in DOMAIN knows : knows[k] \subseteq knows'[k]
BY DEF Sees, KnownTo

(* A record stays held when its session learns or was there before.         *)
LEMMA StaysHeld ==
    ASSUME NEW c, NEW b, NEW k1, NEW k2, NEW d1, NEW d2,
           HoldsFor(c, b, k1, d1), d1 \subseteq d2,
           <<b, c.sid>> \in DOMAIN k2 =>
               <<b, c.sid>> \in DOMAIN k1 /\ k1[<<b, c.sid>>] \subseteq k2[<<b, c.sid>>]
    PROVE  HoldsFor(c, b, k2, d2)
BY DEF HoldsFor

(* After a run the records are held as before, and the run's session knows  *)
(* the history and the prompt.                                              *)
LEMMA RanHeld ==
    ASSUME IInv, InContext, turn.phase \in Running, Ran
    PROVE  /\ HoldsFor(conv, backend, knows', dropped)
           /\ HoldsFor(disk, backend, knows', dropped)
           /\ LET s == SessionOf(turn.backend, Key, Resumes) IN
              conv.answered \cup {turn.n} \subseteq knows'[s] \cup dropped
<1> DEFINE s == SessionOf(turn.backend, Key, Resumes)
<1>1. /\ turn.backend = backend /\ Key = <<backend, conv.sid>> /\ conv.sid # None
      /\ conv.sid <= lastId /\ disk.sid <= lastId /\ lastId \in Nat
      /\ conv.sid \in Nat /\ disk.sid \in Nat /\ backend \in Backend
  BY DEF IInv, InContext, SameSession, PhaseInv, Records, Fine, Key, Running,
         Conversation, Rest
<1>2. Accepted(backend, Key, Resumes) /\ Sees(s, Inlined \cup {turn.n})
  BY <1>1 DEF Ran
<1>3. /\ DOMAIN knows' = DOMAIN knows \cup {s}
      /\ Inlined \cup {turn.n} \subseteq knows'[s]
      /\ \A k \in DOMAIN knows : knows[k] \subseteq knows'[k]
  BY <1>2, SeesKnows
<1>4. conv.answered \subseteq knows'[s] \cup dropped
  <2>1. CASE Resumes
    <3>1. s = Key /\ Key \in DOMAIN knows
      BY <1>2, <2>1 DEF SessionOf, Accepted
    <3>2. conv.started \/ backend = "claude"
      BY <2>1 DEF InContext, SameSession, Resumes
    <3>3. conv.answered \subseteq knows[Key] \cup dropped
      BY <1>1, <3>1, <3>2 DEF InContext, RecordsHeld, HoldsFor
    <3> QED BY <1>3, <3>1, <3>3
  <2>2. CASE ~Resumes /\ turn.phase # "continuing"
    <3>1. Inlined = conv.answered
      BY <2>2 DEF Inlined, Resumes, Running
    <3> QED BY <1>3, <3>1
  <2>3. CASE turn.phase = "continuing"
    BY <2>3 DEF InContext, SameSession
  <2> QED BY <2>1, <2>2, <2>3
<1>5. CASE s = Key
  <2>1. HoldsFor(conv, backend, knows', dropped)
    BY <1>1, <1>4, <1>5 DEF HoldsFor
  <2>2. CASE disk.sid = conv.sid
    <3>1. disk.answered \subseteq conv.answered
      BY <1>1, <2>2 DEF InContext, RecordsHeld, NoNewer
    <3>2. <<backend, disk.sid>> = s
      BY <1>1, <1>5, <2>2
    <3>3. HoldsFor(disk, backend, knows', dropped)
      BY <1>4, <3>1, <3>2 DEF HoldsFor
    <3> QED BY <1>3, <1>4, <2>1, <3>3
  <2>3. CASE disk.sid # conv.sid
    <3>1. <<backend, disk.sid>> # s
      BY <1>1, <1>5, <2>3
    <3>2. HoldsFor(disk, backend, knows, dropped)
      BY DEF InContext, RecordsHeld
    <3>3. HoldsFor(disk, backend, knows', dropped)
      BY <1>3, <3>1, <3>2, StaysHeld
    <3> QED BY <1>3, <1>4, <2>1, <3>3
  <2> QED BY <2>2, <2>3
<1>6. CASE s # Key
  <2>1. s = <<backend, lastId + 1>>
    BY <1>1, <1>6 DEF SessionOf
  <2>2. <<backend, conv.sid>> # s /\ <<backend, disk.sid>> # s
    BY <1>1, <2>1
  <2>3. HoldsFor(conv, backend, knows, dropped) /\ HoldsFor(disk, backend, knows, dropped)
    BY DEF InContext, RecordsHeld
  <2>4. HoldsFor(conv, backend, knows', dropped)
    BY <1>3, <2>2, <2>3, StaysHeld
  <2>5. HoldsFor(disk, backend, knows', dropped)
    BY <1>3, <2>2, <2>3, StaysHeld
  <2> QED BY <1>3, <1>4, <2>4, <2>5
<1> QED BY <1>5, <1>6

(* A turn that ends without an answer, or a crash of it, changes no record. *)
LEMMA EndsHeld ==
    ASSUME IInv, InContext, turn.phase \in Running, Ran \/ UNCHANGED cli
    PROVE  /\ HoldsFor(conv, backend, knows', dropped)
           /\ HoldsFor(disk, backend, knows', dropped)
<1>1. CASE Ran
  BY <1>1, RanHeld
<1>2. CASE UNCHANGED cli
  BY <1>2 DEF cli, InContext, RecordsHeld
<1> QED BY <1>1, <1>2

(* Nothing is said of a turn that is not there.                             *)
LEMMA NoTurnInContext ==
    ASSUME turn' = NoTurn, compacting' = "no", RecordsHeld' PROVE InContext'
<1>1. turn'.phase = "none"
  BY DEF NoTurn
<1> QED BY <1>1 DEF InContext, SameSession, CopyHeld

(* A compaction runs on the session that the record names, which it leaves  *)
(* as it was.                                                               *)
LEMMA CompactRanKeeps ==
    ASSUME InContext, compacting # "no", CompactRan,
           Accepted(compacting, CompactKey, conv.started)
    PROVE  DOMAIN knows' = DOMAIN knows
           /\ \A k \in DOMAIN knows : knows[k] \subseteq knows'[k]
<1>1. CompactKey \in DOMAIN knows
  BY DEF InContext, SameSession, Accepted
<1>2. CASE compacting = "codex"
  BY <1>2 DEF CompactRan
<1>3. CASE compacting # "codex"
  <2>1. Sees(CompactKey, {})
    BY <1>3 DEF CompactRan
  <2>2. /\ DOMAIN knows' = DOMAIN knows \cup {CompactKey}
        /\ \A k \in DOMAIN knows : knows[k] \subseteq knows'[k]
    BY <2>1, SeesKnows
  <2> QED BY <1>1, <2>2
<1> QED BY <1>2, <1>3

-----------------------------------------------------------------------------
LEMMA InitContext == Init => ContextInv
BY DEF Init, ContextInv, InContext, SameSession, RecordsHeld, CopyHeld, HoldsFor,
       NoNewer, NoTurn

LEMMA ArrivesContext ==
    ASSUME InContext, Arrives PROVE InContext'
<1>1. /\ conv' = conv /\ disk' = disk /\ copy' = conv /\ knows' = knows
      /\ compacting' = compacting /\ backend' = backend /\ dropped' = dropped
  BY DEF Arrives, store, cli, history
<1>2. turn'.phase = "read" /\ turn'.backend = backend
  BY DEF Arrives, NoTurn
<1>3. SameSession'
  BY <1>1, <1>2 DEF InContext, SameSession
<1>4. RecordsHeld'
  BY <1>1 DEF InContext, RecordsHeld
<1>5. CopyHeld'
  BY <1>1 DEF InContext, RecordsHeld, CopyHeld, NoNewer
<1> QED BY <1>3, <1>4, <1>5 DEF InContext

(* The turn goes on with the record it read, a new id if it has to mint it. *)
LEMMA BeginsContext ==
    ASSUME IInv, InContext, Begins PROVE InContext'
<1> DEFINE c == WithId(copy, lastId + 1)
<1>1. PICK reset \in Resets(c) :
        LET r == IF reset THEN ResetOf(c, turn.backend, lastId + 1) ELSE c IN
        /\ turn' = [turn EXCEPT !.phase = "first", !.reset = reset, !.resume = r.started]
        /\ lastId' = IF r.sid = copy.sid THEN lastId ELSE lastId + 1
        /\ Save([r EXCEPT !.asked = @ \cup {turn.n}])
  BY DEF Begins
<1> DEFINE r == IF reset THEN ResetOf(c, turn.backend, lastId + 1) ELSE c
           saved == [r EXCEPT !.asked = @ \cup {turn.n}]
<1>2. /\ turn \in TurnState /\ turn.phase = "read" /\ turn.backend = backend
      /\ copy \in Conversation /\ lastId \in Nat /\ backend \in Backend
      /\ disk.sid \in Nat /\ disk.sid <= lastId /\ compacting' = "no"
      /\ knows' = knows /\ backend' = backend /\ dropped' = dropped
  BY DEF Begins, IInv, InContext, SameSession, Records, Fine, Conversation, Rest, history
<1>3. /\ HoldsFor(copy, backend, knows, dropped) /\ NoNewer(disk, copy)
      /\ HoldsFor(disk, backend, knows, dropped)
  BY <1>2 DEF InContext, RecordsHeld, CopyHeld
<1>4. /\ DOMAIN c = DOMAIN copy /\ c.answered = copy.answered
      /\ \/ c = copy
         \/ c.sid = lastId + 1 /\ ~c.started
  <2>1. CASE copy.sid = None
    BY <1>2, <2>1 DEF WithId, Conversation
  <2>2. CASE copy.sid # None
    BY <1>2, <2>2 DEF WithId
  <2> QED BY <2>1, <2>2
<1>5. /\ DOMAIN saved = DOMAIN copy
      /\ saved.answered = copy.answered /\ saved.started = r.started
      /\ saved.sid = r.sid
  BY <1>2, <1>4 DEF ResetOf, Conversation
<1>6. \/ saved.sid = copy.sid /\ saved.started = copy.started
      \/ saved.sid = copy.sid /\ backend # "claude" /\ ~saved.started
      \/ saved.sid = lastId + 1
  <2>1. CASE reset
    <3>1. r = [c EXCEPT !.started = FALSE, !.big = {},
                        !.sid = IF backend = "claude" THEN lastId + 1 ELSE c.sid]
      BY <1>2, <2>1 DEF ResetOf
    <3>2. ~r.started /\ r.sid = IF backend = "claude" THEN lastId + 1 ELSE c.sid
      BY <1>2, <1>4, <3>1 DEF Conversation
    <3> QED BY <1>4, <1>5, <3>2
  <2>2. CASE ~reset
    BY <1>4, <1>5, <2>2
  <2> QED BY <2>1, <2>2
<1> HIDE DEF saved, c, r
<1>7. HoldsFor(saved, backend, knows, dropped) /\ NoNewer(disk, saved)
  <2>1. CASE saved.sid = copy.sid /\ saved.started = copy.started
    BY <1>3, <1>5, <2>1 DEF HoldsFor, NoNewer
  <2>2. CASE saved.sid = copy.sid /\ backend # "claude" /\ ~saved.started
    BY <1>3, <1>5, <2>2 DEF HoldsFor, NoNewer
  <2>3. CASE saved.sid = lastId + 1
    <3>1. <<backend, saved.sid>> \notin DOMAIN knows
      BY <1>2, <2>3 DEF IInv, Sessions
    <3>2. disk.sid # saved.sid
      BY <1>2, <2>3
    <3> QED BY <3>1, <3>2 DEF HoldsFor, NoNewer
  <2> QED BY <1>6, <2>1, <2>2, <2>3
<1>8. conv' = saved /\ disk' \in {saved, disk}
  BY <1>1 DEF Save, saved, c, r
<1>9. RecordsHeld'
  BY <1>2, <1>3, <1>7, <1>8 DEF RecordsHeld, NoNewer
<1>10. turn'.phase = "first" /\ turn'.resume = saved.started /\ turn'.backend = backend
  <2>1. turn'.phase = "first" /\ turn'.resume = r.started /\ turn'.backend = turn.backend
    BY <1>1, <1>2 DEF TurnState, r, c
  <2> QED BY <1>2, <1>5, <2>1
<1>11. SameSession' /\ CopyHeld'
  BY <1>2, <1>8, <1>10 DEF SameSession, CopyHeld
<1> QED BY <1>9, <1>11 DEF InContext

LEMMA AnswersContext ==
    ASSUME IInv, InContext, Answers, ~upset' PROVE InContext'
<1> DEFINE s == SessionOf(turn.backend, Key, Resumes)
           new == ~Resumes /\ (~conv.started \/ turn.phase = "recovering" \/ turn.reset)
<1>1. PICK id \in {s[2]} \cup (IF "noThreadId" \in Failures THEN {None} ELSE {}),
           big \in BOOLEAN :
        LET c == Adopts(conv, new, id) IN
        Save([c EXCEPT !.started = TRUE, !.answered = @ \cup {turn.n},
                       !.big = IF big THEN @ \cup {turn.backend}
                               ELSE @ \ {turn.backend}])
        /\ upset' = (upset \/ id = None)
  BY DEF Answers
<1> DEFINE c == Adopts(conv, new, id)
           saved == [c EXCEPT !.started = TRUE, !.answered = @ \cup {turn.n},
                              !.big = IF big THEN @ \cup {turn.backend}
                                      ELSE @ \ {turn.backend}]
<1>2. id = s[2] /\ id # None
  BY <1>1
<1>3. /\ turn.phase \in Running /\ turn' = NoTurn /\ compacting' = "no"
      /\ turn.backend = backend /\ backend \in Backend
      /\ conv \in Conversation /\ disk.sid \in Nat /\ lastId \in Nat
      /\ conv.sid # None /\ disk.sid <= lastId /\ Key = <<backend, conv.sid>>
      /\ backend' = backend /\ dropped' = dropped
  BY DEF Answers, IInv, InContext, SameSession, Records, Fine, PhaseInv, Rest, Running,
         Conversation, Key
<1>4. /\ HoldsFor(disk, backend, knows', dropped)
      /\ \/ conv.answered \cup {turn.n} \subseteq knows'[s] \cup dropped
         \/ s = Key /\ Key \notin DOMAIN knows'
  <2>1. CASE Ran
    BY <2>1, <1>3, RanHeld
  <2>2. CASE turn.phase = "continuing" /\ UNCHANGED cli
    <3>1. knows' = knows /\ turn.backend = "claude" /\ Key \notin DOMAIN knows
      BY <2>2 DEF IInv, PhaseInv, cli
    <3>2. s = Key
      BY <3>1 DEF SessionOf
    <3> QED BY <3>1, <3>2 DEF InContext, RecordsHeld
  <2> QED BY <2>1, <2>2 DEF Answers
<1>5. c.sid = s[2] /\ c.answered = conv.answered /\ DOMAIN c = DOMAIN conv
      /\ <<backend, s[2]>> = s
  <2>1. CASE backend = "claude" \/ Resumes
    <3>1. s = Key
      BY <1>3, <2>1 DEF SessionOf
    <3>2. c = conv
      BY <1>3, <2>1 DEF Adopts
    <3> QED BY <1>3, <3>1, <3>2
  <2>2. CASE backend = "codex" /\ ~Resumes
    <3>1. turn.phase \in {"first", "recovering"}
      BY <1>3, <2>2 DEF IInv, PhaseInv, InContext, SameSession, Running
    <3>2. turn.phase = "first" => ~conv.started
      BY <2>2 DEF Resumes, InContext, SameSession
    <3>3. c = [conv EXCEPT !.sid = id]
      BY <1>2, <1>3, <2>2, <3>1, <3>2 DEF Adopts
    <3>4. s = <<backend, lastId + 1>>
      BY <1>3, <2>2 DEF SessionOf
    <3> QED BY <1>2, <1>3, <3>3, <3>4 DEF Conversation
  <2> QED BY <1>3, <2>1, <2>2 DEF Backend
<1>6. saved.sid = s[2] /\ saved.answered = conv.answered \cup {turn.n}
  <2>1. DOMAIN conv = {"sid", "started", "big", "asked", "answered"}
    BY <1>3 DEF Conversation
  <2> HIDE DEF c, s
  <2> QED BY <1>5, <2>1
<1>7. conv' = saved /\ disk' \in {saved, disk}
  BY <1>1 DEF Save
<1> HIDE DEF saved, c
<1>8. HoldsFor(saved, backend, knows', dropped)
  BY <1>3, <1>4, <1>5, <1>6 DEF HoldsFor
<1>9. NoNewer(disk, saved)
  <2>1. CASE s = Key
    BY <1>3, <1>6, <2>1 DEF InContext, RecordsHeld, NoNewer
  <2>2. CASE s # Key
    <3>1. saved.sid = lastId + 1
      BY <1>6, <2>2 DEF SessionOf
    <3> QED BY <1>3, <3>1 DEF NoNewer
  <2> QED BY <2>1, <2>2
<1>10. RecordsHeld'
  BY <1>3, <1>4, <1>7, <1>8, <1>9 DEF RecordsHeld, NoNewer
<1> QED BY <1>3, <1>10, NoTurnInContext

LEMMA GivesUpContext ==
    ASSUME IInv, InContext, Fails \/ AuthFails PROVE InContext'
<1>1. /\ turn.phase \in Running
      /\ Ran \/ UNCHANGED cli
      /\ conv' = conv /\ disk' = disk /\ backend' = backend /\ dropped' = dropped
      /\ turn' = NoTurn /\ compacting' = compacting
  BY DEF Fails, AuthFails, store, history, cli
<1>2. compacting = "no"
  BY <1>1 DEF IInv, PhaseInv, Running
<1>3. /\ HoldsFor(conv, backend, knows', dropped)
      /\ HoldsFor(disk, backend, knows', dropped)
  BY <1>1, EndsHeld
<1>4. RecordsHeld'
  BY <1>1, <1>3 DEF RecordsHeld, InContext
<1> QED BY <1>1, <1>2, <1>4, NoTurnInContext

(* What the overflowed session held is left to the summary, and the new     *)
(* session is not there yet.                                                *)
LEMMA OverflowsContext ==
    ASSUME IInv, InContext, Overflows PROVE InContext'
<1>1. /\ turn \in TurnState /\ turn.phase \in Running \ {"continuing"}
      /\ turn.backend = backend /\ backend = "claude" /\ compacting = "no"
      /\ conv \in Conversation /\ conv.sid # None /\ Key = <<backend, conv.sid>>
      /\ conv.sid <= lastId /\ disk.sid <= lastId /\ disk.sid \in Nat /\ lastId \in Nat
      /\ Sees(Key, Inlined) /\ disk' = disk /\ backend' = backend
      /\ dropped' = dropped \cup conv.answered /\ compacting' = compacting
  BY DEF Overflows, IInv, InContext, SameSession, Records, Fine, PhaseInv, Running, Key,
         Conversation
<1>2. /\ DOMAIN knows' = DOMAIN knows \cup {Key}
      /\ \A k \in DOMAIN knows : knows[k] \subseteq knows'[k]
  BY <1>1, SeesKnows
<1>3. conv'.sid = lastId + 1 /\ conv'.answered = conv.answered /\ ~conv'.started
  <2>1. conv' = [conv EXCEPT !.sid = lastId + 1, !.started = FALSE]
    BY DEF Overflows, Continuation
  <2> QED BY <1>1, <2>1 DEF Conversation
<1>4. HoldsFor(conv', backend, knows', dropped')
  BY <1>1, <1>3 DEF HoldsFor
<1>5. HoldsFor(disk, backend, knows', dropped')
  <2>1. CASE disk.sid = conv.sid
    <3>1. disk.answered \subseteq conv.answered
      BY <1>1, <2>1 DEF InContext, RecordsHeld, NoNewer
    <3> QED BY <1>1, <3>1 DEF HoldsFor
  <2>2. CASE disk.sid # conv.sid
    <3>1. <<backend, disk.sid>> # Key
      BY <1>1, <2>2
    <3>2. HoldsFor(disk, backend, knows, dropped) /\ dropped \subseteq dropped'
      BY <1>1 DEF InContext, RecordsHeld
    <3> QED BY <1>2, <3>1, <3>2, StaysHeld
  <2> QED BY <2>1, <2>2
<1>6. NoNewer(disk, conv')
  BY <1>1, <1>3 DEF NoNewer
<1>7. RecordsHeld'
  BY <1>1, <1>4, <1>5, <1>6 DEF RecordsHeld
<1>8. turn'.phase = "continuing" /\ turn'.backend = backend
  <2>1. turn' = [turn EXCEPT !.phase = "continuing"]
    BY DEF Overflows
  <2> QED BY <1>1, <2>1 DEF TurnState
<1>9. SameSession' /\ CopyHeld'
  BY <1>1, <1>3, <1>8 DEF SameSession, CopyHeld
<1> QED BY <1>7, <1>9 DEF InContext

LEMMA RetriesContext ==
    ASSUME IInv, InContext, Recovers \/ ResumesInstead PROVE InContext'
<1>1. /\ conv' = conv /\ disk' = disk /\ knows' = knows /\ backend' = backend
      /\ dropped' = dropped /\ compacting' = compacting
      /\ turn \in TurnState /\ turn.phase = "first" /\ turn.backend = backend
      /\ backend \in Backend /\ compacting = "no"
  BY DEF Recovers, ResumesInstead, IsGone, IsInUse, store, cli, history, IInv, PhaseInv,
         InContext, SameSession, Rest
<1>2. RecordsHeld'
  BY <1>1 DEF InContext, RecordsHeld
<1>3. CASE Recovers
  <2>1. turn'.phase = "recovering" /\ turn'.backend = backend
    BY <1>1, <1>3 DEF Recovers, TurnState
  <2> QED BY <1>1, <1>2, <2>1 DEF InContext, SameSession, CopyHeld
<1>4. CASE ResumesInstead
  <2>1. turn'.phase = "resuming" /\ turn'.backend = backend
    BY <1>1, <1>4 DEF ResumesInstead, TurnState
  <2>2. backend = "claude"
    BY <1>1, <1>4 DEF ResumesInstead, IsInUse, Accepted
  <2> QED BY <1>1, <1>2, <2>1, <2>2 DEF InContext, SameSession, CopyHeld
<1> QED BY <1>3, <1>4

-----------------------------------------------------------------------------
LEMMA SavedContext ==
    ASSUME InContext, SavedWithOthers PROVE InContext'
<1>1. /\ conv' = conv /\ disk' = conv /\ copy' = copy /\ knows' = knows /\ turn' = turn
      /\ compacting' = compacting /\ backend' = backend /\ dropped' = dropped
  BY DEF SavedWithOthers, cli, history
<1>2. SameSession' /\ RecordsHeld'
  BY <1>1 DEF InContext, SameSession, RecordsHeld, NoNewer
<1>3. CopyHeld'
  BY <1>1 DEF InContext, CopyHeld
<1> QED BY <1>2, <1>3 DEF InContext

LEMMA CompactBeginsContext ==
    ASSUME InContext, CompactBegins, ~upset' PROVE InContext'
<1>1. /\ conv' = conv /\ disk' = disk /\ knows' = knows /\ turn' = turn
      /\ compacting' = backend /\ backend' = backend /\ dropped' = dropped
      /\ conv.started /\ turn.phase = "none"
  BY DEF CompactBegins, store, cli
<1> QED BY <1>1 DEF InContext, SameSession, RecordsHeld, CopyHeld

(* The emptied record has nothing to hold.                                  *)
LEMMA CompactedContext ==
    ASSUME IInv, InContext, Compacted PROVE InContext'
<1>1. /\ turn' = turn /\ copy' = copy /\ compacting # "no" /\ compacting' = "no"
      /\ turn.phase \in {"none", "read"} /\ backend' = backend /\ dropped' = dropped
      /\ conv \in Conversation
  BY DEF Compacted, IInv, Records, Fine, PhaseInv, history
<1>2. /\ DOMAIN knows' = DOMAIN knows
      /\ \A k \in DOMAIN knows : knows[k] \subseteq knows'[k]
  BY CompactRanKeeps DEF Compacted
<1> DEFINE saved == [conv EXCEPT !.sid = None, !.started = FALSE, !.asked = {},
                                 !.answered = {}]
<1>3. saved.sid = None /\ saved.answered = {}
  BY <1>1 DEF Conversation
<1>4. conv' = saved /\ disk' \in {saved, disk}
  BY DEF Compacted, Save
<1> HIDE DEF saved
<1>5. \A c : HoldsFor(c, backend, knows, dropped) => HoldsFor(c, backend, knows', dropped)
  BY <1>2, StaysHeld
<1>6. HoldsFor(saved, backend, knows', dropped)
  BY <1>3 DEF HoldsFor
<1>7. RecordsHeld'
  BY <1>1, <1>3, <1>4, <1>5, <1>6 DEF InContext, RecordsHeld, NoNewer
<1>8. CopyHeld'
  <2> SUFFICES ASSUME turn.phase = "read"
               PROVE  /\ HoldsFor(copy, backend, knows', dropped)
                      /\ NoNewer(disk', copy) /\ NoNewer(conv', copy)
    BY <1>1 DEF CopyHeld
  <2>1. HoldsFor(copy, backend, knows, dropped) /\ NoNewer(disk, copy)
    BY DEF InContext, CopyHeld
  <2>2. NoNewer(saved, copy)
    BY <1>3 DEF NoNewer
  <2> QED BY <1>4, <1>5, <2>1, <2>2
<1>9. SameSession'
  BY <1>1 DEF InContext, SameSession
<1> QED BY <1>7, <1>8, <1>9 DEF InContext

LEMMA CompactFailsContext ==
    ASSUME IInv, InContext, CompactFails PROVE InContext'
<1>1. /\ conv' = conv /\ disk' = disk /\ turn' = turn /\ copy' = copy
      /\ compacting # "no" /\ compacting' = "no" /\ backend' = backend
      /\ dropped' = dropped /\ turn.phase \in {"none", "read"}
  BY DEF CompactFails, IInv, PhaseInv, store, history
<1>2. /\ DOMAIN knows' = DOMAIN knows
      /\ \A k \in DOMAIN knows : knows[k] \subseteq knows'[k]
  <2>1. CASE UNCHANGED knows
    BY <2>1
  <2>2. CASE CompactRan /\ Accepted(compacting, CompactKey, conv.started)
    BY <1>1, <2>2, CompactRanKeeps
  <2> QED BY <2>1, <2>2 DEF CompactFails
<1>3. \A c : HoldsFor(c, backend, knows, dropped) => HoldsFor(c, backend, knows', dropped)
  BY <1>2, StaysHeld
<1>4. RecordsHeld' /\ CopyHeld'
  BY <1>1, <1>3 DEF InContext, RecordsHeld, CopyHeld
<1>5. SameSession'
  BY <1>1 DEF InContext, SameSession
<1> QED BY <1>4, <1>5 DEF InContext

LEMMA PrunedContext ==
    ASSUME InContext, Pruned PROVE InContext'
<1>1. /\ conv' = conv /\ disk' = disk /\ turn' = turn /\ copy' = copy
      /\ compacting' = compacting /\ backend' = backend /\ dropped' = dropped
  BY DEF Pruned, store, history
<1>2. \A k \in DOMAIN knows' : k \in DOMAIN knows /\ knows[k] \subseteq knows'[k]
  BY DEF Pruned
<1>3. \A c : HoldsFor(c, backend, knows, dropped) => HoldsFor(c, backend, knows', dropped)
  BY <1>2, StaysHeld
<1>4. RecordsHeld' /\ CopyHeld'
  BY <1>1, <1>3 DEF InContext, RecordsHeld, CopyHeld
<1>5. SameSession'
  BY <1>1 DEF InContext, SameSession
<1> QED BY <1>4, <1>5 DEF InContext

LEMMA CrashContext ==
    ASSUME IInv, InContext, Crash PROVE InContext'
<1>1. /\ turn' = NoTurn /\ compacting' = "no" /\ conv' = disk /\ disk' = disk
      /\ backend' = backend /\ dropped' = dropped
  BY DEF Crash, history
<1>2. HoldsFor(disk, backend, knows', dropped)
  <2>1. CASE turn.phase \in Running /\ Ran
    BY <2>1, RanHeld
  <2>2. CASE /\ compacting # "no" /\ Accepted(compacting, CompactKey, conv.started)
             /\ CompactRan
    <3>1. /\ DOMAIN knows' = DOMAIN knows
          /\ \A k \in DOMAIN knows : knows[k] \subseteq knows'[k]
      BY <2>2, CompactRanKeeps
    <3>2. HoldsFor(disk, backend, knows, dropped)
      BY DEF InContext, RecordsHeld
    <3> QED BY <3>1, <3>2, StaysHeld
  <2>3. CASE UNCHANGED cli
    BY <2>3 DEF cli, InContext, RecordsHeld
  <2> QED BY <2>1, <2>2, <2>3 DEF Crash
<1>3. RecordsHeld'
  BY <1>1, <1>2 DEF RecordsHeld, NoNewer
<1> QED BY <1>1, <1>3, NoTurnInContext

-----------------------------------------------------------------------------
(* The record, the copies of it and the sessions stay in step as long as    *)
(* nothing else upsets them.                                                *)
LEMMA ContextInvariance == Spec => []ContextInv
<1>1. IInv /\ ContextInv /\ [Next]_vars => ContextInv'
  <2> SUFFICES ASSUME IInv, ContextInv, [Next]_vars, ~upset' PROVE InContext'
    BY DEF ContextInv
  <2>1. ASSUME NEW b \in Backend, SwitchBackend(b) PROVE FALSE
    BY <2>1 DEF SwitchBackend
  <2>2. ~upset
    BY <2>1 DEF Next, vars, history, SavedWithOthers, Arrives, Begins, Answers, Fails,
                AuthFails, Overflows, Recovers, ResumesInstead, CompactBegins,
                Compacted, CompactFails, Pruned, Crash
  <2> USE <2>2 DEF ContextInv
  <2>3. CASE SavedWithOthers
    BY <2>3, SavedContext
  <2>4. CASE Arrives
    BY <2>4, ArrivesContext
  <2>5. CASE Begins
    BY <2>5, BeginsContext
  <2>6. CASE Answers
    BY <2>6, AnswersContext
  <2>7. CASE Fails \/ AuthFails
    BY <2>7, GivesUpContext
  <2>8. CASE Overflows
    BY <2>8, OverflowsContext
  <2>9. CASE Recovers \/ ResumesInstead
    BY <2>9, RetriesContext
  <2>10. CASE CompactBegins
    BY <2>10, CompactBeginsContext
  <2>11. CASE Compacted
    BY <2>11, CompactedContext
  <2>12. CASE CompactFails
    BY <2>12, CompactFailsContext
  <2>13. CASE Pruned
    BY <2>13, PrunedContext
  <2>14. CASE Crash
    BY <2>14, CrashContext
  <2>15. CASE UNCHANGED vars
    BY <2>15 DEF vars, InContext, SameSession, RecordsHeld, CopyHeld
  <2> QED
    BY <2>1, <2>3, <2>4, <2>5, <2>6, <2>7, <2>8, <2>9, <2>10, <2>11, <2>12, <2>13,
       <2>14, <2>15 DEF Next
<1> QED BY <1>1, Invariance, InitContext, PTL DEF Spec

(* The session that the next turn goes on with has seen every answered turn *)
(* of the stored history, of which a resumed run is told nothing            *)
(* (manager.go:2030-2039): through failures, resets, recoveries, pruning,   *)
(* failed saves and crashes, unless the backend changes, codex names no     *)
(* thread or a compaction runs on a session of its own.                     *)
THEOREM ContextIsKept == Spec => []StaysInContext
<1>1. ContextInv => StaysInContext
  <2> SUFFICES ASSUME InContext, turn.phase = "none",
                      NEW s \in DOMAIN knows, GoesOnWith(s)
               PROVE  conv.answered \subseteq knows[s] \cup dropped
    BY DEF ContextInv, StaysInContext, SessionHoldsHistory
  <2> QED BY DEF InContext, RecordsHeld, HoldsFor, GoesOnWith
<1> QED BY <1>1, ContextInvariance, PTL
=============================================================================
