------------------------- MODULE ConversationTurns -------------------------
(***************************************************************************)
(* What the dispatcher promises to a conversation, without lanes, slots or *)
(* queues: a message is accepted, runs in one turn and is done.  Turns of  *)
(* a serial conversation never overlap, and each takes the oldest messages *)
(* that still wait, as many as merge into one prompt.  Only a conversation *)
(* that may be interactive can run messages concurrently or out of order.  *)
(***************************************************************************)
EXTENDS Integers, Sequences

CONSTANTS Lane, Message, LaneOf, MergeClass, Alone, SerialLane

VARIABLES
    status,     \* how far each message is
    arrived     \* the messages accepted per conversation, in order

vars == <<status, arrived>>

Compatible(m, n) ==
    m = n \/ (MergeClass[m] # Alone /\ MergeClass[m] = MergeClass[n])

Init ==
    /\ status = [m \in Message |-> "new"]
    /\ arrived = [k \in Lane |-> <<>>]

Accept(m) ==
    /\ status[m] = "new"
    /\ status' = [status EXCEPT ![m] = "waiting"]
    /\ arrived' = [arrived EXCEPT ![LaneOf[m]] = Append(@, m)]

(* The messages in positions i to j of conversation k become one turn.      *)
Start(k, i, j) ==
    LET batch == {arrived[k][x] : x \in i..j} IN
    /\ 1 <= i /\ i <= j /\ j <= Len(arrived[k])
    /\ \A m \in batch : status[m] = "waiting"
    /\ \A m \in batch : Compatible(arrived[k][i], m)
    /\ k \in SerialLane => \A x \in 1..(i - 1) : status[arrived[k][x]] = "done"
    /\ status' = [m \in Message |-> IF m \in batch THEN "running" ELSE status[m]]
    /\ UNCHANGED arrived

(* A turn of conversation k ends; in a serial one it is the only turn.      *)
Complete(k, i, j) ==
    LET batch == {arrived[k][x] : x \in i..j} IN
    /\ 1 <= i /\ i <= j /\ j <= Len(arrived[k])
    /\ \A m \in batch : status[m] = "running"
    /\ k \in SerialLane =>
          \A x \in 1..Len(arrived[k]) :
              status[arrived[k][x]] = "running" => x \in i..j
    /\ status' = [m \in Message |-> IF m \in batch THEN "done" ELSE status[m]]
    /\ UNCHANGED arrived

Next ==
    \/ \E m \in Message : Accept(m)
    \/ \E k \in Lane : \E i, j \in 1..Len(arrived[k]) :
          Start(k, i, j) \/ Complete(k, i, j)

Spec == Init /\ [][Next]_vars
=============================================================================
