---------------------------- MODULE ToolApproval ----------------------------
(***************************************************************************)
(* The approval of risky tool calls (host/approval.go): a tool server asks *)
(* the host over HTTP, the host asks the users on every channel and holds  *)
(* the request until one of them answers or the time is over.              *)
(*                                                                         *)
(* A prompt is sent to the telegram chats one after the other and pushed   *)
(* to the desktop and web clients connected then.  When the request is     *)
(* decided the prompts are taken back, the clients' first, and only then   *)
(* is the request forgotten: until that moment it can still be answered.   *)
(*                                                                         *)
(* The callers are the tool servers, which this module takes a step of     *)
(* when the host answers them and when they hear nothing.                  *)
(***************************************************************************)
EXTENDS Naturals, FiniteSets

CONSTANTS
    Request,    \* at most one question of each
    Telegram,   \* the chats of the allowed users
    Client,     \* desktop and web chat clients
    MaxAnswers, \* bound on the users' answers
    MaxFaults   \* bound on connections that come or go and on crashes of the host

VARIABLES
    caller,  \* the tool server's call
    host,    \* askApproval
    pending, \* approvals.pending
    answer,  \* approvalRequest.done, a channel with room for one answer
    verdict,
    prompt,  \* what each channel shows of a request
    online,  \* controlClients
    first,   \* history: the first answer to a request that was still pending
    answers, faults

hostVars == <<host, pending, answer, verdict, prompt, online>>
history == <<first, answers, faults>>
vars == <<caller, hostVars, history>>

Channel == Telegram \cup Client

Init ==
    /\ caller = [r \in Request |-> "idle"]
    /\ host = [r \in Request |-> "none"]
    /\ pending = {}
    /\ answer = [r \in Request |-> "none"]
    /\ verdict = [r \in Request |-> "none"]
    /\ prompt = [r \in Request |-> [c \in Channel |-> "none"]]
    /\ online = Client
    /\ first = [r \in Request |-> "none"]
    /\ answers = 0 /\ faults = 0

TypeOK ==
    /\ caller \in [Request -> {"idle", "asking", "running", "refused"}]
    /\ host \in [Request -> {"none", "sending", "waiting", "decided", "withdrawn",
                             "forgotten", "replied"}]
    /\ pending = {r \in Request :
                    host[r] \in {"sending", "waiting", "decided", "withdrawn"}}
    /\ answer \in [Request -> {"none", "ok", "no"}]
    /\ verdict \in [Request -> {"none", "ok", "no", "timeout", "unasked"}]
    /\ prompt \in [Request -> [Channel -> {"none", "failed", "shown", "gone", "left"}]]
    /\ online \subseteq Client
    /\ first \in [Request -> {"none", "ok", "no"}]
    /\ answers \in 0..MaxAnswers /\ faults \in 0..MaxFaults

-----------------------------------------------------------------------------
(* askApproval.                                                             *)

(* The POST arrives and the request is registered.                          *)
Ask(r) ==
    /\ caller[r] = "idle"
    /\ caller' = [caller EXCEPT ![r] = "asking"]
    /\ host' = [host EXCEPT ![r] = "sending"]
    /\ pending' = pending \cup {r}
    /\ UNCHANGED <<answer, verdict, prompt, online, history>>

SendTelegram(r, c) ==
    /\ host[r] = "sending" /\ prompt[r][c] = "none"
    /\ \E sent \in {"shown", "failed"} : prompt' = [prompt EXCEPT ![r][c] = sent]
    /\ UNCHANGED <<caller, host, pending, answer, verdict, online, history>>

(* The clients connected now get it.  If nobody was asked, nobody is waited *)
(* for.                                                                     *)
Broadcast(r) ==
    /\ host[r] = "sending" /\ \A c \in Telegram : prompt[r][c] # "none"
    /\ prompt' = [prompt EXCEPT ![r] =
                    [c \in Channel |-> IF c \in online THEN "shown" ELSE @[c]]]
    /\ IF \E c \in Channel : prompt'[r][c] = "shown"
       THEN host' = [host EXCEPT ![r] = "waiting"] /\ UNCHANGED verdict
       ELSE /\ host' = [host EXCEPT ![r] = "decided"]
            /\ verdict' = [verdict EXCEPT ![r] = "unasked"]
    /\ UNCHANGED <<caller, pending, answer, online, history>>

(* Faulty: a question without an answer stays open.                         *)
VerdictsOfAnswer(r) == {answer[r]} \ {"none"}

(* The select: an answer in the channel or, at any time, the timeout.       *)
Verdicts(r) == ({answer[r]} \ {"none"}) \cup {"timeout"}

Decide(r) ==
    /\ host[r] = "waiting"
    /\ \E v \in Verdicts(r) : verdict' = [verdict EXCEPT ![r] = v]
    /\ host' = [host EXCEPT ![r] = "decided"]
    /\ UNCHANGED <<caller, pending, answer, prompt, online, history>>

(* The deferred calls: approval_done to the clients connected now, ...      *)
Withdraw(r) ==
    /\ host[r] = "decided"
    /\ host' = [host EXCEPT ![r] = "withdrawn"]
    /\ prompt' = [prompt EXCEPT ![r] =
         [c \in Channel |-> CASE c \in online /\ @[c] = "shown" -> "gone"
                              [] c \in Client \ online /\ @[c] = "shown" -> "left"
                              [] OTHER -> @[c]]]
    /\ UNCHANGED <<caller, pending, answer, verdict, online, history>>

(* ... the edits of the telegram messages, whose errors are ignored, ...    *)
Edit(r, c) ==
    /\ host[r] = "withdrawn" /\ prompt[r][c] = "shown"
    /\ \E edited \in {"gone", "left"} : prompt' = [prompt EXCEPT ![r][c] = edited]
    /\ UNCHANGED <<caller, host, pending, answer, verdict, online, history>>

Edited(r) == \A c \in Telegram : prompt[r][c] # "shown"

(* Faulty: the entry stays.                                                 *)
NoneForgotten(r) == pending

Forgotten(r) == pending \ {r}

(* ... and the entry goes last.                                             *)
Forget(r) ==
    /\ host[r] = "withdrawn" /\ Edited(r)
    /\ host' = [host EXCEPT ![r] = "forgotten"]
    /\ pending' = Forgotten(r)
    /\ UNCHANGED <<caller, answer, verdict, prompt, online, history>>

(* handleApproveHTTP answers; the caller goes on only if it was approved.   *)
Reply(r) ==
    /\ host[r] = "forgotten"
    /\ host' = [host EXCEPT ![r] = "replied"]
    /\ caller' = [caller EXCEPT ![r] =
         IF @ # "asking" THEN @ ELSE IF verdict[r] = "ok" THEN "running" ELSE "refused"]
    /\ UNCHANGED <<pending, answer, verdict, prompt, online, history>>

(* The call has an error instead: its own timeout, a host that is gone, or  *)
(* the end of the tool server itself.  The host does not notice.            *)
Unheard(r) ==
    /\ caller[r] = "asking"
    /\ caller' = [caller EXCEPT ![r] = "refused"]
    /\ UNCHANGED <<hostVars, history>>

(* A call that needs no approval.                                           *)
Ungated(r) ==
    /\ caller[r] = "idle"
    /\ caller' = [caller EXCEPT ![r] = "running"]
    /\ UNCHANGED <<hostVars, history>>

-----------------------------------------------------------------------------
(* Answers.                                                                 *)

(* The channel takes one answer; a second one is dropped.                   *)
Kept(r, word) == IF answer[r] = "none" THEN word ELSE answer[r]

(* resolveApproval of a pending request.                                    *)
Resolve(r, word) ==
    /\ answers < MaxAnswers /\ answers' = answers + 1
    /\ answer' = [answer EXCEPT ![r] = Kept(r, word)]
    /\ first' = [first EXCEPT ![r] = IF @ = "none" THEN word ELSE @]
    /\ UNCHANGED <<caller, host, pending, verdict, prompt, online, faults>>

(* A button, a dialog, or "!ok <id>" of somebody who has seen the id.       *)
AnswerByID(r, word) ==
    /\ r \in pending
    /\ \E c \in Channel : prompt[r][c] \notin {"none", "failed"}
    /\ Resolve(r, word)

(* "!ok", with one request pending: that one.                               *)
AnswerBare(r, word) == pending = {r} /\ Resolve(r, word)

-----------------------------------------------------------------------------
Fault == faults < MaxFaults /\ faults' = faults + 1

(* A client connects or disconnects.  A dialog may be left open on one that *)
(* has lost its connection.                                                 *)
Reconnect(c) ==
    /\ Fault
    /\ online' = (online \cup {c}) \ (online \cap {c})
    /\ UNCHANGED <<caller, host, pending, answer, verdict, prompt, first, answers>>

Asked(r) == host[r] \notin {"none", "replied"}

(* The host starts anew and knows of nothing; what it was about to take     *)
(* back stays.                                                              *)
Restart ==
    /\ \E r \in Request : Asked(r)
    /\ Fault
    /\ pending' = {} /\ online' = {}
    /\ host' = [r \in Request |-> IF Asked(r) THEN "replied" ELSE host[r]]
    /\ prompt' = [r \in Request |-> [c \in Channel |->
                    IF Asked(r) /\ prompt[r][c] = "shown" THEN "left" ELSE prompt[r][c]]]
    /\ UNCHANGED <<caller, answer, verdict, first, answers>>

-----------------------------------------------------------------------------
(* Steps of the host's goroutine for r, but for the last.                   *)
HostStep(r) ==
    \/ \E c \in Telegram : SendTelegram(r, c) \/ Edit(r, c)
    \/ Broadcast(r) \/ Decide(r) \/ Withdraw(r) \/ Forget(r)

UserStep ==
    \E r \in Request, word \in {"ok", "no"} : AnswerByID(r, word) \/ AnswerBare(r, word)

Environment ==
    \/ UserStep \/ Restart
    \/ \E c \in Client : Reconnect(c)

-----------------------------------------------------------------------------
(* A prompt is taken back, or the attempt failed, before its request is     *)
(* forgotten and the tool goes on: an old button finds a live request, or   *)
(* no button does.                                                          *)
NoStaleButtons ==
    \A r \in Request, c \in Channel : prompt[r][c] = "shown" => r \in pending
=============================================================================
