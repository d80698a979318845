------------------------------- MODULE Sessions -------------------------------
(***************************************************************************)
(* The part of `session kill` both engines share: src/dbtalk/database/     *)
(* sessions.py and the loop of kill_sessions, which is the same in         *)
(* mysql/session.py and postgres/session.py, running against a database    *)
(* server whose sessions come and go while the command works.              *)
(*                                                                         *)
(* The server is external: each statement of the command is one step, and  *)
(* other clients act between any two of them.  The engine modules extend   *)
(* this one with the statements that differ (recheck, kill, reread).       *)
(***************************************************************************)
EXTENDS Naturals

CONSTANTS
  Ids,            \* session numbers a server hands out (pid, PROCESSLIST_ID)
  OwnId,          \* the number of the command's own management session
  Databases,
  TargetDb,       \* the database of `--database` or of the DSN
  Users,
  NoSession,      \* "no row with this number"
  NoId,           \* `--id` was not given
  Hidden,         \* SQL NULL where the identity is not visible
  Waits,          \* values of `--wait` in clock ticks, 0 when it is not given
  PollInterval,   \* session.poll_interval_seconds in clock ticks
  MaxToken,       \* bound: sessions started while the command runs
  MaxNow          \* bound: clock ticks of the exit confirmation

ASSUME IdsAssumption == Ids \subseteq Nat /\ OwnId \in Ids /\ NoId \notin Ids
ASSUME TargetDbAssumption == TargetDb \in Databases
ASSUME ClockAssumption == /\ Waits \subseteq Nat
                          /\ PollInterval \in Nat \ {0}
                          /\ MaxToken \in Nat
                          /\ MaxNow \in Nat

\* A server session.  `token` tells apart two sessions that had the same
\* number (backend_start, THREAD_ID); `client` is "an ordinary client".
Tokens == Nat
Session == [token : Tokens, db : Databases, user : Users, client : BOOLEAN]

\* The columns the command reads of a session: NULLs where it may not look.
View == [token : Tokens \cup {Hidden}, db : Databases,
         user : Users \cup {Hidden}, client : BOOLEAN]

ASSUME SentinelAssumption ==
  /\ NoSession \notin Session \cup View
  /\ Hidden \notin Tokens \cup Users
  /\ NoSession \notin Tokens \cup {Hidden}

Statuses == {"requested", "terminated", "gone", "changed",
             "failed", "timeout", "not_attempted"}
Success == {"requested", "terminated", "gone"}

VARIABLES
  (* the server *)
  live,           \* [Ids -> Session or NoSession]
  lastToken,      \* the last token handed out
  conn,           \* the management connection: "up" or "lost"
  (* the command *)
  request,        \* its options: id and wait
  pc,
  snapshot,       \* targets: the rows selected, as read
  todo,           \* targets of the loop not reached yet
  cur,            \* the target of _kill_one
  healthy,
  results,        \* status of each target, "none" until it has one
  pending,        \* identities whose exit is still to be confirmed
  answer,         \* the reply of a confirmation query, on its way
  now,            \* ticks since the confirmation started
  (* history *)
  origin,         \* the token of the session each target was read from
  sent,           \* requests delivered for each target
  hits            \* <<number, token>> of every session that was terminated

server == <<live, lastToken>>
history == <<origin, sent, hits>>
loop == <<snapshot, todo, cur, healthy>>
clock == <<answer, now>>
command == <<request, pc, loop, results, pending, clock, history>>

Targets == {i \in Ids : snapshot[i] # NoSession}

\* The session a target was read from is no longer on the server.
Exited(i) == live[i] = NoSession \/ live[i].token # origin[i]

Min(a, b) == IF a <= b THEN a ELSE b

-------------------------------------------------------------------------------
(* The server's other clients.                                             *)

ServerInit ==
  /\ live \in [Ids -> [token : {0}, db : Databases, user : Users,
                       client : BOOLEAN] \cup {NoSession}]
  /\ live[OwnId] # NoSession
  /\ live[OwnId].db = TargetDb /\ live[OwnId].client
  /\ lastToken = 0
  /\ conn = "up"

\* A client disconnects, is terminated, or crashes.
SessionExits(i) ==
  /\ i # OwnId
  /\ live[i] # NoSession
  /\ live' = [live EXCEPT ![i] = NoSession]
  /\ UNCHANGED <<lastToken, conn, command>>

\* A new client; the server may give it a number that was used before.
SessionStarts(i) ==
  /\ live[i] = NoSession
  /\ lastToken < MaxToken
  /\ \E d \in Databases, u \in Users, c \in BOOLEAN :
       live' = [live EXCEPT ![i] = [token |-> lastToken + 1, db |-> d,
                                    user |-> u, client |-> c]]
  /\ lastToken' = lastToken + 1
  /\ UNCHANGED <<conn, command>>

ConnectionDrops ==
  /\ conn = "up"
  /\ conn' = "lost"
  /\ UNCHANGED <<server, command>>

OtherClients ==
  \/ \E i \in Ids : SessionExits(i) \/ SessionStarts(i)
  \/ ConnectionDrops

-------------------------------------------------------------------------------
(* The command, before and inside the loop over the targets.               *)

CommandInit ==
  /\ request \in [id : Ids \cup {NoId}, wait : Waits]
  /\ pc = "select"
  /\ snapshot = [i \in Ids |-> NoSession]
  /\ todo = {}
  /\ cur = OwnId
  /\ healthy = TRUE
  /\ results = [i \in Ids |-> "none"]
  /\ pending = {}
  /\ answer = [i \in Ids |-> NoSession]
  /\ now = 0
  /\ origin = [i \in Ids |-> 0]
  /\ sent = [i \in Ids |-> 0]
  /\ hits = {}

\* _CLIENT_WHERE with the optional "AND id = :id", over the rows as seen.
Selectable(seen) ==
  {i \in Ids : /\ seen[i] # NoSession
               /\ seen[i].db = TargetDb
               /\ seen[i].client
               /\ i # OwnId
               /\ request.id \in {NoId, i}}

\* The target query succeeds; an explicit --id that matches nothing, or the
\* command's own session, ends the command with an error and no report.
SelectTargets(seen) ==
  /\ pc = "select"
  /\ conn = "up"
  /\ request.id # OwnId
  /\ LET chosen == Selectable(seen) IN
       /\ request.id # NoId => chosen # {}
       /\ snapshot' = [i \in Ids |-> IF i \in chosen THEN seen[i] ELSE NoSession]
       /\ origin' = [i \in Ids |-> IF i \in chosen THEN live[i].token ELSE 0]
       /\ todo' = chosen
  /\ pc' = "next"
  /\ UNCHANGED <<server, conn, request, cur, healthy, results, pending, clock,
                 sent, hits>>

SelectRefused(seen) ==
  /\ pc = "select"
  /\ \/ request.id = OwnId
     \/ request.id # NoId /\ Selectable(seen) = {}
  /\ pc' = "error"
  /\ UNCHANGED <<server, conn, request, loop, results, pending, clock, history>>

\* A statement before the loop raises: session_connection reports the error.
SelectFails ==
  /\ pc = "select"
  /\ pc' = "error"
  /\ UNCHANGED <<server, conn, request, loop, results, pending, clock, history>>

\* for target in targets, in the order of their numbers.
NextTarget ==
  /\ pc = "next"
  /\ healthy
  /\ \E i \in todo :
       /\ \A j \in todo : i <= j
       /\ cur' = i
       /\ todo' = todo \ {i}
  /\ pc' = "recheck"
  /\ UNCHANGED <<server, conn, request, snapshot, healthy, results, pending,
                 clock, history>>

\* Faulty variant: break instead of a result for each target left.
SkipTargetSilently ==
  /\ pc = "next"
  /\ ~healthy
  /\ todo # {}
  /\ todo' = {}
  /\ UNCHANGED <<server, conn, request, pc, snapshot, cur, healthy, results,
                 pending, clock, history>>

\* A lost connection stops the loop from sending anything more.
SkipTarget ==
  /\ pc = "next"
  /\ ~healthy
  /\ \E i \in todo :
       /\ \A j \in todo : i <= j
       /\ results' = [results EXCEPT ![i] = "not_attempted"]
       /\ todo' = todo \ {i}
  /\ UNCHANGED <<server, conn, request, pc, snapshot, cur, healthy, pending,
                 clock, history>>

\* results.append(result), and identities[...] when it was requested.
Record(status) ==
  /\ results' = [results EXCEPT ![cur] = status]
  /\ pending' = IF status = "requested" /\ snapshot[cur].token # Hidden
                  THEN pending \cup {cur} ELSE pending
  /\ pc' = "next"

\* Faulty variant: a failed target is tried again while the link is up.
RecordFailureRetrying ==
  /\ results' = IF conn = "up" THEN results ELSE [results EXCEPT ![cur] = "failed"]
  /\ healthy' = (conn = "up")
  /\ pc' = IF conn = "up" THEN "recheck" ELSE "next"
  /\ UNCHANGED <<server, conn, request, snapshot, todo, cur, pending, clock>>

\* A statement of _kill_one raises; healthy tells whether it was the link.
RecordFailure ==
  /\ results' = [results EXCEPT ![cur] = "failed"]
  /\ healthy' = (conn = "up")
  /\ pc' = "next"
  /\ UNCHANGED <<server, conn, request, snapshot, todo, cur, pending, clock>>

\* After the loop: wait for exits, give up on them, or finish.
EndBatch ==
  /\ pc = "next"
  /\ todo = {}
  /\ IF request.wait > 0 /\ pending # {} /\ healthy
       THEN pc' = "poll" /\ UNCHANGED <<results, pending>>
       ELSE /\ pc' = "done"
            /\ results' = [i \in Ids |->
                 IF request.wait > 0 /\ pending # {} /\ results[i] = "requested"
                   THEN "failed" ELSE results[i]]
            /\ pending' = {}
  /\ UNCHANGED <<server, conn, request, loop, clock, history>>

-------------------------------------------------------------------------------
(* wait_for_sessions: one budget for the whole batch.                      *)

Deadline == request.wait

PollAgain ==
  /\ pc = "poll"
  /\ pending # {}
  /\ now < Deadline
  /\ pc' = "refresh"
  /\ UNCHANGED <<server, conn, request, loop, results, pending, clock, history>>

\* Faulty variant: what is still pending counts as terminated.
WaitOverOptimistic ==
  /\ pc = "poll"
  /\ pending = {} \/ now >= Deadline
  /\ results' = [i \in Ids |-> IF i \in pending THEN "terminated" ELSE results[i]]
  /\ pending' = {}
  /\ pc' = "done"
  /\ UNCHANGED <<server, conn, request, loop, clock, history>>

\* Faulty variant: what is still pending keeps its status.
WaitOverUnsettled ==
  /\ pc = "poll"
  /\ pending = {} \/ now >= Deadline
  /\ pending' = {}
  /\ pc' = "done"
  /\ UNCHANGED <<server, conn, request, loop, results, clock, history>>

\* The loop is over: every identity still pending has timed out.
WaitOver ==
  /\ pc = "poll"
  /\ pending = {} \/ now >= Deadline
  /\ results' = [i \in Ids |-> IF i \in pending THEN "timeout" ELSE results[i]]
  /\ pending' = {}
  /\ pc' = "done"
  /\ UNCHANGED <<server, conn, request, loop, clock, history>>

\* The server evaluates _identities; its reply may be long on its way.
ServerAnswers(tokens) ==
  /\ pc = "refresh"
  /\ conn = "up"
  /\ answer' = tokens
  /\ pc' = "answer"
  /\ UNCHANGED <<server, conn, request, loop, results, pending, now, history>>

\* refresh raises: a timeout if the budget is spent by then, else a failure.
RefreshFails ==
  /\ pc \in {"refresh", "answer"}
  /\ results' = [i \in Ids |-> IF i \notin pending THEN results[i]
                               ELSE IF now >= Deadline THEN "timeout" ELSE "failed"]
  /\ pending' = {}
  /\ pc' = "done"
  /\ UNCHANGED <<server, conn, request, loop, clock, history>>

\* The reply arrives after the deadline: it is not looked at.
AnswerTooLate ==
  /\ pc = "answer"
  /\ now >= Deadline
  /\ results' = [i \in Ids |-> IF i \in pending THEN "timeout" ELSE results[i]]
  /\ pending' = {}
  /\ pc' = "done"
  /\ UNCHANGED <<server, conn, request, loop, clock, history>>

\* Faulty variant: an identity that is not visible counts as another one.
VerdictOnNull(i) ==
  IF answer[i] # snapshot[i].token THEN "terminated" ELSE "requested"

\* The verdict on a pending identity, given the token its number has now.
Verdict(i) ==
  IF answer[i] = Hidden THEN "failed"
  ELSE IF answer[i] # snapshot[i].token THEN "terminated"
  ELSE "requested"

\* Faulty variant: each refresh has a budget of its own.
AnswerInTimeRestarting ==
  /\ pc = "answer"
  /\ now < Deadline
  /\ results' = [i \in Ids |-> IF i \in pending THEN Verdict(i) ELSE results[i]]
  /\ pending' = {i \in pending : Verdict(i) = "requested"}
  /\ now' = 0
  /\ pc' = "poll"
  /\ UNCHANGED <<server, conn, request, loop, answer, history>>

\* The reply arrives in time: settle what it settles, then sleep.
AnswerInTime ==
  /\ pc = "answer"
  /\ now < Deadline
  /\ results' = [i \in Ids |-> IF i \in pending THEN Verdict(i) ELSE results[i]]
  /\ pending' = {i \in pending : Verdict(i) = "requested"}
  /\ now' = IF pending' = {} THEN now
                             ELSE now + Min(PollInterval, Deadline - now)
  /\ pc' = "poll"
  /\ UNCHANGED <<server, conn, request, loop, answer, history>>

Tick ==
  /\ pc \in {"poll", "refresh", "answer"}
  /\ now < MaxNow
  /\ now' = now + 1
  /\ UNCHANGED <<server, conn, request, pc, loop, results, pending, answer,
                 history>>

-------------------------------------------------------------------------------
(* Steps of the command that both engines have, for a view of the rows.    *)

SharedSteps(seen, tokens) ==
  \/ SelectTargets(seen) \/ SelectRefused(seen) \/ SelectFails
  \/ NextTarget \/ SkipTarget \/ EndBatch
  \/ PollAgain \/ WaitOver
  \/ ServerAnswers(tokens) \/ RefreshFails
  \/ AnswerTooLate \/ AnswerInTime

\* SessionKillReport.successful
Successful == \A i \in Targets : results[i] \in Success
Finished == pc \in {"done", "error"}

-------------------------------------------------------------------------------
(* What both engines' commands promise.                                    *)

BaseTypeOK ==
  /\ live \in [Ids -> Session \cup {NoSession}]
  /\ lastToken \in Nat
  /\ conn \in {"up", "lost"}
  /\ request \in [id : Ids \cup {NoId}, wait : Waits]
  /\ pc \in {"select", "next", "recheck", "terminate", "reread",
             "poll", "refresh", "answer", "done", "error"}
  /\ snapshot \in [Ids -> View \cup {NoSession}]
  /\ todo \subseteq Ids
  /\ cur \in Ids
  /\ healthy \in BOOLEAN
  /\ results \in [Ids -> Statuses \cup {"none"}]
  /\ pending \subseteq Ids
  /\ answer \in [Ids -> Tokens \cup {Hidden, NoSession}]
  /\ now \in Nat
  /\ origin \in [Ids -> Tokens]
  /\ sent \in [Ids -> Nat]
  /\ hits \subseteq (Ids \X Tokens)

(* A verdict that claims an exit is true even if the number is in use      *)
(* again: `gone` of _kill_one and `terminated` of wait_for_sessions.       *)
ConfirmedExit ==
  \A i \in Ids : results[i] \in {"gone", "terminated"} => Exited(i)

(* A `--wait` run that reports success leaves none of its targets on the   *)
(* server: SessionKillReport.successful after wait_for_sessions.           *)
SuccessMeansGone ==
  (pc = "done" /\ request.wait > 0 /\ Successful) => \A i \in Targets : Exited(i)

(* The report tells what was sent: a verdict that denies a request means   *)
(* none was delivered, one that claims it means exactly one was; and no    *)
(* failure is ever answered by a second request.                           *)
HonestReport ==
  \A i \in Ids :
    /\ results[i] \in {"none", "gone", "changed", "not_attempted"} => sent[i] = 0
    /\ results[i] \in {"requested", "terminated", "timeout"} => sent[i] = 1
    /\ sent[i] <= 1

(* The final report has one verdict for each session selected and none for *)
(* others, whichever statement failed on the way.                          *)
ReportComplete ==
  pc = "done" => Targets = {i \in Ids : results[i] # "none"}

(* The command ends, however sessions come and go and whatever fails: the  *)
(* wait has one budget, not one for each refresh.                          *)
Terminates == <>Finished

(* The command implements the contract of KillContract.                    *)
Contract == INSTANCE KillContract WITH
  target <- Targets,
  selected <- pc # "select",
  left <- {i \in Targets : Exited(i)},
  asked <- {i \in Ids : sent[i] > 0},
  verdict <- results

ImplementsContract == Contract!Spec
===============================================================================
