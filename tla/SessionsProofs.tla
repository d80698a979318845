---------------------------- MODULE SessionsProofs ----------------------------
(***************************************************************************)
(* The inductive invariant of `session kill` and its preservation by the   *)
(* steps both engines share.  PostgresSessionProofs and MysqlSessionProofs *)
(* add the statements of their engine.                                     *)
(***************************************************************************)
EXTENDS Sessions, TLAPS

Active == {"recheck", "terminate", "reread"}

\* Before the target query the command has done nothing.
Idle ==
  pc = "select" =>
    /\ Targets = {} /\ todo = {} /\ pending = {} /\ hits = {}
    /\ \A i \in Ids : results[i] = "none" /\ sent[i] = 0

\* Which targets have a verdict already.
Progress ==
  /\ todo \subseteq Targets
  /\ pc \in Active => cur \in Targets \ todo /\ results[cur] = "none" /\ healthy
  /\ pc \in {"poll", "refresh", "answer", "done"} => todo = {}
  /\ \A i \in todo : results[i] = "none"
  /\ \A i \in Ids : results[i] # "none" => i \in Targets
  /\ \A i \in Targets :
       results[i] = "none" => i \in todo \/ (pc \in Active /\ i = cur)

\* Which targets are waited for, and what an answer on its way means.
Waiting ==
  /\ \A i \in pending : results[i] = "requested" /\ snapshot[i].token = origin[i]
  /\ pc # "done" => \A i \in Ids : results[i] = "requested" => i \in pending
  /\ (pc = "done" /\ request.wait > 0) => \A i \in Ids : results[i] # "requested"
  /\ pc = "answer" =>
       \A i \in pending : answer[i] \notin {Hidden, origin[i]} => Exited(i)

\* A token is never handed out twice, and a target keeps the one it was read with.
Identity ==
  /\ \A i \in Ids : live[i] # NoSession => live[i].token <= lastToken
  /\ \A i \in Ids : origin[i] <= lastToken
  /\ \A i \in Targets : i # OwnId /\ snapshot[i].token \in {Hidden, origin[i]}

IInv ==
  /\ BaseTypeOK
  /\ Idle
  /\ Progress
  /\ Waiting
  /\ Identity
  /\ ConfirmedExit
  /\ HonestReport

-------------------------------------------------------------------------------
USE IdsAssumption, TargetDbAssumption, ClockAssumption, SentinelAssumption

(* The invariant implies that a successful waiting run leaves no target.   *)
LEMMA GoneLemma == IInv => SuccessMeansGone
<1> SUFFICES ASSUME IInv, pc = "done", request.wait > 0, Successful,
                    NEW i \in Targets
             PROVE  Exited(i)
  BY DEF SuccessMeansGone
<1>1. results[i] \in {"terminated", "gone"}
  BY DEF IInv, Waiting, Successful, Success, Targets
<1> QED
  BY <1>1 DEF IInv, ConfirmedExit, Targets

(* The invariant implies that the report covers exactly the targets.       *)
LEMMA CompleteLemma == IInv => ReportComplete
<1> SUFFICES ASSUME IInv, pc = "done"
             PROVE  Targets = {i \in Ids : results[i] # "none"}
  BY DEF ReportComplete
<1> QED
  BY DEF IInv, Progress, Active, Targets

(* A foreign session that leaves or starts disturbs nothing: its token is  *)
(* new, so no target comes back.                                           *)
LEMMA ExitsStep ==
  ASSUME IInv, NEW i \in Ids, SessionExits(i)
  PROVE  IInv'
<1> USE DEF SessionExits, command, loop, clock, history
<1>1. BaseTypeOK'
  BY DEF IInv, BaseTypeOK
<1>2. Targets' = Targets
  BY DEF Targets
<1>3. \A j \in Ids : Exited(j) => Exited(j)'
  BY DEF Exited, IInv, BaseTypeOK
<1>4. Idle' /\ Progress'
  BY <1>2 DEF IInv, Idle, Progress, Active
<1>5. Waiting' /\ ConfirmedExit' /\ HonestReport'
  BY <1>3 DEF IInv, BaseTypeOK, Waiting, ConfirmedExit, HonestReport
<1>6. Identity'
  BY <1>2 DEF IInv, Identity, BaseTypeOK
<1> QED
  BY <1>1, <1>4, <1>5, <1>6 DEF IInv

(* A session that starts gets a token no target was read with.             *)
LEMMA StartsStep ==
  ASSUME IInv, NEW i \in Ids, SessionStarts(i)
  PROVE  IInv'
<1> USE DEF SessionStarts, command, loop, clock, history
<1>1. PICK d \in Databases, u \in Users, c \in BOOLEAN :
        live' = [live EXCEPT ![i] = [token |-> lastToken + 1, db |-> d,
                                     user |-> u, client |-> c]]
  OBVIOUS
<1>2. BaseTypeOK'
  BY <1>1 DEF IInv, BaseTypeOK, Session, Tokens
<1>3. Targets' = Targets
  BY DEF Targets
<1>4. \A j \in Ids : Exited(j) => Exited(j)'
  BY <1>1 DEF Exited, IInv, BaseTypeOK, Identity, Tokens
<1>5. Idle' /\ Progress'
  BY <1>3 DEF IInv, Idle, Progress, Active
<1>6. Waiting' /\ ConfirmedExit' /\ HonestReport'
  BY <1>4 DEF IInv, BaseTypeOK, Waiting, ConfirmedExit, HonestReport
<1>7. Identity'
  BY <1>1, <1>3 DEF IInv, Identity, BaseTypeOK, Session, Tokens
<1> QED
  BY <1>2, <1>5, <1>6, <1>7 DEF IInv

(* A dropped link disturbs no verdict: the command has yet to notice it.   *)
LEMMA DropsStep ==
  ASSUME IInv, ConnectionDrops
  PROVE  IInv'
BY DEF IInv, BaseTypeOK, Idle, Progress, Active, Waiting, Identity, ConfirmedExit,
       HonestReport, Targets, Exited, ConnectionDrops, server, command, loop,
       clock, history

(* Time passing changes no verdict.                                        *)
LEMMA TickStep ==
  ASSUME IInv, Tick
  PROVE  IInv'
BY DEF IInv, BaseTypeOK, Idle, Progress, Active, Waiting, Identity, ConfirmedExit,
       HonestReport, Targets, Exited, Tick, server, loop, clock, history

-------------------------------------------------------------------------------
(* The steps of the command.  `Rows` says what a view may show: the rows    *)
(* of the server, with some tokens hidden.                                 *)
Rows(seen) ==
  /\ seen \in [Ids -> View \cup {NoSession}]
  /\ \A i \in Ids : seen[i] # NoSession =>
       live[i] # NoSession /\ seen[i].token \in {Hidden, live[i].token}

TokensOf(tokens) ==
  /\ tokens \in [Ids -> Tokens \cup {Hidden, NoSession}]
  /\ \A i \in Ids : tokens[i] # Hidden =>
       tokens[i] = IF live[i] = NoSession THEN NoSession ELSE live[i].token

(* The target query records the tokens of the rows it returns.             *)
LEMMA SelectTargetsStep ==
  \A seen : IInv /\ Rows(seen) /\ SelectTargets(seen) => IInv'
<1> SUFFICES ASSUME NEW seen, IInv, Rows(seen), SelectTargets(seen)
             PROVE  IInv'
  OBVIOUS
<1> DEFINE chosen == Selectable(seen)
<1>1. /\ snapshot' = [i \in Ids |-> IF i \in chosen THEN seen[i] ELSE NoSession]
      /\ origin' = [i \in Ids |-> IF i \in chosen THEN live[i].token ELSE 0]
      /\ todo' = chosen
      /\ pc = "select" /\ pc' = "next"
      /\ UNCHANGED <<live, lastToken, conn, request, cur, healthy, results,
                     pending, answer, now, sent, hits>>
  BY DEF SelectTargets, server, clock
<1>2. chosen \subseteq Ids /\ \A i \in chosen : seen[i] # NoSession /\ i # OwnId
  BY DEF Selectable
<1> HIDE DEF chosen
<1>3. Targets' = chosen
  BY <1>1, <1>2 DEF Targets
<1>4. BaseTypeOK'
  BY <1>1, <1>2 DEF IInv, BaseTypeOK, Rows, Session, Tokens
<1>5. Idle' /\ Progress'
  BY <1>1, <1>2, <1>3 DEF IInv, Idle, Progress, Active
<1>6. Waiting' /\ ConfirmedExit' /\ HonestReport'
  BY <1>1 DEF IInv, Idle, Waiting, ConfirmedExit, HonestReport
<1>7. Identity'
  BY <1>1, <1>2, <1>3 DEF IInv, BaseTypeOK, Identity, Rows, Session, Tokens
<1> QED
  BY <1>4, <1>5, <1>6, <1>7 DEF IInv

(* A command that ends before its loop has sent and reported nothing.      *)
LEMMA RefusedStep ==
  \A seen : IInv /\ (SelectRefused(seen) \/ SelectFails) => IInv'
<1> SUFFICES ASSUME NEW seen, IInv, SelectRefused(seen) \/ SelectFails
             PROVE  IInv'
  OBVIOUS
<1>1. /\ pc = "select" /\ pc' = "error"
      /\ UNCHANGED <<live, lastToken, conn, request, snapshot, todo, cur, healthy,
                     results, pending, answer, now, origin, sent, hits>>
  BY DEF SelectRefused, SelectFails, server, loop, clock, history
<1>2. Targets' = Targets
  BY <1>1 DEF Targets
<1> QED
  BY <1>1, <1>2 DEF IInv, BaseTypeOK, Idle, Progress, Active, Waiting, Identity,
                    ConfirmedExit, HonestReport, Exited

(* The loop goes on to a target that has no verdict yet.                   *)
LEMMA NextTargetStep ==
  ASSUME IInv, NextTarget
  PROVE  IInv'
<1> USE DEF server, clock, history
<1>1. PICK i \in todo : cur' = i /\ todo' = todo \ {i}
  BY DEF NextTarget
<1>2. Targets' = Targets
  BY DEF NextTarget, Targets
<1>3. BaseTypeOK'
  BY <1>1 DEF IInv, BaseTypeOK, NextTarget
<1>4. Idle' /\ Progress'
  BY <1>1, <1>2 DEF IInv, Idle, Progress, Active, NextTarget
<1>5. Waiting' /\ Identity' /\ ConfirmedExit' /\ HonestReport'
  BY <1>2 DEF IInv, Waiting, Identity, ConfirmedExit, HonestReport, Exited, NextTarget
<1> QED
  BY <1>3, <1>4, <1>5 DEF IInv

(* `not_attempted` is given only to targets nothing was sent for.          *)
LEMMA SkipTargetStep ==
  ASSUME IInv, SkipTarget
  PROVE  IInv'
BY DEF IInv, BaseTypeOK, Statuses, Idle, Progress, Active, Waiting, Identity,
       ConfirmedExit, HonestReport, Targets, Exited, SkipTarget, server, clock,
       history

(* Settling requests after a lost link claims no exit.                     *)
LEMMA EndBatchStep ==
  ASSUME IInv, EndBatch
  PROVE  IInv'
<1>1. /\ pc = "next" /\ todo = {}
      /\ UNCHANGED <<live, lastToken, conn, request, snapshot, todo, cur, healthy,
                     answer, now, origin, sent, hits>>
  BY DEF EndBatch, server, loop, clock, history
<1>2. Targets' = Targets
  BY <1>1 DEF Targets
<1>3. CASE pc' = "poll" /\ UNCHANGED <<results, pending>>
  BY <1>1, <1>2, <1>3 DEF IInv, BaseTypeOK, Idle, Progress, Active, Waiting,
                          Identity, ConfirmedExit, HonestReport, Exited
<1>4. CASE /\ pc' = "done" /\ pending' = {}
           /\ results' = [i \in Ids |->
                IF request.wait > 0 /\ pending # {} /\ results[i] = "requested"
                  THEN "failed" ELSE results[i]]
  <2>1. BaseTypeOK'
    BY <1>1, <1>4 DEF IInv, BaseTypeOK, Statuses
  <2>2. \A i \in Ids : /\ results'[i] \in {results[i], "failed"}
                       /\ results[i] = "none" => results'[i] = "none"
                       /\ (request.wait > 0 /\ results[i] = "requested")
                             => results'[i] = "failed"
    BY <1>1, <1>4 DEF IInv, Waiting
  <2>3. Idle' /\ Progress'
    BY <1>1, <1>2, <1>4, <2>2 DEF IInv, BaseTypeOK, Idle, Progress, Active, Targets
  <2>4. Waiting' /\ Identity'
    BY <1>1, <1>2, <1>4, <2>2 DEF IInv, Waiting, Identity
  <2>5. ConfirmedExit' /\ HonestReport'
    BY <1>1, <1>4, <2>2 DEF IInv, ConfirmedExit, HonestReport, Exited
  <2> QED
    BY <2>1, <2>3, <2>4, <2>5 DEF IInv
<1> QED
  BY <1>3, <1>4 DEF EndBatch

(* Each round of the wait starts with what is pending unchanged.           *)
LEMMA PollAgainStep ==
  ASSUME IInv, PollAgain
  PROVE  IInv'
BY DEF IInv, BaseTypeOK, Idle, Progress, Active, Waiting, Identity, ConfirmedExit,
       HonestReport, Targets, Exited, PollAgain, server, loop, clock, history

(* The three ways the wait ends at once give every pending target the same *)
(* kind of verdict, one that claims no exit.                               *)
LEMMA GiveUpStep ==
  ASSUME IInv, WaitOver \/ RefreshFails \/ AnswerTooLate
  PROVE  IInv'
<1> USE DEF server, loop, clock, history, WaitOver, RefreshFails, AnswerTooLate
<1>1. /\ pc \in {"poll", "refresh", "answer"} /\ pc' = "done" /\ pending' = {}
      /\ \A i \in Ids : IF i \in pending THEN results'[i] \in {"timeout", "failed"}
                                       ELSE results'[i] = results[i]
      /\ results' \in [Ids -> Statuses \cup {"none"}]
      /\ UNCHANGED <<live, lastToken, conn, request, snapshot, todo, cur, healthy,
                     answer, now, origin, sent, hits>>
  BY DEF IInv, BaseTypeOK, Statuses
<1> HIDE DEF WaitOver, RefreshFails, AnswerTooLate
<1>2. Targets' = Targets
  BY <1>1 DEF Targets
<1>3. BaseTypeOK'
  BY <1>1 DEF IInv, BaseTypeOK
<1>4. Idle' /\ Progress'
  BY <1>1, <1>2 DEF IInv, BaseTypeOK, Idle, Progress, Waiting, Active, Targets
<1>5. Waiting' /\ Identity'
  BY <1>1, <1>2 DEF IInv, BaseTypeOK, Waiting, Identity
<1>6. ConfirmedExit' /\ HonestReport'
  BY <1>1 DEF IInv, BaseTypeOK, Waiting, ConfirmedExit, HonestReport, Exited
<1> QED
  BY <1>3, <1>4, <1>5, <1>6 DEF IInv

(* An answer is true of the server when it is given, and stays usable:     *)
(* a session that was gone then cannot return.                             *)
LEMMA ServerAnswersStep ==
  \A tokens : IInv /\ TokensOf(tokens) /\ ServerAnswers(tokens) => IInv'
<1> SUFFICES ASSUME NEW tokens, IInv, TokensOf(tokens), ServerAnswers(tokens)
             PROVE  IInv'
  OBVIOUS
<1> USE DEF server, loop, history, ServerAnswers
<1>1. Targets' = Targets
  BY DEF Targets
<1>2. BaseTypeOK'
  BY DEF IInv, BaseTypeOK, TokensOf
<1>3. Idle' /\ Progress'
  BY <1>1 DEF IInv, Idle, Progress, Active
<1>4. Waiting'
  BY DEF IInv, BaseTypeOK, Waiting, TokensOf, Exited
<1>5. Identity' /\ ConfirmedExit' /\ HonestReport'
  BY <1>1 DEF IInv, Identity, ConfirmedExit, HonestReport, Exited
<1> QED
  BY <1>2, <1>3, <1>4, <1>5 DEF IInv

(* Only here is a wait settled: a number seen with another token, or not   *)
(* at all, is a target that has exited.                                    *)
LEMMA AnswerInTimeStep ==
  ASSUME IInv, AnswerInTime
  PROVE  IInv'
<1> USE DEF server, loop, history
<1>1. Targets' = Targets
  BY DEF AnswerInTime, Targets
<1>2. \A i \in Ids :
        results'[i] \in IF i \in pending THEN {"failed", "terminated", "requested"}
                                        ELSE {results[i]}
  BY DEF AnswerInTime, Verdict
<1>3. now' \in Nat
  <2>1. now \in Nat /\ Deadline \in Nat /\ PollInterval \in Nat
    BY DEF IInv, BaseTypeOK, Deadline
  <2>2. Min(PollInterval, Deadline - now) \in Nat
    BY <2>1 DEF Min, AnswerInTime
  <2> QED
    BY <2>1, <2>2 DEF AnswerInTime
<1>4. BaseTypeOK'
  <2>1. results' \in [Ids -> Statuses \cup {"none"}]
    BY <1>2 DEF IInv, BaseTypeOK, AnswerInTime, Statuses
  <2> QED
    BY <1>3, <2>1 DEF IInv, BaseTypeOK, AnswerInTime
<1>5. Idle' /\ Progress'
  <2>1. \A i \in Ids : results'[i] = "none" <=> results[i] = "none"
    BY <1>2 DEF IInv, Waiting
  <2> QED
    BY <1>1, <2>1 DEF IInv, BaseTypeOK, Idle, Progress, Active, Targets, AnswerInTime
<1>6. Waiting'
  BY DEF IInv, BaseTypeOK, Waiting, AnswerInTime, Verdict
<1>7. ConfirmedExit'
  <2>1. \A i \in pending : Verdict(i) = "terminated" => Exited(i)
    BY DEF IInv, Waiting, AnswerInTime, Verdict
  <2> QED
    BY <2>1 DEF IInv, BaseTypeOK, ConfirmedExit, AnswerInTime, Verdict, Exited
<1>8. HonestReport'
  BY DEF IInv, BaseTypeOK, Waiting, HonestReport, AnswerInTime, Verdict
<1>9. Identity'
  BY <1>1 DEF IInv, Identity, AnswerInTime
<1> QED
  BY <1>4, <1>5, <1>6, <1>7, <1>8, <1>9 DEF IInv

-------------------------------------------------------------------------------
(* What the target of a running statement is known to be.                  *)
LEMMA CurLemma ==
  ASSUME IInv, pc \in Active
  PROVE  /\ cur \in Targets /\ cur \notin todo /\ cur \notin pending /\ cur \in Ids
         /\ cur # OwnId
         /\ results[cur] = "none" /\ sent[cur] = 0
         /\ snapshot[cur].token \in {Hidden, origin[cur]}
BY DEF IInv, BaseTypeOK, Progress, Waiting, Identity, HonestReport, Active

(* A verdict given without a request.                                      *)
LEMMA QuietVerdict ==
  \A status \in {"gone", "changed", "failed"} :
    /\ IInv /\ pc \in Active
    /\ Record(status)
    /\ UNCHANGED <<server, conn, request, loop, clock, history>>
    /\ status = "gone" => Exited(cur)
    => IInv'
<1> SUFFICES ASSUME NEW status \in {"gone", "changed", "failed"},
                    IInv, pc \in Active, Record(status),
                    UNCHANGED <<server, conn, request, loop, clock, history>>,
                    status = "gone" => Exited(cur)
             PROVE  IInv'
  OBVIOUS
<1> USE CurLemma DEF Record, server, loop, clock, history
<1>1. Targets' = Targets
  BY DEF Targets
<1>2. BaseTypeOK'
  BY DEF IInv, BaseTypeOK, Statuses
<1>3. Idle' /\ Progress'
  BY <1>1 DEF IInv, BaseTypeOK, Idle, Progress, Active
<1>4. Waiting' /\ Identity'
  BY <1>1 DEF IInv, BaseTypeOK, Waiting, Identity, Active
<1>5. ConfirmedExit' /\ HonestReport'
  BY DEF IInv, BaseTypeOK, ConfirmedExit, HonestReport, Exited
<1> QED
  BY <1>2, <1>3, <1>4, <1>5 DEF IInv

(* A step from one statement of a target to the next.                      *)
LEMMA StatementStep ==
  ASSUME IInv, pc \in Active, pc' \in Active,
         UNCHANGED <<server, conn, request, loop, results, pending, clock, history>>
  PROVE  IInv'
<1> USE DEF server, loop, clock, history
<1>1. Targets' = Targets
  BY DEF Targets
<1> QED
  BY <1>1 DEF IInv, BaseTypeOK, Idle, Progress, Active, Waiting, Identity,
              ConfirmedExit, HonestReport, Exited

(* A statement raises, whether or not a request was delivered by then.     *)
LEMMA FailureStep ==
  ASSUME IInv, pc \in Active, RecordFailure, UNCHANGED origin,
         hits' \subseteq (Ids \X Tokens),
         sent' \in {sent, [sent EXCEPT ![cur] = @ + 1]}
  PROVE  IInv'
<1> USE CurLemma DEF RecordFailure, server, clock
<1>1. Targets' = Targets
  BY DEF Targets
<1>2. BaseTypeOK'
  BY DEF IInv, BaseTypeOK, Statuses
<1>3. Idle' /\ Progress'
  BY <1>1 DEF IInv, BaseTypeOK, Idle, Progress, Active
<1>4. Waiting' /\ Identity'
  BY <1>1 DEF IInv, BaseTypeOK, Waiting, Identity, Active
<1>5. ConfirmedExit' /\ HonestReport'
  BY DEF IInv, BaseTypeOK, ConfirmedExit, HonestReport, Exited
<1> QED
  BY <1>2, <1>3, <1>4, <1>5 DEF IInv

(* A request is accepted: its target is waited for from now on.            *)
LEMMA RequestedStep ==
  ASSUME IInv, pc \in Active, Record("requested"),
         snapshot[cur].token = origin[cur],
         UNCHANGED <<server, conn, request, loop, clock, origin>>,
         hits' \subseteq (Ids \X Tokens),
         sent' = [sent EXCEPT ![cur] = @ + 1]
  PROVE  IInv'
<1> USE CurLemma DEF Record, server, loop, clock
<1>1. Targets' = Targets
  BY DEF Targets
<1>2. pending' = pending \cup {cur}
  BY DEF IInv, BaseTypeOK
<1>3. BaseTypeOK'
  BY <1>2 DEF IInv, BaseTypeOK, Statuses
<1>4. Idle' /\ Progress'
  BY <1>1 DEF IInv, BaseTypeOK, Idle, Progress, Active
<1>5. Waiting' /\ Identity'
  BY <1>1, <1>2 DEF IInv, BaseTypeOK, Waiting, Identity, Active
<1>6. ConfirmedExit' /\ HonestReport'
  BY DEF IInv, BaseTypeOK, ConfirmedExit, HonestReport, Exited
<1> QED
  BY <1>3, <1>4, <1>5, <1>6 DEF IInv

-------------------------------------------------------------------------------
(* Every step of the command that both engines have, and every step of the *)
(* other clients, preserves the invariant.                                 *)
LEMMA SharedStepsLemma ==
  \A seen, tokens :
    IInv /\ Rows(seen) /\ TokensOf(tokens) /\ SharedSteps(seen, tokens) => IInv'
<1> SUFFICES ASSUME NEW seen, NEW tokens, IInv, Rows(seen), TokensOf(tokens),
                    SharedSteps(seen, tokens)
             PROVE  IInv'
  OBVIOUS
<1>1. CASE SelectTargets(seen)
  BY <1>1, SelectTargetsStep
<1>2. CASE SelectRefused(seen) \/ SelectFails
  BY <1>2, RefusedStep
<1>3. CASE NextTarget
  BY <1>3, NextTargetStep
<1>4. CASE SkipTarget
  BY <1>4, SkipTargetStep
<1>5. CASE EndBatch
  BY <1>5, EndBatchStep
<1>6. CASE PollAgain
  BY <1>6, PollAgainStep
<1>7. CASE WaitOver \/ RefreshFails \/ AnswerTooLate
  BY <1>7, GiveUpStep
<1>8. CASE ServerAnswers(tokens)
  BY <1>8, ServerAnswersStep
<1>9. CASE AnswerInTime
  BY <1>9, AnswerInTimeStep
<1> QED
  BY <1>1, <1>2, <1>3, <1>4, <1>5, <1>6, <1>7, <1>8, <1>9 DEF SharedSteps

(* Whatever other clients do keeps the invariant.                          *)
LEMMA OtherClientsLemma ==
  ASSUME IInv, OtherClients \/ Tick
  PROVE  IInv'
<1>1. CASE \E i \in Ids : SessionExits(i)
  BY <1>1, ExitsStep
<1>2. CASE \E i \in Ids : SessionStarts(i)
  BY <1>2, StartsStep
<1>3. CASE ConnectionDrops \/ Tick
  BY <1>3, DropsStep, TickStep
<1> QED
  BY <1>1, <1>2, <1>3 DEF OtherClients

-------------------------------------------------------------------------------
(* The refinement of KillContract.  Each lemma says which changes of the   *)
(* program's state are one step of the contract, or none.                  *)

(* A step that reports nothing, sends nothing and lets no target go.       *)
LEMMA UnseenLemma ==
  ASSUME UNCHANGED <<snapshot, sent, results>>,
         pc = "select" <=> pc' = "select",
         \A i \in Ids : Exited(i)' = Exited(i)
  PROVE  UNCHANGED Contract!cvars
BY DEF Contract!cvars, Targets

(* A verdict for a target nothing was sent for.                            *)
LEMMA DismissLemma ==
  ASSUME IInv, NEW i \in Targets, results[i] = "none",
         NEW v \in {"gone", "changed", "failed", "not_attempted"},
         v = "gone" => Exited(i),
         results' = [results EXCEPT ![i] = v],
         UNCHANGED <<live, snapshot, origin, sent>>,
         pc # "select", pc' # "select"
  PROVE  Contract!Next
<1>1. i \in Ids /\ ~(sent[i] > 0)
  BY DEF IInv, HonestReport, Targets
<1>2. Contract!Dismiss(i, v)
  BY <1>1 DEF Contract!Dismiss, Targets, Exited
<1>3. v \in Contract!Statuses
  BY DEF Contract!Statuses
<1> QED
  BY <1>1, <1>2, <1>3 DEF Contract!Next

(* The one request for a target, whether or not its reply arrives.         *)
LEMMA RequestLemma ==
  ASSUME IInv, NEW i \in Targets, results[i] = "none",
         NEW v \in {"requested", "failed"},
         results' = [results EXCEPT ![i] = v],
         sent' = [sent EXCEPT ![i] = @ + 1],
         UNCHANGED <<live, snapshot, origin>>,
         pc # "select", pc' # "select"
  PROVE  Contract!Next
<1>1. i \in Ids /\ sent[i] = 0 /\ sent \in [Ids -> Nat]
  BY DEF IInv, HonestReport, Targets, BaseTypeOK
<1>2. {j \in Ids : sent'[j] > 0} = {j \in Ids : sent[j] > 0} \cup {i}
  BY <1>1
<1>3. Contract!Request(i, v)
  BY <1>1, <1>2 DEF Contract!Request, Targets, Exited
<1>4. v \in Contract!Statuses
  BY DEF Contract!Statuses
<1> QED
  BY <1>1, <1>3, <1>4 DEF Contract!Next

(* Only what is pending gets another verdict, once the loop is over.       *)
LEMMA SettleLemma ==
  ASSUME IInv, IInv',
         \A i \in Ids : results'[i] # results[i] =>
           /\ results[i] = "requested"
           /\ results'[i] \in {"terminated", "failed", "timeout"},
         UNCHANGED <<live, snapshot, origin, sent>>,
         pc # "select", pc' # "select"
  PROVE  Contract!Next
<1>1. results' \in [Ids -> Statuses \cup {"none"}]
  BY DEF IInv, BaseTypeOK
<1>2. results' \in [Ids -> Contract!Statuses \cup {"none"}]
  BY <1>1 DEF Statuses, Contract!Statuses
<1>3. ASSUME NEW i \in Ids, results'[i] # results[i], results'[i] = "terminated"
      PROVE  i \in {j \in Targets : Exited(j)}
  <2>1. Exited(i)
    BY <1>3 DEF IInv, ConfirmedExit, Exited
  <2> QED
    BY <1>3, <2>1 DEF IInv, Progress
<1>4. Contract!Settle
  BY <1>2, <1>3 DEF Contract!Settle, Targets, Exited
<1> QED
  BY <1>4 DEF Contract!Next

(* The target query makes the selection, of sessions that are still there. *)
LEMMA SelectsLemma ==
  \A seen : /\ IInv /\ Rows(seen)
            /\ SelectTargets(seen) \/ SelectRefused(seen) \/ SelectFails
            => Contract!Next
<1> SUFFICES ASSUME NEW seen, IInv, Rows(seen),
                    SelectTargets(seen) \/ SelectRefused(seen) \/ SelectFails
             PROVE  Contract!Next
  OBVIOUS
<1> USE DEF server, loop, clock, history
<1>1. pc = "select" /\ Targets = {}
  BY DEF SelectTargets, SelectRefused, SelectFails, IInv, Idle
<1>2. /\ pc' # "select" /\ UNCHANGED <<live, sent, results>>
      /\ Targets' \in SUBSET Ids
      /\ \A i \in Targets' : ~Exited(i)'
  <2>1. CASE SelectTargets(seen)
    <3>1. Selectable(seen) \subseteq Ids
      BY DEF Selectable
    <3>2. \A i \in Ids : /\ i \in Selectable(seen) => seen[i] # NoSession
                         /\ seen[i] # NoSession => live[i] # NoSession
      BY DEF Selectable, Rows
    <3> QED
      BY <2>1, <3>1, <3>2 DEF SelectTargets, Targets, Exited
  <2>2. CASE SelectRefused(seen) \/ SelectFails
    BY <1>1, <2>2 DEF SelectRefused, SelectFails, Targets
  <2> QED
    BY <2>1, <2>2
<1>3. Contract!Select
  BY <1>1, <1>2 DEF Contract!Select
<1> QED
  BY <1>3 DEF Contract!Next

(* Every step both engines have is a step of the contract, or none.        *)
LEMMA SharedRefines ==
  \A seen, tokens :
    IInv /\ Rows(seen) /\ TokensOf(tokens) /\ SharedSteps(seen, tokens)
      => [Contract!Next]_(Contract!cvars)
<1> SUFFICES ASSUME NEW seen, NEW tokens, IInv, Rows(seen), TokensOf(tokens),
                    SharedSteps(seen, tokens)
             PROVE  [Contract!Next]_(Contract!cvars)
  OBVIOUS
<1>0. IInv'
  BY SharedStepsLemma
<1>1. CASE SelectTargets(seen) \/ SelectRefused(seen) \/ SelectFails
  BY <1>1, SelectsLemma
<1>2. CASE NextTarget \/ PollAgain \/ ServerAnswers(tokens)
  <2>1. /\ UNCHANGED <<live, origin, snapshot, sent, results>>
        /\ pc # "select" /\ pc' # "select"
    BY <1>2 DEF NextTarget, PollAgain, ServerAnswers, server, loop, history
  <2> QED
    BY <2>1, UnseenLemma DEF Exited
<1>3. CASE SkipTarget
  <2>1. PICK i \in todo : results' = [results EXCEPT ![i] = "not_attempted"]
    BY <1>3 DEF SkipTarget
  <2>2. i \in Targets /\ results[i] = "none"
    BY <2>1 DEF IInv, Progress
  <2>3. /\ UNCHANGED <<live, origin, snapshot, sent>>
        /\ pc # "select" /\ pc' # "select"
    BY <1>3 DEF SkipTarget, server, history
  <2> QED
    BY <2>1, <2>2, <2>3, DismissLemma
<1>4. CASE EndBatch \/ WaitOver \/ RefreshFails \/ AnswerTooLate \/ AnswerInTime
  <2>1. /\ UNCHANGED <<live, origin, snapshot, sent>>
        /\ pc # "select" /\ pc' # "select"
    BY <1>4 DEF EndBatch, WaitOver, RefreshFails, AnswerTooLate, AnswerInTime,
                server, loop, history
  <2>2. ASSUME NEW i \in Ids, results'[i] # results[i]
        PROVE  /\ results[i] = "requested"
               /\ results'[i] \in {"terminated", "failed", "timeout"}
    <3>1. CASE EndBatch
      BY <2>2, <3>1 DEF EndBatch
    <3>2. CASE WaitOver \/ RefreshFails \/ AnswerTooLate
      <4>1. i \in pending /\ results'[i] \in {"timeout", "failed"}
        BY <2>2, <3>2 DEF WaitOver, RefreshFails, AnswerTooLate
      <4> QED
        BY <4>1 DEF IInv, Waiting
    <3>3. CASE AnswerInTime
      <4>1. i \in pending /\ results'[i] = Verdict(i)
        BY <2>2, <3>3 DEF AnswerInTime
      <4>2. results[i] = "requested"
        BY <4>1 DEF IInv, Waiting
      <4> QED
        BY <2>2, <4>1, <4>2 DEF Verdict
    <3> QED
      BY <1>4, <3>1, <3>2, <3>3
  <2> QED
    BY <1>0, <2>1, <2>2, SettleLemma
<1> QED
  BY <1>1, <1>2, <1>3, <1>4 DEF SharedSteps

(* A target that exits leaves for good; whoever else comes or goes, and    *)
(* the clock, are no steps of the contract.                                *)
LEMMA OthersRefine ==
  ASSUME IInv, OtherClients \/ Tick
  PROVE  [Contract!Next]_(Contract!cvars)
<1> USE DEF server, command, loop, clock, history
<1>1. ASSUME NEW i \in Ids, SessionExits(i)
      PROVE  [Contract!Next]_(Contract!cvars)
  <2>1. /\ live' = [live EXCEPT ![i] = NoSession]
        /\ UNCHANGED <<pc, snapshot, origin, sent, results>>
    BY <1>1 DEF SessionExits
  <2>2. \A j \in Ids : Exited(j)' = (Exited(j) \/ j = i)
    BY <2>1 DEF IInv, BaseTypeOK, Exited
  <2>3. CASE i \in Targets /\ ~Exited(i)
    <3>1. {j \in Targets : Exited(j)}' = {j \in Targets : Exited(j)} \cup {i}
      BY <2>1, <2>2, <2>3 DEF Targets
    <3>2. Contract!Leave(i)
      BY <2>1, <2>3, <3>1 DEF Contract!Leave, Targets
    <3> QED
      BY <3>2 DEF Contract!Next
  <2>4. CASE ~(i \in Targets /\ ~Exited(i))
    BY <2>1, <2>2, <2>4 DEF Contract!cvars, Targets
  <2> QED
    BY <2>3, <2>4
<1>2. ASSUME NEW i \in Ids, SessionStarts(i)
      PROVE  [Contract!Next]_(Contract!cvars)
  <2>1. PICK d \in Databases, u \in Users, c \in BOOLEAN :
          live' = [live EXCEPT ![i] = [token |-> lastToken + 1, db |-> d,
                                       user |-> u, client |-> c]]
    BY <1>2 DEF SessionStarts
  <2>2. live[i] = NoSession /\ UNCHANGED <<pc, snapshot, origin, sent, results>>
    BY <1>2 DEF SessionStarts
  <2>3. \A j \in Ids : Exited(j)' = Exited(j)
    <3>1. live'[i].token = lastToken + 1 /\ Exited(i)
      BY <2>1, <2>2 DEF Exited, IInv, BaseTypeOK
    <3>2. Exited(i)'
      <4>1. /\ lastToken \in Nat /\ origin[i] \in Nat /\ origin[i] <= lastToken
            /\ origin'[i] = origin[i]
        BY <2>2 DEF IInv, BaseTypeOK, Identity, Tokens
      <4>2. live'[i].token # origin'[i]
        BY <3>1, <4>1
      <4> QED
        BY <4>2 DEF Exited
    <3>3. \A j \in Ids : j # i => live'[j] = live[j]
      BY <2>1 DEF IInv, BaseTypeOK
    <3>4. \A j \in Ids \ {i} : Exited(j)' = Exited(j)
      BY <2>2, <3>3 DEF Exited
    <3> QED
      BY <3>1, <3>2, <3>4 DEF Exited
  <2> QED
    BY <2>2, <2>3, UnseenLemma
<1>3. CASE ConnectionDrops \/ Tick
  <2>1. UNCHANGED <<live, origin, pc, snapshot, sent, results>>
    BY <1>3 DEF ConnectionDrops, Tick
  <2> QED
    BY <2>1, UnseenLemma DEF Exited
<1> QED
  BY <1>1, <1>2, <1>3 DEF OtherClients

(* The contract starts where the command does.                             *)
LEMMA InitRefines ==
  ASSUME CommandInit
  PROVE  Contract!Init
BY DEF CommandInit, Contract!Init, Targets, Exited
===============================================================================
