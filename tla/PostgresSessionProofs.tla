------------------------- MODULE PostgresSessionProofs -------------------------
(***************************************************************************)
(* `postgres session kill` is correct for every set of sessions, databases *)
(* and users, every wait and poll interval, and any number of sessions     *)
(* started meanwhile.                                                      *)
(***************************************************************************)
EXTENDS PostgresSession, SessionsProofs

\* What the statements of the engine add to the shared invariant.
PInv == IInv /\ hidden \subseteq Ids /\ SignalsOnlySnapshot

USE IdsAssumption, TargetDbAssumption, ClockAssumption, SentinelAssumption

(* pg_stat_activity shows the rows of the server, some with NULLs.         *)
LEMMA SeenLemma ==
  IInv => /\ Rows(Seen) /\ TokensOf(SeenTokens)
          /\ \A i \in Ids : Seen[i] = NoSession => live[i] = NoSession
<1> SUFFICES ASSUME IInv
             PROVE  /\ Rows(Seen) /\ TokensOf(SeenTokens)
                    /\ \A i \in Ids : Seen[i] = NoSession => live[i] = NoSession
  OBVIOUS
<1> USE DEF IInv, BaseTypeOK
<1>1. ASSUME NEW i \in Ids, live[i] # NoSession
      PROVE  Seen[i] \in View /\ Seen[i].token \in {Hidden, live[i].token}
  <2>1. live[i] \in Session
    BY <1>1
  <2>2. CASE i \notin hidden
    BY <1>1, <2>1, <2>2 DEF Seen, Session, View
  <2>3. CASE i \in hidden
    <3>1. Seen[i] = [live[i] EXCEPT !.token = Hidden, !.user = Hidden]
      BY <1>1, <2>3 DEF Seen
    <3>2. Seen[i] = [token |-> Hidden, db |-> live[i].db, user |-> Hidden,
                     client |-> live[i].client]
      BY <2>1, <3>1 DEF Session
    <3> QED
      BY <2>1, <3>2 DEF Session, View
  <2> QED
    BY <2>2, <2>3
<1>2. ASSUME NEW i \in Ids
      PROVE  Seen[i] # NoSession <=> live[i] # NoSession
  <2>1. live[i] = NoSession => Seen[i] = NoSession
    BY DEF Seen
  <2>2. live[i] # NoSession => Seen[i] # NoSession
    BY <1>1
  <2> QED
    BY <2>1, <2>2
<1> HIDE DEF Seen
<1>3. Rows(Seen)
  <2>1. Seen \in [Ids -> View \cup {NoSession}]
    <3>1. \A i \in Ids : Seen[i] \in View \cup {NoSession}
      BY <1>1, <1>2
    <3> QED
      BY <3>1 DEF Seen
  <2> QED
    BY <1>1, <1>2, <2>1 DEF Rows
<1>4. TokensOf(SeenTokens)
  <2>1. ASSUME NEW i \in Ids
        PROVE  /\ SeenTokens[i] \in Tokens \cup {Hidden, NoSession}
               /\ SeenTokens[i] # Hidden =>
                    SeenTokens[i] = IF live[i] = NoSession THEN NoSession
                                                           ELSE live[i].token
    <3>1. CASE live[i] = NoSession
      BY <1>2, <3>1 DEF SeenTokens
    <3>2. CASE live[i] # NoSession
      <4>1. SeenTokens[i] = Seen[i].token
        BY <1>2, <3>2 DEF SeenTokens
      <4> QED
        BY <1>1, <3>2, <4>1 DEF View
    <3> QED
      BY <3>1, <3>2
  <2> QED
    BY <2>1 DEF TokensOf, SeenTokens
<1> QED
  BY <1>2, <1>3, <1>4

(* The invariant holds before the command has done anything.               *)
LEMMA InitLemma == Init => PInv
<1> SUFFICES ASSUME Init PROVE PInv
  OBVIOUS
<1> USE DEF Init, ServerInit, CommandInit
<1>1. BaseTypeOK
  BY DEF BaseTypeOK, Session, Tokens, Statuses
<1>2. Targets = {}
  BY DEF Targets
<1>3. Idle /\ Progress /\ Waiting
  BY <1>2 DEF Idle, Progress, Active, Waiting
<1>4. Identity
  <2>1. \A i \in Ids : live[i] # NoSession => live[i].token = 0
    OBVIOUS
  <2> QED
    BY <1>2, <2>1 DEF Identity
<1>5. ConfirmedExit /\ HonestReport /\ SignalsOnlySnapshot /\ hidden \subseteq Ids
  BY DEF ConfirmedExit, HonestReport, SignalsOnlySnapshot
<1> QED
  BY <1>1, <1>3, <1>4, <1>5 DEF PInv, IInv

-------------------------------------------------------------------------------
(* The WHERE of the signal lets only the very session selected through.    *)
LEMMA MatchLemma ==
  ASSUME IInv, pc \in Active, Matches(cur)
  PROVE  /\ live[cur] # NoSession
         /\ live[cur].token = origin[cur]
         /\ snapshot[cur].token = origin[cur]
         /\ <<cur, live[cur].token>> \in Ids \X Tokens
<1>1. Seen[cur].token \in {Hidden, live[cur].token} /\ live[cur] # NoSession
  BY SeenLemma, CurLemma DEF Rows, Matches
<1>2. Seen[cur].token = snapshot[cur].token /\ Seen[cur].token # Hidden
  BY DEF Matches
<1>3. snapshot[cur].token \in {Hidden, origin[cur]}
  BY CurLemma
<1> QED
  BY <1>1, <1>2, <1>3, CurLemma DEF IInv, BaseTypeOK

(* Every statement of the command keeps the shared invariant.              *)
LEMMA CommandStep ==
  ASSUME IInv, Command
  PROVE  IInv'
<1> USE DEF Active
<1>1. CASE SharedSteps(Seen, SeenTokens)
  BY <1>1, SeenLemma, SharedStepsLemma
<1>2. CASE Recheck
  <2>1. CASE Seen[cur] = NoSession /\ Record("gone")
    <3>1. Exited(cur)
      BY <2>1, <1>2, SeenLemma, CurLemma DEF Recheck, Exited
    <3> QED
      BY <1>2, <2>1, <3>1, QuietVerdict DEF Recheck
  <2>2. CASE Record("changed") \/ Record("failed")
    BY <1>2, <2>2, QuietVerdict DEF Recheck
  <2>3. CASE pc' = "terminate" /\ UNCHANGED <<results, pending>>
    BY <1>2, <2>3, StatementStep DEF Recheck
  <2> QED
    BY <1>2, <2>1, <2>2, <2>3 DEF Recheck
<1>3. CASE TerminateAccepted
  BY <1>3, RequestedStep, MatchLemma DEF TerminateAccepted, Signal, IInv, BaseTypeOK
<1>4. CASE TerminateNotAccepted
  BY <1>4, StatementStep DEF TerminateNotAccepted
<1>5. CASE Reread
  <2>1. CASE Seen[cur] = NoSession /\ Record("gone")
    <3>1. Exited(cur)
      BY <2>1, <1>5, SeenLemma, CurLemma DEF Reread, Exited
    <3> QED
      BY <1>5, <2>1, <3>1, QuietVerdict DEF Reread
  <2>2. CASE Record("changed") \/ Record("failed")
    BY <1>5, <2>2, QuietVerdict DEF Reread
  <2> QED
    BY <1>5, <2>1, <2>2 DEF Reread
<1>6. CASE StatementFails
  BY <1>6, FailureStep DEF StatementFails, history, IInv, BaseTypeOK
<1>7. CASE ReplyLost
  BY <1>7, FailureStep, MatchLemma DEF ReplyLost, Signal, IInv, BaseTypeOK
<1> QED
  BY <1>1, <1>2, <1>3, <1>4, <1>5, <1>6, <1>7 DEF Command

(* Steps that only change what is visible keep the shared invariant.       *)
LEMMA StutterStep ==
  ASSUME IInv, UNCHANGED <<server, conn, command>>
  PROVE  IInv'
BY DEF IInv, BaseTypeOK, Idle, Progress, Active, Waiting, Identity, ConfirmedExit,
       HonestReport, Targets, Exited, server, command, loop, clock, history

(* Every step preserves the shared invariant.                              *)
LEMMA StepLemma ==
  ASSUME PInv, [Next]_vars
  PROVE  IInv'
<1>1. CASE Command
  BY <1>1, CommandStep DEF PInv
<1>2. CASE OtherClients \/ Tick
  BY <1>2, OtherClientsLemma DEF PInv
<1>3. CASE UNCHANGED <<server, conn, command>>
  BY <1>3, StutterStep DEF PInv
<1> QED
  BY <1>1, <1>2, <1>3 DEF Next, Environment, VisibilityChanges, vars

(* Only the two statements that signal change the history, and only the    *)
(* target query changes what the targets are.                              *)
LEMMA FrameLemma ==
  ASSUME [Next]_vars
  PROVE  /\ \/ hits' = hits /\ sent' = sent
            \/ /\ pc = "terminate" /\ Matches(cur)
               /\ hits' = hits \cup {<<cur, live[cur].token>>}
         /\ pc = "select" \/ UNCHANGED <<snapshot, origin>>
         /\ pc = "select" => hits' = hits
<1> USE DEF server, command, loop, clock, history
<1>1. CASE SharedSteps(Seen, SeenTokens)
  BY <1>1 DEF SharedSteps, SelectTargets, SelectRefused, SelectFails, NextTarget,
              SkipTarget, EndBatch, PollAgain, WaitOver, ServerAnswers, RefreshFails,
              AnswerTooLate, AnswerInTime
<1>2. CASE Recheck \/ TerminateNotAccepted \/ Reread \/ StatementFails
  BY <1>2 DEF Recheck, TerminateNotAccepted, Reread, StatementFails, RecordFailure
<1>3. CASE TerminateAccepted \/ ReplyLost
  BY <1>3 DEF TerminateAccepted, ReplyLost, Signal, RecordFailure
<1>4. CASE OtherClients \/ Tick
  BY <1>4 DEF OtherClients, SessionExits, SessionStarts, ConnectionDrops, Tick
<1>5. CASE UNCHANGED <<server, conn, command>>
  BY <1>5
<1> QED
  BY <1>1, <1>2, <1>3, <1>4, <1>5 DEF Next, Command, Environment, VisibilityChanges, vars

(* A signal is sent only where the WHERE of the statement matched.         *)
LEMMA SignalStep ==
  ASSUME PInv, [Next]_vars
  PROVE  SignalsOnlySnapshot'
<1>1. CASE pc = "select"
  BY <1>1, FrameLemma DEF PInv, IInv, Idle, SignalsOnlySnapshot
<1>2. CASE pc # "select" /\ hits' = hits
  BY <1>2, FrameLemma DEF PInv, SignalsOnlySnapshot, Targets
<1>3. CASE /\ pc = "terminate" /\ Matches(cur)
           /\ hits' = hits \cup {<<cur, live[cur].token>>}
  <2>1. UNCHANGED <<snapshot, origin>>
    BY <1>3, FrameLemma
  <2>2. cur \in Targets \ {OwnId} /\ live[cur].token = origin[cur]
    BY <1>3, CurLemma, MatchLemma DEF PInv, Active
  <2> QED
    BY <1>3, <2>1, <2>2 DEF PInv, SignalsOnlySnapshot, Targets
<1> QED
  BY <1>1, <1>2, <1>3, FrameLemma

(* The inductive invariant holds in every reachable state.                 *)
THEOREM Invariance == Spec => []PInv
<1>1. Init => PInv
  BY InitLemma
<1>2. PInv /\ [Next]_vars => PInv'
  <2> SUFFICES ASSUME PInv, [Next]_vars PROVE PInv'
    OBVIOUS
  <2>1. hidden' \subseteq Ids
    BY DEF PInv, Next, Command, Environment, VisibilityChanges, vars
  <2> QED
    BY <2>1, StepLemma, SignalStep DEF PInv
<1> QED
  BY <1>1, <1>2, PTL DEF Spec

(* Every variable keeps its type.                                          *)
THEOREM TypeCorrect == Spec => []TypeOK
<1>1. PInv => TypeOK
  BY DEF PInv, IInv, TypeOK
<1> QED
  BY <1>1, Invariance, PTL

(* pg_terminate_backend never reaches a session the target query did not   *)
(* read, whatever pids the server reuses and whoever acts in between.      *)
THEOREM OnlySnapshotIsSignalled == Spec => []SignalsOnlySnapshot
<1>1. PInv => SignalsOnlySnapshot
  BY DEF PInv
<1> QED
  BY <1>1, Invariance, PTL

(* `gone` and `terminated` are never reported of a session still there.    *)
THEOREM ExitsAreConfirmed == Spec => []ConfirmedExit
<1>1. PInv => ConfirmedExit
  BY DEF PInv, IInv
<1> QED
  BY <1>1, Invariance, PTL

(* A waiting run that reports success has cleared all of its targets.      *)
THEOREM SuccessIsGone == Spec => []SuccessMeansGone
<1>1. PInv => SuccessMeansGone
  BY GoneLemma DEF PInv
<1> QED
  BY <1>1, Invariance, PTL

(* No verdict contradicts what was sent, and nothing is sent twice.        *)
THEOREM ReportIsHonest == Spec => []HonestReport
<1>1. PInv => HonestReport
  BY DEF PInv, IInv
<1> QED
  BY <1>1, Invariance, PTL

(* The final report covers the selected sessions and no others.            *)
THEOREM ReportIsComplete == Spec => []ReportComplete
<1>1. PInv => ReportComplete
  BY CompleteLemma DEF PInv
<1> QED
  BY <1>1, Invariance, PTL

-------------------------------------------------------------------------------
(* Every statement of the engine is one step of KillContract, or none.     *)
LEMMA StatementsRefine ==
  ASSUME IInv,
         Recheck \/ TerminateAccepted \/ TerminateNotAccepted \/ Reread
           \/ StatementFails \/ ReplyLost
  PROVE  [Contract!Next]_(Contract!cvars)
<1> USE DEF Active, server, loop, clock, history
<1>1. /\ pc \in Active /\ pc # "select" /\ pc' # "select"
      /\ UNCHANGED <<live, snapshot, origin>>
  BY DEF Recheck, TerminateAccepted, TerminateNotAccepted, Reread, StatementFails,
         ReplyLost, Record, RecordFailure, Signal
<1>2. cur \in Targets /\ results[cur] = "none"
  BY <1>1, CurLemma
<1>3. CASE Recheck \/ Reread
  <2>1. UNCHANGED sent
    BY <1>3 DEF Recheck, Reread
  <2>2. CASE Seen[cur] = NoSession /\ Record("gone")
    <3>1. Exited(cur)
      BY <1>2, <2>2, SeenLemma DEF Exited, Targets
    <3> QED
      BY <1>1, <1>2, <2>1, <2>2, <3>1, DismissLemma DEF Record
  <2>3. CASE Record("changed") \/ Record("failed")
    BY <1>1, <1>2, <2>1, <2>3, DismissLemma DEF Record
  <2>4. CASE UNCHANGED results
    BY <1>1, <2>1, <2>4, UnseenLemma DEF Exited
  <2> QED
    BY <1>3, <2>2, <2>3, <2>4 DEF Recheck, Reread
<1>4. CASE TerminateNotAccepted
  BY <1>1, <1>4, UnseenLemma DEF Exited, TerminateNotAccepted
<1>5. CASE TerminateAccepted
  BY <1>1, <1>2, <1>5, RequestLemma DEF TerminateAccepted, Signal, Record
<1>6. CASE StatementFails
  BY <1>1, <1>2, <1>6, DismissLemma DEF StatementFails, RecordFailure
<1>7. CASE ReplyLost
  BY <1>1, <1>2, <1>7, RequestLemma DEF ReplyLost, Signal, RecordFailure
<1> QED
  BY <1>3, <1>4, <1>5, <1>6, <1>7

(* `postgres session kill` implements KillContract: one request at most    *)
(* for each session selected, no verdict changed but by the wait, and no   *)
(* exit reported that did not happen.                                      *)
THEOREM Implements == Spec => ImplementsContract
<1>1. Init => Contract!Init
  BY InitRefines DEF Init
<1>2. PInv /\ [Next]_vars => [Contract!Next]_(Contract!cvars)
  <2> SUFFICES ASSUME PInv, [Next]_vars
               PROVE  [Contract!Next]_(Contract!cvars)
    OBVIOUS
  <2>1. CASE SharedSteps(Seen, SeenTokens)
    BY <2>1, SeenLemma, SharedRefines DEF PInv
  <2>2. CASE Recheck \/ TerminateAccepted \/ TerminateNotAccepted \/ Reread
               \/ StatementFails \/ ReplyLost
    BY <2>2, StatementsRefine DEF PInv
  <2>3. CASE OtherClients \/ Tick
    BY <2>3, OthersRefine DEF PInv
  <2>4. CASE UNCHANGED <<server, conn, command>>
    <3>1. UNCHANGED <<live, origin, pc, snapshot, sent, results>>
      BY <2>4 DEF server, command, loop, history
    <3> QED
      BY <3>1, UnseenLemma DEF Exited
  <2> QED
    BY <2>1, <2>2, <2>3, <2>4 DEF Next, Command, Environment, VisibilityChanges, vars
<1> QED
  BY <1>1, <1>2, Invariance, PTL DEF Spec, ImplementsContract, Contract!Spec
===============================================================================
