-------------------------- MODULE MysqlSessionProofs --------------------------
(***************************************************************************)
(* What `mysql session kill` guarantees for every instance, although KILL  *)
(* takes nothing but a connection number.                                  *)
(***************************************************************************)
EXTENDS MysqlSession, SessionsProofs

\* A target was read in full, inside the selected scope.
InScope ==
  \A i \in Targets : /\ snapshot[i] \in Session
                     /\ snapshot[i].token = origin[i]
                     /\ snapshot[i].db = TargetDb /\ snapshot[i].client

\* Between recheck and KILL the target is as selected unless something raced.
Rechecked == (pc = "terminate" /\ ~raced) => live[cur] = snapshot[cur]

MInv == IInv /\ raced \in BOOLEAN /\ InScope /\ Rechecked

USE IdsAssumption, TargetDbAssumption, ClockAssumption, SentinelAssumption

(* performance_schema.threads shows every row in full.                     *)
LEMMA SeenLemma == IInv => Rows(live) /\ TokensOf(SeenTokens)
<1> SUFFICES ASSUME IInv PROVE Rows(live) /\ TokensOf(SeenTokens)
  OBVIOUS
<1>1. live \in [Ids -> Session \cup {NoSession}]
  BY DEF IInv, BaseTypeOK
<1>2. Session \subseteq View
  BY DEF Session, View
<1>3. Rows(live)
  BY <1>1, <1>2 DEF Rows
<1>4. TokensOf(SeenTokens)
  BY <1>1 DEF TokensOf, SeenTokens, Session
<1> QED
  BY <1>3, <1>4

(* The invariant holds before the command has done anything.               *)
LEMMA InitLemma == Init => MInv
<1> SUFFICES ASSUME Init PROVE MInv
  OBVIOUS
<1> USE DEF Init, ServerInit, CommandInit
<1>1. BaseTypeOK
  BY DEF BaseTypeOK, Session, Tokens, Statuses
<1>2. Targets = {}
  BY DEF Targets
<1>3. Idle /\ Progress /\ Waiting
  BY <1>2 DEF Idle, Progress, Active, Waiting
<1>4. Identity
  <2>1. \A i \in Ids : live[i] # NoSession => live[i].token = 0
    OBVIOUS
  <2> QED
    BY <1>2, <2>1 DEF Identity
<1>5. ConfirmedExit /\ HonestReport
  BY DEF ConfirmedExit, HonestReport
<1>6. InScope /\ Rechecked
  BY <1>2 DEF InScope, Rechecked
<1>7. raced \in BOOLEAN
  <2>1. raced = FALSE
    OBVIOUS
  <2> QED
    BY <2>1
<1> QED
  BY <1>1, <1>3, <1>4, <1>5, <1>6, <1>7 DEF MInv, IInv

-------------------------------------------------------------------------------
(* The shared invariant: a session that moves keeps its thread.            *)
LEMMA MovesStep ==
  ASSUME IInv, NEW i \in Ids, SessionMoves(i)
  PROVE  IInv'
<1> USE DEF SessionMoves, command, loop, clock, history
<1>1. PICK d \in Databases, u \in Users, c \in BOOLEAN :
        live' = [live EXCEPT ![i] = [token |-> @.token, db |-> d, user |-> u,
                                     client |-> c]]
  OBVIOUS
<1>2. /\ live' = [live EXCEPT ![i] = [token |-> live[i].token, db |-> d,
                                      user |-> u, client |-> c]]
      /\ live[i] \in Session
  BY <1>1 DEF IInv, BaseTypeOK
<1>3. BaseTypeOK'
  BY <1>2 DEF IInv, BaseTypeOK, Session
<1>4. Targets' = Targets
  BY DEF Targets
<1>5. \A j \in Ids : Exited(j) => Exited(j)'
  BY <1>2 DEF Exited, IInv, BaseTypeOK, Session
<1>6. Idle' /\ Progress'
  BY <1>4 DEF IInv, Idle, Progress, Active
<1>7. Waiting' /\ ConfirmedExit' /\ HonestReport'
  BY <1>5 DEF IInv, BaseTypeOK, Waiting, ConfirmedExit, HonestReport
<1>8. Identity'
  BY <1>2, <1>4 DEF IInv, Identity, BaseTypeOK, Session
<1> QED
  BY <1>3, <1>6, <1>7, <1>8 DEF IInv

(* Every statement of the command keeps the shared invariant.              *)
LEMMA CommandStep ==
  ASSUME MInv, Command
  PROVE  IInv'
<1> USE DEF MInv, Active
<1>1. CASE SharedSteps(live, SeenTokens)
  BY <1>1, SeenLemma, SharedStepsLemma
<1>2. CASE Recheck
  <2>1. CASE live[cur] = NoSession /\ Record("gone")
    BY <1>2, <2>1, QuietVerdict DEF Recheck, Exited
  <2>2. CASE Record("changed")
    BY <1>2, <2>2, QuietVerdict DEF Recheck
  <2>3. CASE pc' = "terminate" /\ UNCHANGED <<results, pending>>
    BY <1>2, <2>3, StatementStep DEF Recheck
  <2> QED
    BY <1>2, <2>1, <2>2, <2>3 DEF Recheck
<1>3. CASE KillAccepted
  <2>1. /\ snapshot[cur].token = origin[cur]
        /\ <<cur, live[cur].token>> \in Ids \X Tokens
    BY <1>3, CurLemma DEF KillAccepted, InScope, IInv, BaseTypeOK, Session
  <2> QED
    BY <1>3, <2>1, RequestedStep DEF KillAccepted, Hit, IInv, BaseTypeOK
<1>4. CASE KillFindsNobody
  BY <1>4, StatementStep DEF KillFindsNobody
<1>5. CASE Reread
  <2>1. Exited(cur)
    BY <1>5, CurLemma DEF Reread, SeenTokens, Exited, InScope
  <2> QED
    BY <1>5, <2>1, QuietVerdict DEF Reread
<1>6. CASE StatementFails
  BY <1>6, FailureStep DEF StatementFails, history, IInv, BaseTypeOK
<1>7. CASE ReplyLost
  <2>1. <<cur, live[cur].token>> \in Ids \X Tokens
    BY <1>7, CurLemma DEF ReplyLost, IInv, BaseTypeOK, Session
  <2> QED
    BY <1>7, <2>1, FailureStep DEF ReplyLost, Hit, IInv, BaseTypeOK
<1> QED
  BY <1>1, <1>2, <1>3, <1>4, <1>5, <1>6, <1>7 DEF Command

(* Every step keeps the shared invariant.                                  *)
LEMMA StepLemma ==
  ASSUME MInv, [Next]_vars
  PROVE  IInv'
<1>1. CASE Command
  BY <1>1, CommandStep
<1>2. CASE OtherClients \/ Tick
  BY <1>2, OtherClientsLemma DEF MInv
<1>3. CASE \E i \in Ids : SessionMoves(i)
  BY <1>3, MovesStep DEF MInv
<1>4. CASE UNCHANGED vars
  BY <1>4 DEF MInv, IInv, BaseTypeOK, Idle, Progress, Active, Waiting, Identity,
              ConfirmedExit, HonestReport, Targets, Exited, vars, server, command,
              loop, clock, history
<1> QED
  BY <1>1, <1>2, <1>3, <1>4 DEF Next, Environment

-------------------------------------------------------------------------------
(* Who may change the targets, the history, and the place in the code.     *)
LEMMA FrameLemma ==
  ASSUME [Next]_vars
  PROVE  /\ \/ hits' = hits /\ sent' = sent
            \/ /\ pc = "terminate"
               /\ hits' = hits \cup {<<cur, live[cur].token>>}
         /\ SelectTargets(live) \/ UNCHANGED <<snapshot, origin>>
         /\ \/ pc' # "terminate"
            \/ Recheck /\ Unchanged(cur)
            \/ Environment /\ UNCHANGED command
            \/ UNCHANGED vars
<1> USE DEF server, command, loop, clock, history
<1>1. CASE SharedSteps(live, SeenTokens)
  BY <1>1 DEF SharedSteps, SelectTargets, SelectRefused, SelectFails, NextTarget,
              SkipTarget, EndBatch, PollAgain, WaitOver, ServerAnswers, RefreshFails,
              AnswerTooLate, AnswerInTime
<1>2. CASE Recheck \/ KillFindsNobody \/ Reread \/ StatementFails
  BY <1>2 DEF Recheck, Record, KillFindsNobody, Reread, StatementFails, RecordFailure
<1>3. CASE KillAccepted \/ ReplyLost
  BY <1>3 DEF KillAccepted, Record, ReplyLost, Hit, RecordFailure
<1>4. CASE Environment
  <2>1. \/ UNCHANGED command
        \/ Tick
    BY <1>4 DEF Environment, OtherClients, SessionExits, SessionStarts,
                ConnectionDrops, SessionMoves
  <2>2. Tick => UNCHANGED <<snapshot, origin, hits, sent>> /\ pc' # "terminate"
    BY DEF Tick
  <2> QED
    BY <1>4, <2>1, <2>2
<1>5. CASE UNCHANGED vars
  BY <1>5 DEF vars
<1> QED
  BY <1>1, <1>2, <1>3, <1>4, <1>5 DEF Next, Command

(* Each target was in the selected scope when it was read.                 *)
LEMMA ScopeStep ==
  ASSUME MInv, [Next]_vars
  PROVE  InScope'
<1>1. CASE UNCHANGED <<snapshot, origin>>
  BY <1>1 DEF MInv, InScope, Targets
<1>2. CASE SelectTargets(live)
  <2>1. \A i \in Selectable(live) :
          /\ i \in Ids /\ live[i] \in Session
          /\ live[i].db = TargetDb /\ live[i].client
    BY DEF Selectable, MInv, IInv, BaseTypeOK
  <2> QED
    BY <1>2, <2>1 DEF SelectTargets, InScope, Targets
<1> QED
  BY <1>1, <1>2, FrameLemma

(* Between recheck and KILL the session is as it was selected, or it raced. *)
LEMMA RecheckedStep ==
  ASSUME MInv, [Next]_vars
  PROVE  Rechecked'
<1>1. CASE Recheck /\ Unchanged(cur)
  <2>1. cur \in Targets
    BY <1>1, CurLemma DEF MInv, Recheck, Active
  <2>2. live[cur] \in Session /\ snapshot[cur] \in Session
    BY <1>1, <2>1 DEF Unchanged, MInv, InScope, IInv, BaseTypeOK, Targets
  <2>3. live[cur] = snapshot[cur]
    BY <1>1, <2>1, <2>2 DEF Unchanged, MInv, InScope, Session
  <2> QED
    BY <1>1, <2>3 DEF Rechecked, Recheck, server, loop
<1>2. CASE Environment /\ UNCHANGED command
  BY <1>2 DEF MInv, Rechecked, Environment, command, loop
<1>3. CASE UNCHANGED vars
  BY <1>3 DEF MInv, Rechecked, vars, server, command, loop
<1>4. CASE pc' # "terminate"
  BY <1>4 DEF Rechecked
<1> QED
  BY <1>1, <1>2, <1>3, <1>4, FrameLemma

(* The inductive invariant holds in every reachable state.                 *)
THEOREM Invariance == Spec => []MInv
<1>1. Init => MInv
  BY InitLemma
<1>2. MInv /\ [Next]_vars => MInv'
  <2> SUFFICES ASSUME MInv, [Next]_vars PROVE MInv'
    OBVIOUS
  <2>1. raced' \in BOOLEAN
    BY DEF MInv, Next, Command, Environment, vars
  <2> QED
    BY <2>1, StepLemma, ScopeStep, RecheckedStep DEF MInv
<1> QED
  BY <1>1, <1>2, PTL DEF Spec

(* Every variable keeps its type.                                          *)
THEOREM TypeCorrect == Spec => []TypeOK
<1>1. MInv => TypeOK
  BY DEF MInv, IInv, TypeOK
<1> QED
  BY <1>1, Invariance, PTL

(* KILL reaches a session other than the one selected, or one outside the  *)
(* selected scope, only if it changed after the recheck of that target.    *)
THEOREM OnlyARaceMisses == Spec => MissOnlyByRace
<1>1. ASSUME MInv, [Next]_vars
      PROVE  \A h \in hits' \ hits :
               raced \/ /\ h = <<cur, origin[cur]>>
                        /\ cur # OwnId
                        /\ live[cur] = snapshot[cur]
                        /\ live[cur].db = TargetDb /\ live[cur].client
  <2> SUFFICES ASSUME NEW h \in hits' \ hits, raced = FALSE
               PROVE  /\ h = <<cur, origin[cur]>>
                      /\ cur # OwnId
                      /\ live[cur] = snapshot[cur]
                      /\ live[cur].db = TargetDb /\ live[cur].client
    BY <1>1 DEF MInv
  <2>1. pc = "terminate" /\ h = <<cur, live[cur].token>>
    BY <1>1, FrameLemma
  <2>2. cur \in Targets /\ cur # OwnId
    BY <1>1, <2>1, CurLemma DEF MInv, Active
  <2>3. live[cur] = snapshot[cur]
    BY <1>1, <2>1 DEF MInv, Rechecked
  <2> QED
    BY <1>1, <2>1, <2>2, <2>3 DEF MInv, InScope
<1> QED
  BY <1>1, Invariance, PTL DEF Spec, MissOnlyByRace

(* `gone` and `terminated` are true even if KILL hit a reused number.      *)
THEOREM ExitsAreConfirmed == Spec => []ConfirmedExit
<1>1. MInv => ConfirmedExit
  BY DEF MInv, IInv
<1> QED
  BY <1>1, Invariance, PTL

(* A waiting run that reports success has cleared all of its targets.      *)
THEOREM SuccessIsGone == Spec => []SuccessMeansGone
<1>1. MInv => SuccessMeansGone
  BY GoneLemma DEF MInv
<1> QED
  BY <1>1, Invariance, PTL

(* No verdict contradicts what was executed, and no KILL is repeated.      *)
THEOREM ReportIsHonest == Spec => []HonestReport
<1>1. MInv => HonestReport
  BY DEF MInv, IInv
<1> QED
  BY <1>1, Invariance, PTL

(* The final report covers the selected sessions and no others.            *)
THEOREM ReportIsComplete == Spec => []ReportComplete
<1>1. MInv => ReportComplete
  BY CompleteLemma DEF MInv
<1> QED
  BY <1>1, Invariance, PTL

-------------------------------------------------------------------------------
(* Every statement of the engine is one step of KillContract, or none.     *)
LEMMA StatementsRefine ==
  ASSUME MInv,
         Recheck \/ KillAccepted \/ KillFindsNobody \/ Reread
           \/ StatementFails \/ ReplyLost
  PROVE  [Contract!Next]_(Contract!cvars)
<1> USE DEF Active, server, loop, clock, history
<1>1. /\ IInv /\ pc \in Active /\ pc # "select" /\ pc' # "select"
      /\ UNCHANGED <<live, snapshot, origin>>
  BY DEF MInv, Recheck, KillAccepted, KillFindsNobody, Reread, StatementFails,
         ReplyLost, Record, RecordFailure, Hit
<1>2. cur \in Targets /\ results[cur] = "none"
  BY <1>1, CurLemma
<1>3. CASE Recheck
  <2>1. UNCHANGED sent
    BY <1>3 DEF Recheck
  <2>2. CASE live[cur] = NoSession /\ Record("gone")
    BY <1>1, <1>2, <2>1, <2>2, DismissLemma DEF Record, Exited
  <2>3. CASE Record("changed")
    BY <1>1, <1>2, <2>1, <2>3, DismissLemma DEF Record
  <2>4. CASE UNCHANGED results
    BY <1>1, <2>1, <2>4, UnseenLemma DEF Exited
  <2> QED
    BY <1>3, <2>2, <2>3, <2>4 DEF Recheck
<1>4. CASE KillFindsNobody
  BY <1>1, <1>4, UnseenLemma DEF Exited, KillFindsNobody
<1>5. CASE Reread
  <2>1. Exited(cur)
    BY <1>2, <1>5 DEF Reread, SeenTokens, Exited, MInv, InScope, Targets
  <2> QED
    BY <1>1, <1>2, <1>5, <2>1, DismissLemma DEF Reread, Record
<1>6. CASE KillAccepted
  BY <1>1, <1>2, <1>6, RequestLemma DEF KillAccepted, Hit, Record
<1>7. CASE StatementFails
  BY <1>1, <1>2, <1>7, DismissLemma DEF StatementFails, RecordFailure
<1>8. CASE ReplyLost
  BY <1>1, <1>2, <1>8, RequestLemma DEF ReplyLost, Hit, RecordFailure
<1> QED
  BY <1>3, <1>4, <1>5, <1>6, <1>7, <1>8

(* A session that moves is still the same session.                         *)
LEMMA MovesRefine ==
  ASSUME IInv, NEW i \in Ids, SessionMoves(i)
  PROVE  UNCHANGED Contract!cvars
<1> USE DEF SessionMoves, command, loop, history
<1>1. PICK d \in Databases, u \in Users, c \in BOOLEAN :
        live' = [live EXCEPT ![i] = [token |-> live[i].token, db |-> d,
                                     user |-> u, client |-> c]]
  BY DEF IInv, BaseTypeOK
<1>2. live'[i].token = live[i].token /\ live'[i] # NoSession /\ live[i] # NoSession
  <2>1. live' \in [Ids -> Session \cup {NoSession}] /\ live[i] \in Session
    BY MovesStep DEF IInv, BaseTypeOK
  <2>2. live'[i] \in Session
    BY <1>1, <2>1 DEF Session, IInv, BaseTypeOK
  <2> QED
    BY <1>1, <2>1, <2>2 DEF IInv, BaseTypeOK
<1>3. \A j \in Ids \ {i} : live'[j] = live[j]
  BY <1>1 DEF IInv, BaseTypeOK
<1>4. \A j \in Ids : Exited(j)' = Exited(j)
  BY <1>2, <1>3 DEF Exited
<1> QED
  BY <1>4, UnseenLemma

(* `mysql session kill` implements KillContract too, although a KILL may   *)
(* hit somebody else: each selected session costs one KILL at most, and no *)
(* exit is reported that did not happen.                                   *)
THEOREM Implements == Spec => ImplementsContract
<1>1. Init => Contract!Init
  BY InitRefines DEF Init
<1>2. MInv /\ [Next]_vars => [Contract!Next]_(Contract!cvars)
  <2> SUFFICES ASSUME MInv, [Next]_vars
               PROVE  [Contract!Next]_(Contract!cvars)
    OBVIOUS
  <2>1. CASE SharedSteps(live, SeenTokens)
    BY <2>1, SeenLemma, SharedRefines DEF MInv
  <2>2. CASE Recheck \/ KillAccepted \/ KillFindsNobody \/ Reread
               \/ StatementFails \/ ReplyLost
    BY <2>2, StatementsRefine
  <2>3. CASE OtherClients \/ Tick
    BY <2>3, OthersRefine DEF MInv
  <2>4. CASE \E i \in Ids : SessionMoves(i)
    BY <2>4, MovesRefine DEF MInv
  <2>5. CASE UNCHANGED vars
    <3>1. UNCHANGED <<live, origin, pc, snapshot, sent, results>>
      BY <2>5 DEF vars, server, command, loop, history
    <3> QED
      BY <3>1, UnseenLemma DEF Exited
  <2> QED
    BY <2>1, <2>2, <2>3, <2>4, <2>5 DEF Next, Command, Environment
<1> QED
  BY <1>1, <1>2, Invariance, PTL DEF Spec, ImplementsContract, Contract!Spec
===============================================================================
