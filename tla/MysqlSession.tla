------------------------------ MODULE MysqlSession ------------------------------
(***************************************************************************)
(* `dbtalk mysql session kill`: src/dbtalk/mysql/session.py.               *)
(*                                                                         *)
(* MySQL's KILL takes a connection number and nothing else, so the recheck *)
(* and the kill are two separate steps of the server: whoever holds the    *)
(* number when KILL arrives is terminated.  A MySQL session may also move  *)
(* to another database or account while it keeps its number and thread.    *)
(***************************************************************************)
EXTENDS Sessions

VARIABLE raced    \* history: the current target changed since its recheck

vars == <<server, conn, command, raced>>

SeenTokens ==
  [i \in Ids |-> IF live[i] = NoSession THEN NoSession ELSE live[i].token]

Init ==
  /\ ServerInit
  /\ CommandInit
  /\ raced = FALSE

\* USE, COM_CHANGE_USER, and turning into a replication (binlog dump) thread.
SessionMoves(i) ==
  /\ i # OwnId
  /\ live[i] # NoSession
  /\ \E d \in Databases, u \in Users, c \in BOOLEAN :
       /\ <<d, u, c>> # <<live[i].db, live[i].user, live[i].client>>
       /\ live' = [live EXCEPT ![i] = [token |-> @.token, db |-> d, user |-> u,
                                       client |-> c]]
  /\ UNCHANGED <<lastToken, conn, command>>

\* Faulty variant: the recheck forgets the database.
UnchangedButDatabase(i) ==
  /\ live[i] # NoSession
  /\ live[i].token = snapshot[i].token
  /\ live[i].user = snapshot[i].user
  /\ live[i].client

\* _kill_one compares thread, database, user and the client property.
Unchanged(i) ==
  /\ live[i] # NoSession
  /\ live[i].token = snapshot[i].token
  /\ live[i].db = snapshot[i].db
  /\ live[i].user = snapshot[i].user
  /\ live[i].client

Recheck ==
  /\ pc = "recheck"
  /\ conn = "up"
  /\ \/ live[cur] = NoSession /\ Record("gone")
     \/ live[cur] # NoSession /\ ~Unchanged(cur) /\ Record("changed")
     \/ Unchanged(cur) /\ pc' = "terminate" /\ UNCHANGED <<results, pending>>
  /\ UNCHANGED <<server, conn, request, loop, clock, history>>

\* The server kills the session that has the number now.
Hit ==
  /\ sent' = [sent EXCEPT ![cur] = @ + 1]
  /\ hits' = hits \cup {<<cur, live[cur].token>>}
  /\ UNCHANGED origin

KillAccepted ==
  /\ pc = "terminate"
  /\ conn = "up"
  /\ live[cur] # NoSession
  /\ Hit
  /\ Record("requested")
  /\ UNCHANGED <<server, conn, request, loop, clock>>

\* Error 1094, unknown thread id.
KillFindsNobody ==
  /\ pc = "terminate"
  /\ conn = "up"
  /\ live[cur] = NoSession
  /\ pc' = "reread"
  /\ UNCHANGED <<server, conn, request, loop, results, pending, clock, history>>

\* After 1094: `gone`, unless the same thread is back, which raises 1094 again.
Reread ==
  /\ pc = "reread"
  /\ conn = "up"
  /\ SeenTokens[cur] # snapshot[cur].token
  /\ Record("gone")
  /\ UNCHANGED <<server, conn, request, loop, clock, history>>

\* A statement raises (timeout, permission, lost link) and did nothing.
StatementFails ==
  /\ pc \in {"recheck", "terminate", "reread"}
  /\ RecordFailure
  /\ UNCHANGED history

\* KILL was executed, and its reply is lost with the link or times out.
ReplyLost ==
  /\ pc = "terminate"
  /\ live[cur] # NoSession
  /\ Hit
  /\ RecordFailure

Command ==
  /\ \/ SharedSteps(live, SeenTokens)
     \/ Recheck \/ KillAccepted \/ KillFindsNobody \/ Reread
     \/ StatementFails \/ ReplyLost
  /\ raced' = FALSE

Environment ==
  /\ OtherClients \/ Tick \/ \E i \in Ids : SessionMoves(i)
  /\ raced' = (raced \/ (pc = "terminate" /\ live'[cur] # live[cur]))

Next == Command \/ Environment

Spec == Init /\ [][Next]_vars

-------------------------------------------------------------------------------
TypeOK == BaseTypeOK /\ raced \in BOOLEAN

(* The only window in which KILL can terminate a session other than the    *)
(* one selected, or one that left the selected scope, is the one between   *)
(* the recheck and the KILL of the same target: without a change there,    *)
(* each kill reaches the thread, database, account and kind selected.      *)
MissOnlyByRace ==
  [][ \A h \in hits' \ hits :
        raced \/ /\ h = <<cur, origin[cur]>>
                 /\ cur # OwnId
                 /\ live[cur] = snapshot[cur]
                 /\ live[cur].db = TargetDb /\ live[cur].client ]_vars
===============================================================================
