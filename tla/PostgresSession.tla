---------------------------- MODULE PostgresSession ----------------------------
(***************************************************************************)
(* `dbtalk postgres session kill`: src/dbtalk/postgres/session.py.         *)
(*                                                                         *)
(* Each target goes through up to three statements (read it again, signal  *)
(* it, read it once more when the signal was not accepted), and any other  *)
(* client may act between two of them.  The signal is one conditional      *)
(* statement: the server finds the session by its whole identity.          *)
(***************************************************************************)
EXTENDS Sessions

VARIABLE hidden   \* numbers whose identity the command's role may not see

vars == <<server, conn, command, hidden>>

\* The columns of pg_stat_activity that _record reads.
Seen ==
  [i \in Ids |->
     IF live[i] = NoSession \/ i \notin hidden THEN live[i]
     ELSE [live[i] EXCEPT !.token = Hidden, !.user = Hidden]]

\* _identities: a start time, NULL, or no row, for every number asked about.
SeenTokens ==
  [i \in Ids |-> IF Seen[i] = NoSession THEN NoSession ELSE Seen[i].token]

Init ==
  /\ ServerInit
  /\ CommandInit
  /\ hidden \in SUBSET (Ids \ {OwnId})

\* A privilege of the command's role is granted or revoked meanwhile.
VisibilityChanges(i) ==
  /\ i # OwnId
  /\ hidden' = IF i \in hidden THEN hidden \ {i} ELSE hidden \cup {i}
  /\ UNCHANGED <<server, conn, command>>

Recheck ==
  /\ pc = "recheck"
  /\ conn = "up"
  /\ \/ /\ Seen[cur] = NoSession
        /\ Record("gone")
     \/ /\ Seen[cur] \notin {NoSession, snapshot[cur]}
        /\ Record("changed")
     \/ /\ Seen[cur] = snapshot[cur]
        /\ Hidden \in {snapshot[cur].token, snapshot[cur].user}
        /\ Record("failed")
     \/ /\ Seen[cur] = snapshot[cur]
        /\ Hidden \notin {snapshot[cur].token, snapshot[cur].user}
        /\ pc' = "terminate"
        /\ UNCHANGED <<results, pending>>
  /\ UNCHANGED <<server, conn, request, loop, clock, history>>

\* Faulty variant: the signal is addressed by pid, database and user alone.
MatchesByPid(i) ==
  /\ Seen[i] # NoSession
  /\ i # OwnId
  /\ Seen[i].user = snapshot[i].user
  /\ Seen[i].db = snapshot[i].db
  /\ Seen[i].client

\* The WHERE of the signal, which SQL NULL never satisfies.
Matches(i) ==
  /\ Seen[i] # NoSession
  /\ i # OwnId
  /\ Hidden \notin {Seen[i].token, Seen[i].user}
  /\ Seen[i].token = snapshot[i].token
  /\ Seen[i].user = snapshot[i].user
  /\ Seen[i].db = snapshot[i].db
  /\ Seen[i].client

\* The signal reaches the session that has the number now.
Signal ==
  /\ sent' = [sent EXCEPT ![cur] = @ + 1]
  /\ hits' = hits \cup {<<cur, live[cur].token>>}
  /\ UNCHANGED origin

\* pg_terminate_backend returns true.
TerminateAccepted ==
  /\ pc = "terminate"
  /\ conn = "up"
  /\ Matches(cur)
  /\ Signal
  /\ Record("requested")
  /\ UNCHANGED <<server, conn, request, loop, clock>>

\* No row matches, or pg_terminate_backend returns false.
TerminateNotAccepted ==
  /\ pc = "terminate"
  /\ conn = "up"
  /\ pc' = "reread"
  /\ UNCHANGED <<server, conn, request, loop, results, pending, clock, history>>

Reread ==
  /\ pc = "reread"
  /\ conn = "up"
  /\ \/ Seen[cur] = NoSession /\ Record("gone")
     \/ Seen[cur] \notin {NoSession, snapshot[cur]} /\ Record("changed")
     \/ Seen[cur] = snapshot[cur] /\ Record("failed")
  /\ UNCHANGED <<server, conn, request, loop, clock, history>>

\* A statement raises (timeout, permission, lost link) and did nothing.
StatementFails ==
  /\ pc \in {"recheck", "terminate", "reread"}
  /\ RecordFailure
  /\ UNCHANGED history

\* The signal was sent, and its reply is lost with the link or times out.
ReplyLost ==
  /\ pc = "terminate"
  /\ Matches(cur)
  /\ Signal
  /\ RecordFailure

Command ==
  /\ \/ SharedSteps(Seen, SeenTokens)
     \/ Recheck \/ TerminateAccepted \/ TerminateNotAccepted \/ Reread
     \/ StatementFails \/ ReplyLost
  /\ UNCHANGED hidden

Environment ==
  \/ (OtherClients \/ Tick) /\ UNCHANGED hidden
  \/ \E i \in Ids : VisibilityChanges(i)

Next == Command \/ Environment

Spec == Init /\ [][Next]_vars

\* Every statement ends: it returns, or its timeout or the link makes it raise.
FairSpec == Spec /\ WF_vars(Command)

-------------------------------------------------------------------------------
TypeOK == BaseTypeOK /\ hidden \subseteq Ids

(* The command terminates only the very sessions its target query read:   *)
(* never a later session with a reused pid, never its own.  (WHERE of the  *)
(* pg_terminate_backend statement.)                                        *)
SignalsOnlySnapshot ==
  \A h \in hits : h[1] \in Targets \ {OwnId} /\ h[2] = origin[h[1]]
===============================================================================
