----------------------------- MODULE KillContract -----------------------------
(***************************************************************************)
(* What `session kill` promises about the sessions it selected, without    *)
(* saying how it finds out: docs/postgres.md and docs/mysql.md, "session". *)
(* A request is made at most once per selected session, a verdict is final *)
(* except that "requested" may be settled by the optional wait, and a      *)
(* verdict that claims an exit is given only once the selected session has *)
(* left the server.                                                        *)
(***************************************************************************)
CONSTANT Ids                 \* session numbers (pid, PROCESSLIST_ID)

VARIABLES
  target,                    \* the sessions selected, chosen once
  selected,                  \* has the selection been made?
  left,                      \* selected sessions no longer on the server
  asked,                     \* selected sessions a request was sent for
  verdict                    \* what the report says of each session

cvars == <<target, selected, left, asked, verdict>>

Statuses == {"requested", "terminated", "gone", "changed",
             "failed", "timeout", "not_attempted"}

Init ==
  /\ target = {}
  /\ selected = FALSE
  /\ left = {}
  /\ asked = {}
  /\ verdict = [i \in Ids |-> "none"]

Select ==
  /\ ~selected
  /\ selected' = TRUE
  /\ target' \in SUBSET Ids
  /\ UNCHANGED <<left, asked, verdict>>

\* A selected session leaves the server; the same session never comes back.
Leave(i) ==
  /\ i \in target \ left
  /\ left' = left \cup {i}
  /\ UNCHANGED <<target, selected, asked, verdict>>

\* A verdict reached without sending anything.
Dismiss(i, v) ==
  /\ i \in target \ asked
  /\ verdict[i] = "none"
  /\ v \in {"gone", "changed", "failed", "not_attempted"}
  /\ v = "gone" => i \in left
  /\ verdict' = [verdict EXCEPT ![i] = v]
  /\ UNCHANGED <<target, selected, left, asked>>

\* The one request for a session; its reply may be lost.
Request(i, v) ==
  /\ i \in target \ asked
  /\ verdict[i] = "none"
  /\ v \in {"requested", "failed"}
  /\ asked' = asked \cup {i}
  /\ verdict' = [verdict EXCEPT ![i] = v]
  /\ UNCHANGED <<target, selected, left>>

\* The wait settles some of the sessions a request was sent for.
Settle ==
  /\ verdict' \in [Ids -> Statuses \cup {"none"}]
  /\ \A i \in Ids :
       verdict'[i] # verdict[i] =>
         /\ verdict[i] = "requested"
         /\ verdict'[i] \in {"terminated", "failed", "timeout"}
         /\ verdict'[i] = "terminated" => i \in left
  /\ UNCHANGED <<target, selected, left, asked>>

Next ==
  \/ Select
  \/ \E i \in Ids : Leave(i)
  \/ \E i \in Ids, v \in Statuses : Dismiss(i, v) \/ Request(i, v)
  \/ Settle

Spec == Init /\ [][Next]_cvars
===============================================================================
