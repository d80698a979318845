------------------------------ MODULE Publication ------------------------------
(***************************************************************************)
(* What the commands that write a document to a file promise of the file   *)
(* (docs/requirement/20260828-mysql-dump-restore-production-readiness.md,  *)
(* 67-68): a name changes in one step from one whole document to another,  *)
(* a command that says it is done has published, and one that fails has    *)
(* not -- unless it still had something to do after that, and failed then. *)
(* Exports that met on one temporary file are promised nothing of it.      *)
(***************************************************************************)
CONSTANTS Writers, Paths

VARIABLES
  docs,                      \* what each path shows: "none", "old", "torn" or a writer's document
  status,                    \* how far each command has come
  shared,                    \* paths whose temporary file two exports have used at once
  careful,                   \* commands that only ever make new names
  late                       \* commands with work to do after their publication

fixed == <<careful, late>>
pvars == <<docs, status, shared, fixed>>

Init ==
  /\ docs \in [Paths -> {"none", "old"}]
  /\ status = [w \in Writers |-> "working"]
  /\ shared = {}
  /\ careful \in SUBSET Writers
  /\ late \in SUBSET Writers

Publish(w, p) ==
  /\ status[w] = "working"
  /\ w \in careful => docs[p] = "none"
  /\ status' = [status EXCEPT ![w] = "published"]
  /\ docs' = [docs EXCEPT ![p] = w]
  /\ UNCHANGED <<shared, fixed>>

\* What two exports wrote through one temporary file.
PublishShared(w, p) ==
  /\ status[w] = "working" /\ p \in shared
  /\ status' = [status EXCEPT ![w] = "published"]
  /\ \E d \in Writers \cup {"torn"} : docs' = [docs EXCEPT ![p] = d]
  /\ UNCHANGED <<shared, fixed>>

\* The other export goes on writing to what is published already.
Interfere(p) ==
  /\ p \in shared /\ docs[p] \in Writers \cup {"torn"}
  /\ \E d \in Writers \cup {"torn"} : docs' = [docs EXCEPT ![p] = d]
  /\ UNCHANGED <<status, shared, fixed>>

Report(w) ==
  /\ status[w] = "published"
  /\ status' = [status EXCEPT ![w] = "done"]
  /\ UNCHANGED <<docs, shared, fixed>>

Fail(w) ==
  /\ \/ status[w] = "working"
     \/ status[w] = "published" /\ (w \in late \/ \A p \in Paths : docs[p] # w)
  /\ status' = [status EXCEPT ![w] = "failed"]
  /\ UNCHANGED <<docs, shared, fixed>>

Stop(w) ==
  /\ status[w] \in {"working", "published"}
  /\ status' = [status EXCEPT ![w] = "killed"]
  /\ UNCHANGED <<docs, shared, fixed>>

Meet(p) ==
  /\ shared' = shared \cup {p}
  /\ UNCHANGED <<docs, status, fixed>>

\* Another program removes a file.
Remove(p) ==
  /\ docs' = [docs EXCEPT ![p] = "none"]
  /\ UNCHANGED <<status, shared, fixed>>

Next ==
  \/ \E w \in Writers : Report(w) \/ Fail(w) \/ Stop(w)
  \/ \E w \in Writers, p \in Paths : Publish(w, p) \/ PublishShared(w, p)
  \/ \E p \in Paths : Interfere(p) \/ Meet(p) \/ Remove(p)

Spec == Init /\ [][Next]_pvars
===============================================================================
