-------------------------------- MODULE Restore --------------------------------
(***************************************************************************)
(* `mysql restore` and `postgres restore`: restore_database, the preflight *)
(* and the cleaning of src/dbtalk/{mysql,postgres}/restore.py.  The MySQL  *)
(* client is fed through CommandPipe; pg_restore reads its file by itself. *)
(*                                                                         *)
(* The input is opened anew by each step that reads it.  The target is a   *)
(* live database; nothing here is one transaction but PostgreSQL's clean.  *)
(***************************************************************************)
EXTENDS CommandPipe, FiniteSets

CONSTANTS
  Objects,        \* names of tables, views, routines: also the statements that make them
  Files,          \* what the input can be: [sound, gz : BOOLEAN, text : sequence of statements]
  NoFile,
  Engines,
  FirstObjects,   \* bound: sets of objects that the target has at first
  MaxActs         \* bound: acts of other processes

\* "use" is a USE alone on its line, of the database of the dump; "useUnseen"
\* one with another statement or a comment on its line, or in /*! */;
\* "useTarget" selects the target; "qualified" names an object of the other
\* database in full; "lifecycle" creates or drops a database; "bad" is one the
\* server refuses.
Words == {"use", "useUnseen", "useTarget", "qualified", "lifecycle", "bad", "quit"}
Statements == Objects \cup Words

ASSUME StatementsAssumption ==
  /\ Chunks = Statements /\ Quit = "quit" /\ IsFiniteSet(Objects)
  /\ Objects \cap Words = {}
ASSUME FilesAssumption ==
  /\ NoFile \notin Files \cup Seq(Statements) /\ Engines \subseteq {"mysql", "postgres"} /\ MaxActs \in Nat
  /\ FirstObjects \subseteq SUBSET Objects
  /\ \A f \in Files : f.text \in Seq(Statements) /\ f.sound \in BOOLEAN /\ f.gz \in BOOLEAN

VARIABLES
  engine, clean,  \* the command and its option
  path,           \* the file at the path of the input, or NoFile
  target, other,  \* [Objects -> State]: the target database, and the one the dump names
  exists,         \* the target database exists
  acts,
  pc,
  copied,         \* the command made a copy of the input that it restores from
  copy,           \* its statements
  todo,           \* objects yet to drop, or items yet to restore
  session,        \* the database the client's session is in
  (* history *)
  checked,        \* the statements the preflight has passed, or NoFile
  dropped         \* the command has dropped an object

command == <<engine, clean, copied, copy, todo>>
databases == <<target, other, exists>>
outside == <<path, acts>>
history == <<checked, dropped>>
vars == <<engine, clean, path, target, other, exists, acts, pc, copied, copy, todo, session,
          checked, dropped, pipes>>

\* An object: never there, from before, restored, of another process, or gone.
State == {"none", "old", "restored", "theirs", "gone"}
There == {"old", "restored", "theirs"}

Has(text, statement) == \E i \in DOMAIN text : text[i] = statement

\* The archive formats differ: a dump of SQL text, or a list of items.
Fits(f) == engine = "mysql" \/ (~f.gz /\ \A i \in DOMAIN f.text : f.text[i] \in Objects \cup {"bad"})

Init ==
  /\ engine \in Engines /\ clean \in BOOLEAN
  /\ path \in {f \in Files : Fits(f)} \cup {NoFile}
  /\ \E S \in FirstObjects : target = [o \in Objects |-> IF o \in S THEN "old" ELSE "none"]
  /\ other = [o \in Objects |-> "old"]
  /\ exists \in BOOLEAN
  /\ acts = 0
  /\ pc = "start"
  /\ copied = FALSE /\ copy = <<>> /\ todo = {} /\ session = "target"
  /\ checked = NoFile /\ dropped = FALSE
  /\ PipeInit

Stop(how) ==
  /\ pc' = how
  /\ UNCHANGED <<command, databases, outside, history, session, pipes>>

-------------------------------------------------------------------------------
(* MySQL.                                                                  *)

\* Faulty variant: the copy has the USE statements of the dump.
RebasedAsIs(text) == text

\* rebase_dump_input: the lines it writes instead.  MYSQL_USE_STATEMENT is to
\* match a whole line, so it finds no other USE and no name of a database.
Rebased(text) == [i \in DOMAIN text |-> IF text[i] = "use" THEN "useTarget" ELSE text[i]]

\* Faulty variant: the last statement of the input is not looked at.
LifecycleUnfinished(text) == \E i \in DOMAIN text : i < Len(text) /\ text[i] = "lifecycle"

\* found_database_ddl of the scanner, for input that it reads as the server does.
Lifecycle(text) == Has(text, "lifecycle")

\* The file exists; unpack_gzip_input copies what is compressed, and
\* rebase_dump_input what has a USE statement; neither writes to the target.
Preflight ==
  /\ engine = "mysql" /\ pc = "start"
  /\ path # NoFile
  /\ path.sound /\ ~Lifecycle(path.text)
  /\ copied' = (path.gz \/ Has(path.text, "use"))
  /\ copy' = IF copied' THEN Rebased(path.text) ELSE <<>>
  /\ checked' = Rebased(path.text)
  /\ pc' = "verify"
  /\ UNCHANGED <<engine, clean, todo, databases, outside, dropped, session, pipes>>

\* SELECT 1 in the target database.
Verify ==
  /\ pc = "verify" /\ exists
  /\ pc' = IF clean THEN "list" ELSE "restore"
  /\ UNCHANGED <<command, databases, outside, history, session, pipes>>

\* MYSQL_CLEAN_OBJECTS_SQL
Listing == {o \in Objects : target[o] \in There}

\* The first client of _clean_target_database lists the objects.
ListObjects ==
  /\ pc = "list" /\ exists
  /\ todo' = Listing
  /\ pc' = "drop"
  /\ UNCHANGED <<engine, clean, copied, copy, databases, outside, history, session, pipes>>

\* The second one drops them: each DROP commits by itself.
DropObject ==
  /\ pc = "drop" /\ exists
  /\ \E o \in todo :
       /\ target[o] \in There
       /\ target' = [target EXCEPT ![o] = "none"]
       /\ todo' = todo \ {o}
  /\ dropped' = TRUE
  /\ UNCHANGED <<engine, clean, copied, copy, other, exists, outside, pc, checked, session, pipes>>

CleanEnds ==
  /\ pc = "drop" /\ todo = {}
  /\ pc' = "restore"
  /\ UNCHANGED <<command, databases, outside, history, session, pipes>>

StartRestore ==
  /\ engine = "mysql" /\ pc = "restore"
  /\ StartClient
  /\ pc' = "stream"
  /\ UNCHANGED <<command, databases, outside, history, session>>

\* The feeder opens the copy, or the path again.
OpenInput ==
  /\ pc = "stream"
  /\ IF copied THEN Open(copy) ELSE path # NoFile /\ Open(path.text)
  /\ UNCHANGED <<command, databases, outside, history, session, pc>>

FeederStep ==
  /\ pc = "stream"
  /\ Feeder
  /\ UNCHANGED <<command, databases, outside, history, session, pc>>

ReaderStep ==
  /\ pc = "stream"
  /\ \E s \in Streams : Reader(s)
  /\ UNCHANGED <<command, databases, outside, history, session, pc>>

\* What the client executes; a dump replaces the objects it makes.
Make ==
  /\ NextChunk \in Objects
  /\ IF session = "target"
       THEN exists /\ target' = [target EXCEPT ![NextChunk] = "restored"] /\ UNCHANGED other
       ELSE other' = [other EXCEPT ![NextChunk] = "restored"] /\ UNCHANGED target
  /\ UNCHANGED <<exists, session>>

Use ==
  /\ NextChunk \in {"use", "useUnseen", "useTarget"}
  /\ session' = IF NextChunk = "useTarget" THEN "target" ELSE "other"
  /\ UNCHANGED databases

ChangeElsewhere ==
  /\ NextChunk = "qualified"
  /\ \E o \in Objects : other' = [other EXCEPT ![o] = "restored"]
  /\ UNCHANGED <<target, exists, session>>

ChangeDatabases ==
  /\ NextChunk = "lifecycle"
  /\ other' = [o \in Objects |-> "none"]
  /\ UNCHANGED <<target, exists, session>>

Execute ==
  /\ pc = "stream"
  /\ Take
  /\ Make \/ Use \/ ChangeElsewhere \/ ChangeDatabases
  /\ UNCHANGED <<command, outside, history, pc>>

\* A statement that the server refuses, or a connection that finds no target.
Refused ==
  /\ Active
  /\ (taken < written /\ NextChunk = "bad") \/ ~exists
  /\ Abort

ClientGoesOn ==
  /\ pc = "stream"
  /\ TakeQuit \/ Emit \/ (exists /\ ExitAtEnd) \/ Refused
  /\ UNCHANGED <<command, databases, outside, history, session, pc>>

\* What it may do, and may as well not do.
ClientSurprises ==
  /\ pc = "stream"
  /\ HasMessage \/ Abort
  /\ UNCHANGED <<command, databases, outside, history, session, pc>>

MainStep ==
  /\ pc = "stream"
  /\ WaitClient \/ JoinFeeder \/ JoinReaders
  /\ UNCHANGED <<command, databases, outside, history, session, pc>>

RestoreEnds ==
  /\ pc = "stream" /\ main \in {"success", "failed"}
  /\ Stop(IF main = "success" THEN "done" ELSE "failed")

-------------------------------------------------------------------------------
(* PostgreSQL.                                                             *)

\* pg_restore --list, of the file or of a copy in the container, which is
\* removed: it reads the table of contents only.
ValidateArchive ==
  /\ engine = "postgres" /\ pc = "start"
  /\ path # NoFile
  /\ path.sound
  /\ checked' = path.text
  /\ pc' = "copy"
  /\ UNCHANGED <<command, databases, outside, dropped, session, pipes>>

\* A mapped container gets another copy; the other clients read the path.
CopyArchive ==
  /\ pc = "copy"
  /\ \/ /\ path # NoFile
        /\ copied' = TRUE /\ copy' = path.text
     \/ UNCHANGED <<copied, copy>>
  /\ pc' = IF clean THEN "clean" ELSE "read"
  /\ UNCHANGED <<engine, clean, todo, databases, outside, history, session, pipes>>

\* POSTGRES_CLEAN_SQL
Emptied == [o \in Objects |-> IF target[o] \in There THEN "none" ELSE target[o]]

\* One transaction; its reply may be lost.
CleanDatabase ==
  /\ pc = "clean" /\ exists
  /\ dropped' = (dropped \/ target # Emptied)
  /\ target' = Emptied
  /\ pc' \in {"read", "failed"}
  /\ UNCHANGED <<command, other, exists, outside, checked, session, pipes>>

\* pg_restore opens its input and connects.
ReadArchive ==
  /\ pc = "read" /\ exists
  /\ IF copied THEN doc' = copy ELSE path # NoFile /\ path.sound /\ doc' = path.text
  /\ todo' = DOMAIN doc'
  /\ pc' = "items"
  /\ UNCHANGED <<engine, clean, copied, copy, databases, outside, history, session,
                 threads, written, taken, client, code, owes, output, emitted, reader, main>>

\* In any order that --jobs allows; an object must not be there already.
RestoreItem ==
  /\ pc = "items" /\ exists
  /\ \E i \in todo :
       /\ doc[i] \in Objects /\ target[doc[i]] \notin There
       /\ target' = [target EXCEPT ![doc[i]] = "restored"]
       /\ todo' = todo \ {i}
  /\ UNCHANGED <<engine, clean, copied, copy, other, exists, outside, history, session, pc, pipes>>

ArchiveRestored ==
  /\ pc = "items" /\ todo = {}
  /\ Stop("done")

-------------------------------------------------------------------------------
\* A check refuses, a client cannot be found or started, a client fails.
\* While the client is fed, its failures are those of CommandPipe.
Fail ==
  /\ pc \notin {"done", "failed", "stream"}
  /\ Stop("failed")

Sequential ==
  \/ Preflight \/ Verify \/ ListObjects \/ DropObject \/ CleanEnds
  \/ StartRestore \/ RestoreEnds
  \/ ValidateArchive \/ CopyArchive \/ CleanDatabase \/ ReadArchive \/ RestoreItem
  \/ ArchiveRestored \/ Fail

Command == Sequential \/ OpenInput \/ FeederStep \/ ReaderStep \/ Execute
           \/ ClientGoesOn \/ ClientSurprises \/ MainStep

\* Other processes and sessions; after the client has ended nothing reads what
\* they change, nor the path once it is open.
Others ==
  /\ acts < MaxActs /\ pc \notin {"done", "failed"} /\ client # "exited"
  /\ acts' = acts + 1
  /\ \/ /\ doc = <<>>
        /\ path' \in {f \in Files : Fits(f)} \cup {NoFile}
        /\ UNCHANGED databases
     \/ /\ exists
        /\ \E o \in Objects :
             \/ target[o] \notin There /\ target' = [target EXCEPT ![o] = "theirs"]
             \/ target[o] \in There /\ target' = [target EXCEPT ![o] = "gone"]
        /\ UNCHANGED <<path, other, exists>>
     \/ /\ exists /\ exists' = FALSE
        /\ target' = [o \in Objects |-> "gone"]
        /\ UNCHANGED <<path, other>>
  /\ UNCHANGED <<command, pc, history, session, pipes>>

Next == Command \/ Others

Spec == Init /\ [][Next]_vars

\* Threads run, and a client that is given input and room for its output goes
\* on; it is not assumed to fail.
FairSpec ==
  /\ Spec
  /\ WF_vars(Sequential) /\ WF_vars(OpenInput \/ FeederStep)
  /\ \A s \in Streams : WF_vars(ReaderStep /\ Reader(s))
  /\ WF_vars(Execute \/ ClientGoesOn) /\ WF_vars(MainStep)

-------------------------------------------------------------------------------
(* The command drops something only under --clean, and only for an input   *)
(* that was read before, to its end, and found fit to be restored.         *)
NothingDroppedUnchecked ==
  dropped => clean /\ checked # NoFile /\ ~Has(checked, "lifecycle")

\* What a restore that ends where the input ends, or at "quit", has made.
Made(text) ==
  {text[i] : i \in {j \in DOMAIN text : \A k \in 1 .. j : text[k] # "quit"}} \cap Objects

\* A restore of it may leave the target.
Leaves(text) == Has(text, "use") \/ Has(text, "useUnseen")

(* After a success all objects of the input are in the target, except what *)
(* others changed since, and unless the input leads the client to another  *)
(* database (a USE the preflight does not see, or a file put at the path   *)
(* after it); with --clean nothing is left of before.  If a statement is   *)
(* refused, the command has failed.                                        *)
SuccessMeansRestored ==
  pc = "done" =>
    /\ ~Leaves(doc) => \A o \in Made(doc) : target[o] \in {"restored", "theirs", "gone"}
    /\ clean => \A o \in Objects : target[o] # "old"
    /\ ~Has(doc, "bad") \/ Has(doc, "quit")

\* Objects made after a USE that was not rewritten and before the next that was.
LedAway(text) ==
  {text[j] : j \in {j \in DOMAIN text : \E i \in 1 .. j - 1 :
     text[i] = "useUnseen" /\ \A k \in i .. j : text[k] # "useTarget"}} \cap Objects

(* Another database is touched in three ways only: by a statement that     *)
(* names it in full, by the objects that follow a USE which is not alone   *)
(* on its line, up to the next rewritten one, and by a file that was put   *)
(* at the path after its preflight and is read from there                  *)
(* (rebase_dump_input, found_database_ddl; docs/mysql.md:145 says that a   *)
(* top-level USE is rewritten, whatever its line).                         *)
OnlyTargetChanges ==
  \A o \in Objects : other[o] # "old" =>
    \/ ~copied /\ checked # doc
    \/ Has(doc, "qualified")
    \/ o \in LedAway(doc)

(* Every restore ends.                                                     *)
Terminates == <>(pc \in {"done", "failed"})
===============================================================================
