------------------------------ MODULE OutputFiles ------------------------------
(***************************************************************************)
(* The commands that write a database to a file: `mysql dump`              *)
(* (mysql/dump.py), `postgres dump` (postgres/dump.py) and `database       *)
(* export` (format.py, sqlalchemy_transfer.py).  Two commands of a kind    *)
(* work in one directory, on one second's name.  A document is the list of *)
(* its tables; each entry says which command wrote it.                     *)
(*                                                                         *)
(* A dump has temporary files of its own, so their names are not modelled; *)
(* an export opens "<output>.tmp", which another export may have open: an  *)
(* open file goes by its number (inode), the number of its creator.        *)
(***************************************************************************)
EXTENDS Naturals, Sequences

CONSTANTS
  Writers,                   \* the commands
  Kinds,                     \* "mysql", "postgres", "jsonl"
  Old, NoFile,               \* a file that was there before; no file
  Tables,                    \* number of tables of a document
  MaxSeq                     \* bound: numbers appended to a name

ASSUME OutputAssumption ==
  /\ Kinds \subseteq {"mysql", "postgres", "jsonl"}
  /\ Old \notin Writers /\ NoFile \notin Writers /\ Old # NoFile
  /\ Writers \cap {"none", "old", "torn"} = {}
  /\ Tables \in Nat \ {0} /\ MaxSeq \in Nat

\* <database>-<second>[-seq][-again].<suffix>: seq is the number chosen with the
\* name, again the one added at publication.  Both commands compress, or neither.
Paths == [seq : 0 .. MaxSeq, again : 0 .. MaxSeq]
Base == [seq |-> 0, again |-> 0]
ASSUME PathsAssumption == NoFile \notin Paths

Inodes == Writers \cup {Old}
NotWritten == Old

VARIABLES
  \* the directory
  names,                     \* the file under each name
  partial,                   \* the file under each name with .tmp
  data,                      \* what the files hold
  \* the commands
  kind,                      \* the kind of command that runs
  archive,                   \* is the dump compressed?
  asked,                     \* options: output named, client used
  pc,                        \* where each command is
  target,                    \* the name it writes to
  handle,                    \* the file it has open for writing
  written,                   \* tables it has written
  temps,                     \* its temporary files: "sql", "gz", "container"
  result,                    \* "none" until it ends
  published,                 \* the name it published under
  \* the environment
  removed,                   \* has another program removed a file?
  met,                       \* names whose .tmp two exports had open at once
  stuck                      \* commands whose clean-up failed

directory == <<names, partial, data>>
command_line == <<kind, archive, asked>>
command == <<pc, target, handle, written, temps, result, published>>
environment == <<removed, met, stuck>>
vars == <<directory, command_line, command, environment>>

Options(k) ==
  [named : IF k = "mysql" THEN BOOLEAN ELSE {TRUE},
   client : CASE k = "mysql" -> {"local", "container"}
              [] k = "postgres" -> {"local", "container"}
              [] k = "jsonl" -> {"local"}]

Init ==
  /\ kind \in Kinds
  /\ archive \in IF kind = "mysql" THEN BOOLEAN ELSE {FALSE}
  /\ asked \in [Writers -> Options(kind)]
  /\ \E there \in {NoFile, Old} :
       names = [p \in Paths |-> IF p = Base THEN there ELSE NoFile]
  /\ partial = [p \in Paths |-> NoFile]
  /\ data = [i \in Inodes |-> <<>>]
  /\ pc = [w \in Writers |-> "resolve"]
  /\ target = [w \in Writers |-> Base]
  /\ handle = [w \in Writers |-> w]
  /\ written = [w \in Writers |-> 0]
  /\ temps = [w \in Writers |-> {}]
  /\ result = [w \in Writers |-> "none"]
  /\ published = [w \in Writers |-> NoFile]
  /\ removed = FALSE /\ met = {} /\ stuck = {}

-----------------------------------------------------------------------------
\* Steps that several commands share.

Goto(w, l) == pc' = [pc EXCEPT ![w] = l]

\* An exception: on to the finally clauses.
Raise(w, l) ==
  /\ Goto(w, l)
  /\ result' = [result EXCEPT ![w] = "failed"]

Careful(w) == kind = "mysql" /\ ~asked[w].named
Active(w) == pc[w] \notin {"resolve", "end"}
Whole(i) ==
  \E w \in Writers : Len(data[i]) = Tables /\ \A k \in 1 .. Tables : data[i][k] = w

\* Table after table goes to the open file, at the command's own position: what
\* another export has written there is replaced, what is missing before it is a
\* hole.
Put(d, k, entry) ==
  [j \in 1 .. (IF k > Len(d) THEN k ELSE Len(d)) |->
     IF j = k THEN entry ELSE IF j <= Len(d) THEN d[j] ELSE NotWritten]

\* pg_dump makes its file itself; mysqldump and docker cp find one, or make it.
WriteTable(w) ==
  /\ pc[w] = "write" /\ written[w] < Tables
  /\ data' = [data EXCEPT ![handle[w]] = Put(@, written[w] + 1, w)]
  /\ written' = [written EXCEPT ![w] = @ + 1]
  /\ temps' = IF kind = "postgres" /\ asked[w].client = "local"
                THEN [temps EXCEPT ![w] = @ \cup {"sql"}] ELSE temps
  /\ UNCHANGED <<names, partial, command_line, pc, target, handle, result, published,
                 environment>>

\* The client, or a statement of the export, fails.
WriteFails(w) ==
  /\ pc[w] = "write"
  /\ Raise(w, IF "container" \in temps[w] THEN "uncontain" ELSE "cleanup")
  /\ UNCHANGED <<directory, command_line, target, handle, written, temps, published,
                 environment>>

\* The end, with every local temporary file unlinked, or one that cannot be: nobody is
\* told.  An export that failed unlinks the file under its .tmp, whosever it is.
Cleanup(w) ==
  /\ pc[w] = "cleanup"
  /\ Goto(w, "end")
  /\ result' = [result EXCEPT ![w] = IF @ = "none" THEN "done" ELSE @]
  /\ \/ /\ temps' = [temps EXCEPT ![w] = @ \cap {"container"}]
        /\ partial' = IF kind = "jsonl" /\ published[w] = NoFile
                        THEN [partial EXCEPT ![target[w]] = NoFile] ELSE partial
        /\ stuck' = stuck
     \/ /\ stuck' = stuck \cup {w}
        /\ UNCHANGED <<temps, partial>>
  /\ UNCHANGED <<names, data, command_line, target, handle, written, published,
                 removed, met>>

-----------------------------------------------------------------------------
\* Dumps.

\* A default name is tried with 1, 2, ... appended until it is free; a name that
\* was given is taken as it is.
TryNextName(w) ==
  /\ pc[w] = "resolve" /\ Careful(w)
  /\ names[target[w]] # NoFile /\ target[w].seq < MaxSeq
  /\ target' = [target EXCEPT ![w].seq = @ + 1]
  /\ UNCHANGED <<directory, command_line, pc, handle, written, temps, result, published,
                 environment>>

ChooseName(w) ==
  /\ pc[w] = "resolve"
  /\ Careful(w) => names[target[w]] = NoFile
  /\ Goto(w, "prepare")
  /\ UNCHANGED <<directory, command_line, target, handle, written, temps, result,
                 published, environment>>

\* The temporary file and the client, or neither.
StartClient(w) ==
  /\ pc[w] = "prepare" /\ kind # "jsonl"
  /\ \/ /\ Goto(w, "write")
        /\ temps' = [temps EXCEPT ![w] =
                       (IF kind = "mysql" THEN {"sql"} ELSE {})
                         \cup (IF asked[w].client = "container" THEN {"container"} ELSE {})]
        /\ UNCHANGED result
     \/ /\ Raise(w, "cleanup")
        /\ UNCHANGED temps
  /\ UNCHANGED <<directory, command_line, target, handle, written, published, environment>>

\* The client ends with success, having written everything, or nothing at all.
ClientEnds(w) ==
  /\ pc[w] = "write" /\ kind # "jsonl" /\ written[w] \in {0, Tables}
  /\ Goto(w, IF asked[w].client = "container" THEN "copy" ELSE "check")
  /\ UNCHANGED <<directory, command_line, target, handle, written, temps, result,
                 published, environment>>

CopyOut(w) ==
  /\ pc[w] = "copy"
  /\ \/ /\ kind = "mysql" \/ data[w] # <<>>
        /\ Goto(w, "uncontain")
        /\ temps' = [temps EXCEPT ![w] = @ \cup {"sql"}]
        /\ UNCHANGED result
     \/ /\ Raise(w, "uncontain")
        /\ temps' \in {temps, [temps EXCEPT ![w] = @ \cup {"sql"}]}
  /\ UNCHANGED <<directory, command_line, target, handle, written, published, environment>>

\* Faulty variant: the container's copy is removed after a success only.
RemoveAfterSuccess(w) ==
  /\ pc[w] = "uncontain"
  /\ Goto(w, IF result[w] = "failed" THEN "cleanup" ELSE "check")
  /\ temps' = IF result[w] = "failed" THEN temps ELSE [temps EXCEPT ![w] = @ \ {"container"}]
  /\ UNCHANGED <<directory, command_line, target, handle, written, result, published,
                 environment>>

\* The container's copy, or the container, is removed whatever happened.  Nobody is
\* told when that fails, unless it is docker that cannot be started: run_command
\* makes a ClickException of it, which the finally clause does not suppress.
RemoveContainerFile(w) ==
  /\ pc[w] = "uncontain"
  /\ \/ /\ temps' = [temps EXCEPT ![w] = @ \ {"container"}]
        /\ stuck' = stuck
     \/ /\ stuck' = stuck \cup {w}
        /\ UNCHANGED temps
  /\ \/ Goto(w, IF result[w] = "failed" THEN "cleanup" ELSE "check") /\ UNCHANGED result
     \/ w \in stuck' /\ Raise(w, "cleanup")
  /\ UNCHANGED <<directory, command_line, target, handle, written, published, removed, met>>

\* The dump must be there; a MySQL dump must not be empty.
CheckDump(w) ==
  /\ pc[w] = "check"
  /\ IF "sql" \in temps[w] /\ data[w] # <<>>
       THEN Goto(w, IF archive THEN "compress" ELSE "publish") /\ UNCHANGED result
       ELSE Raise(w, "cleanup")
  /\ UNCHANGED <<directory, command_line, target, handle, written, temps, published,
                 environment>>

Compress(w) ==
  /\ pc[w] = "compress"
  /\ temps' = [temps EXCEPT ![w] = @ \cup {"gz"}]
  /\ \/ Goto(w, "publish") /\ UNCHANGED result
     \/ Raise(w, "cleanup")
  /\ UNCHANGED <<directory, command_line, target, handle, written, published, environment>>

Source(w) == IF archive THEN "gz" ELSE "sql"

\* os.replace: the name that was given shows the new file, whatever was there.
Replace(w) ==
  /\ pc[w] = "publish" /\ ~Careful(w)
  /\ names' = [names EXCEPT ![target[w]] = w]
  /\ published' = [published EXCEPT ![w] = target[w]]
  /\ temps' = [temps EXCEPT ![w] = @ \ {Source(w)}]
  /\ Goto(w, IF kind = "mysql" THEN "size" ELSE "cleanup")
  /\ UNCHANGED <<partial, data, command_line, target, handle, written, result, environment>>

\* Faulty variant: a default name is checked when it is chosen, and then replaced.
LinkOver(w) ==
  /\ pc[w] = "publish" /\ Careful(w)
  /\ names' = [names EXCEPT ![target[w]] = w]
  /\ published' = [published EXCEPT ![w] = target[w]]
  /\ Goto(w, "unlink")
  /\ UNCHANGED <<partial, data, command_line, target, handle, written, temps, result,
                 environment>>

\* os.link: a default name is never taken from another file.
Link(w) ==
  /\ pc[w] = "publish" /\ Careful(w)
  /\ names[target[w]] = NoFile
  /\ names' = [names EXCEPT ![target[w]] = w]
  /\ published' = [published EXCEPT ![w] = target[w]]
  /\ Goto(w, "unlink")
  /\ UNCHANGED <<partial, data, command_line, target, handle, written, temps, result,
                 environment>>

LinkNextName(w) ==
  /\ pc[w] = "publish" /\ Careful(w)
  /\ names[target[w]] # NoFile /\ target[w].again < MaxSeq
  /\ target' = [target EXCEPT ![w].again = @ + 1]
  /\ UNCHANGED <<directory, command_line, pc, handle, written, temps, result, published,
                 environment>>

PublishFails(w) ==
  /\ pc[w] = "publish"
  /\ Raise(w, "cleanup")
  /\ UNCHANGED <<directory, command_line, target, handle, written, temps, published,
                 environment>>

\* Between the link and this step the dump has two names.
UnlinkSource(w) ==
  /\ pc[w] = "unlink"
  /\ \/ /\ Goto(w, "size")
        /\ temps' = [temps EXCEPT ![w] = @ \ {Source(w)}]
        /\ UNCHANGED result
     \/ Raise(w, "cleanup") /\ UNCHANGED temps
  /\ UNCHANGED <<directory, command_line, target, handle, written, published, environment>>

CheckSize(w) ==
  /\ pc[w] = "size"
  /\ IF names[published[w]] # NoFile
       THEN Goto(w, "cleanup") /\ UNCHANGED result
       ELSE Raise(w, "cleanup")
  /\ UNCHANGED <<directory, command_line, target, handle, written, temps, published,
                 environment>>

-----------------------------------------------------------------------------
\* Exports.

\* The connection is prepared, the schemas are read, and "<output>.tmp" is opened
\* with mode "w": a file that is there is cut to nothing, also under another export.
OpenPartial(w) ==
  /\ pc[w] = "prepare" /\ kind = "jsonl"
  /\ LET there == partial[target[w]]
         inode == IF there = NoFile THEN w ELSE there
     IN /\ partial' = [partial EXCEPT ![target[w]] = inode]
        /\ handle' = [handle EXCEPT ![w] = inode]
        /\ data' = [data EXCEPT ![inode] = <<>>]
  /\ met' = IF \E v \in Writers \ {w} : pc[v] \in {"write", "cleanup"} /\ target[v] = target[w]
              THEN met \cup {target[w]} ELSE met
  /\ Goto(w, "write")
  /\ UNCHANGED <<names, command_line, target, written, temps, result, published,
                 removed, stuck>>

\* No connection, no tables: nothing has been opened.  A .tmp that cannot be opened
\* is unlinked like one that was.
ExportRefused(w) ==
  /\ pc[w] = "prepare" /\ kind = "jsonl"
  /\ Goto(w, "end") \/ Goto(w, "cleanup")
  /\ result' = [result EXCEPT ![w] = "failed"]
  /\ UNCHANGED <<directory, command_line, target, handle, written, temps, published,
                 environment>>

\* Closed and renamed: the file under .tmp, whosever it is; if another export has
\* renamed or unlinked it, this one fails.
PublishExport(w) ==
  /\ pc[w] = "write" /\ kind = "jsonl" /\ written[w] = Tables
  /\ IF partial[target[w]] # NoFile
       THEN /\ names' = [names EXCEPT ![target[w]] = partial[target[w]]]
            /\ partial' = [partial EXCEPT ![target[w]] = NoFile]
            /\ published' = [published EXCEPT ![w] = target[w]]
            /\ Goto(w, "rollback")
            /\ UNCHANGED result
       ELSE /\ Raise(w, "cleanup")
            /\ UNCHANGED <<names, partial, published>>
  /\ UNCHANGED <<data, command_line, target, handle, written, temps, environment>>

\* The read transaction is rolled back after the publication, and may fail.
Rollback(w) ==
  /\ pc[w] = "rollback"
  /\ \/ Goto(w, "cleanup") /\ UNCHANGED result
     \/ Raise(w, "cleanup")
  /\ UNCHANGED <<directory, command_line, target, handle, written, temps, published,
                 environment>>

-----------------------------------------------------------------------------
\* The environment.

\* For an export Ctrl-C is the same: "except Exception" does not see it.  A dump
\* takes it as a failure of the step it is in.
Killed(w) ==
  /\ Active(w)
  /\ Goto(w, "end")
  /\ result' = [result EXCEPT ![w] = "killed"]
  /\ UNCHANGED <<directory, command_line, target, handle, written, temps, published,
                 environment>>

\* Another program removes a file; once.
FileRemoved(p) ==
  /\ ~removed /\ names[p] # NoFile
  /\ removed' = TRUE
  /\ names' = [names EXCEPT ![p] = NoFile]
  /\ UNCHANGED <<partial, data, command_line, command, met, stuck>>

Dump(w) ==
  \/ TryNextName(w) \/ ChooseName(w) \/ StartClient(w) \/ ClientEnds(w) \/ CopyOut(w)
  \/ RemoveContainerFile(w) \/ CheckDump(w) \/ Compress(w) \/ Replace(w) \/ Link(w)
  \/ LinkNextName(w) \/ PublishFails(w) \/ UnlinkSource(w) \/ CheckSize(w)
Export(w) == OpenPartial(w) \/ ExportRefused(w) \/ PublishExport(w) \/ Rollback(w)
Writer(w) == Dump(w) \/ Export(w) \/ WriteTable(w) \/ WriteFails(w) \/ Cleanup(w)

Next ==
  \/ \E w \in Writers : Writer(w) \/ Killed(w)
  \/ \E p \in Paths : FileRemoved(p)

Spec == Init /\ [][Next]_vars

-----------------------------------------------------------------------------
\* Properties.

\* What each name shows: the document of a command, or something torn.
Shows(p) ==
  IF names[p] = NoFile THEN "none"
  ELSE IF names[p] = Old THEN "old"
  ELSE IF Whole(names[p]) THEN data[names[p]][1] ELSE "torn"

Status(w) ==
  IF pc[w] = "end" THEN result[w]
  ELSE IF published[w] # NoFile THEN "published" ELSE "working"

Promise == INSTANCE Publication WITH
  docs <- [p \in Paths |-> Shows(p)],
  status <- [w \in Writers |-> Status(w)],
  shared <- met,
  careful <- {w \in Writers : Careful(w)},
  late <- {w \in Writers : Careful(w) \/ kind = "jsonl"}

\* However two commands of a kind interleave, fail or are killed, every name goes
\* in one step from one whole document to another, a default name of a MySQL dump
\* is never taken from an existing file, success is reported only of a document
\* that was published, and failure only when none was -- except by a default dump
\* whose second name would not go away, by an export whose ROLLBACK failed, or for
\* a file another program removed.  Exports that met on one .tmp are excepted:
\* publish_dump, dump_database, open_document_writer.
ImplementsPublication == Promise!Spec

\* When all commands have ended, none of them killed and no unlink refused, no
\* temporary file is left, neither beside the output nor in a container: the
\* finally clauses of dump_database, dump_with_mapped_container, dump_with_docker
\* and the except clauses of open_document_writer.
NoLeftovers ==
  (stuck = {} /\ \A w \in Writers : pc[w] = "end" /\ result[w] # "killed") =>
    (\A w \in Writers : temps[w] = {}) /\ \A p \in Paths : partial[p] = NoFile
===============================================================================
