# A verification model of dbtalk

dbtalk is a command line tool for PostgreSQL, MySQL and SQLite: it moves tables
through JSONL files, dumps and restores databases, lists and kills sessions, and
administers databases, users, roles and ownership. Every command is a process of
its own. What makes it hard is therefore not threads of its own making but
everything it shares with others while it works: a database server whose other
clients come and go between any two statements, files that other invocations
replace or delete, connections that break after a statement took effect.

The modules here are translated from the code under `src/` (the package is
`src/src/dbtalk`, the maintenance scripts are `src/scripts`). `PROJECT.json` maps
each definition to the lines it stands for.

## 1. Inventory

| Component | State it keeps | Operations | Hard behaviour | What makes it correct | Module |
|---|---|---|---|---|---|
| Session kill, PostgreSQL (`postgres/session.py`, `database/sessions.py`) | targets as read, a status per target, identities to confirm, a deadline | select, recheck, conditional `pg_terminate_backend`, reread, poll for exits | pids are reused, privileges change, the link breaks after a signal, replies come late | only selected sessions are signalled, once; verdicts are true; the command ends | `PostgresSession`, `Sessions`, `KillContract` |
| Session kill, MySQL (`mysql/session.py`) | the same | select, recheck, `KILL n`, reread after error 1094, poll | recheck and `KILL` are two statements; sessions change database and account | the window is exactly that one; the rest as above | `MysqlSession`, `Sessions`, `KillContract` |
| Session listing | none | one SELECT | none | one row per session | not modelled |
| Batch backups (`scripts/backup-db.py`) | backups, manifests | `backup`, `--resume`, `--continue-on-error`, `clean` | runs killed anywhere, resumed, overlapping, beside a cleaner; names built by joining | no backup lost, manifest true, newest kept | `Backup` |
| JSONL table order (`database/schema.py`) | remaining parents, ready tables, result | selection, `order_table_names` | self references, cycles, partial selections, a target with other keys | parents first; real cycles only; what was exported can be imported | `TableOrder`, `TableSelection` |
| JSONL import (`database/sqlalchemy_transfer.py`, `format.py`) | position in the file, preview, batch, transaction | first pass, preflight, second pass, commit per table, verify | the file is opened twice; failing statements; other writers; three engines | tables whole or untouched, parents first, success means written | `JsonlImport`, `TableSelection` |
| JSONL export (`database/sqlalchemy_transfer.py`, `format.py`) | temporary file, table under way | write header, blocks, replace | fixed name of the temporary file; another export of the same path; tables read one after another | the file at the path is always whole | `OutputFiles`, `Publication`; order in `TableOrder` |
| JSONL values | none | encode, decode by column type | time zones, precisions, decimals | decoding inverts encoding | not modelled |
| MySQL and PostgreSQL dump (`mysql/dump.py`, `postgres/dump.py`) | temporary files here and in the container, output | run client, copy, compress, publish | a free name chosen before; client, copy or unlink fails | names change from one whole document to another; nothing is left | `OutputFiles`, `Publication`; a step of `Backup` |
| MySQL client pipes (`mysql/client.py`) | three threads, a child | feed, drain, wait | threads waiting on one another, partial input | ends; success means all input was read | `CommandPipe` |
| Restore (`mysql/restore.py`, `postgres/restore.py`) | temporary input, target database | validate, clean, restore | failure after the target was emptied | nothing dropped for an input that cannot be read; success means it is there; other databases touched only where the input names one | `Restore` |
| Scanner of MySQL dumps (`mysql/restore.py`, `SqlLifecycleScanner`) | automaton over bytes, last two words | feed, finish | its state must follow the server's over quotes, comments, lines | no lifecycle statement passes, no string is refused | `SqlScanner` |
| Ownership transfer (`postgres/owner_transfer.py`) | inventory, edges, plan | plan, lock, recheck, ALTER, verify, commit | unlocked objects change meanwhile, owners that follow others | commits only what was planned | `OwnerTransfer` |
| Native reassignment (`postgres/owner.py`) | none | two counts, `REASSIGN OWNED` | shared objects counted before | nothing shared without the option | not modelled |
| Users, roles, grants (`mysql/user.py`, `postgres/role.py`) | hosts still to change | create, enable, disable, password, drop, grant, revoke | loops of autocommitted statements; the own login changes; other administrators; statements that only warn | reports are true; at most one account unreported, with a first part of its statements done; own account kept | `Accounts` |
| Database create and drop | none | check, then one statement | check then act | own and system databases are safe | not modelled |
| Installer (`scripts/install.py`) | plans per client, staging and backup directories | check, list, apply, remove for three clients | plans made before any is executed; programs that do nothing; killed between two renames | reports are true; no plugin or skill lost | `Installer` |
| Connections, DSN, settings, command line, scripts `version-calc`, `password-gen` | configuration | parse, connect, render | none that a model reaches | | not modelled |

Components interact through calls within one process (the command line calls one
operation), and across processes through the file system and the database
server alone: `backup` starts the dump commands as child processes and reads
their files; an export's file is the import's input; a session killed by one
command may be another command's connection.

## 2. Modules

`Sessions` holds what `session kill` has in common for both engines, together
with the database server as an external component. `PostgresSession` and
`MysqlSession` extend it with the statements that differ; `KillContract` is the
abstract specification both implement. `SessionsProofs`, `PostgresSessionProofs`
and `MysqlSessionProofs` hold the theorems. `OutputFiles` implements the abstract
specification `Publication`, as `OutputFilesProofs` shows. `Restore` extends
`CommandPipe`; the theorems about both are in `RestoreProofs`. `AdministrationProofs`
has the theorems about `Accounts` and `OwnerTransfer`, the commands of an
administrator, and `ScriptProofs` those about `Backup` and `Installer`, the two
scripts; the modules of such a pair do not refer to each other. `TableSelection`
(`select_transfer_preview`) is used by `TableOrder` and by `JsonlImport`, and `JsonlProofs`
has the theorems about all three. `SqlScanner` stands alone. `MC*` modules and the `.cfg` files are
instances for TLC. Operators under the words "Faulty variant" are deliberately wrong forms of
the definition that follows them; they are used by no specification and serve
to show that a property notices such a mistake.

### Sessions, PostgresSession, MysqlSession

One step of the model is one statement of the command, or one act of another
client, so any number of other clients' acts fit between two statements.

* `live` is the server: which session has each number, with a `token` that
  tells a session from a later one with the same number (`backend_start`,
  `THREAD_ID`). Tokens never repeat: the model takes from the servers that a
  start time or thread number identifies a session. `SessionStarts` may reuse any
  free number.
* `SelectTargets`, `SelectRefused`, `SelectFails`: the target query, an `--id`
  that matches nothing or is the command's own, an error before the loop.
* `NextTarget`, `Recheck`, the engine's kill, `Reread`, `Record`,
  `RecordFailure`: `_kill_one` and the loop of `kill_sessions`. `StatementFails`
  raises without effect, `ReplyLost` raises after the kill took effect. `healthy`
  becomes FALSE if the link was lost, and `SkipTarget` reports the targets left.
* `EndBatch`, `PollAgain`, `ServerAnswers`, `AnswerInTime`, `AnswerTooLate`,
  `RefreshFails`, `WaitOver`: `wait_for_sessions`. The reply is evaluated by the
  server in one step and looked at in a later one. `now` counts ticks since the
  wait began; `Tick` may happen at any point of it.
* PostgreSQL: `hidden` says whose identity the role may not see; such columns are
  NULL in what the command reads. `Matches` is the WHERE of the signal.
* MySQL: `SessionMoves` changes database, account or kind of a session that keeps
  its number and thread. `raced` is a history variable: the current target
  changed after its recheck.

Session processes are never forced to act: the properties hold whether clients
leave or not.

### Backup

Runs and cleaners are processes over one directory. `disk` maps every possible
output file to nothing or to a backup with its author, its target and whether it
is empty; `manifests` maps batch names to nothing, a truncated file or the
outcomes. The temporary file of a dump is local to its run (its name is random).
Every test, stat, dump, publication, truncation and unlink is a step, so kills
and other processes act between them. `Earlier` puts complete batches on the
disk before. `Overlap` says whether a run may start while another one works,
`Resumes` whether runs may be given `--resume`, which accepts any well-formed
stamp, also of a batch that never was. A
process that has ended forgets what it knew (`FreshRun`, `FreshCleaner`).
Directories are named by joining connection and database; two of the targets
share one, so the cleaner counts their backups together, as the code does.
Time moves one second per `Tick`; `MaxSeq` bounds the sequence number, which in
the code is unbounded: a run that would exceed it waits.

### OutputFiles, Publication

Two commands of one kind, a `mysql dump`, a `postgres dump` or a `database export`,
work on the name of one second in one directory. `names` and `partial` are the
directory entries, `data` what the files hold; an open file goes by its number,
so an export that goes on writing after its `.tmp` was renamed writes into what
is published. A document is the list of its entries, each with its writer; what
a table contains, and so which transactions of other sessions each SELECT of an
export sees, is left out. `ChooseName`
finds a free name (`default_dump_output`), the writing steps are one per entry, and
publication is a link and an unlink for a dump with a default name, a rename
otherwise. `temps` are the copies beside the output and in the container, and
each may fail to be removed (`stuck`); a `docker` that cannot be started to remove
the container's copy makes the dump fail (`RemoveContainerFile`), any other failure
of that is not reported. Every command may fail or be killed at
every step.

`Publication` is what readers of the file may rely on: a name changes in one step
from one whole document to another, success means published, failure means not
published. The exceptions are states of the abstract specification, so they are
part of what is checked: two exports that had one `.tmp` open at once (`shared`)
are promised nothing of it; a command with work left after publishing (`late`:
the unlink of a default name, the ROLLBACK of an export) may fail with its file
published; another program may remove files.

### TableOrder

The loop of `order_table_names`, run once for the export and once for the
import's preflight. Foreign keys are a function from a table to its parents.
Names are numbers because the code sorts them. `Pop` takes the least ready table
and releases its children, as `ready.pop(0)` on the sorted list and
`_release_children` do.

### JsonlImport

The file is a sequence of lines, each a header, the begin of a table, a row, the
end of a table or something else (`Lines`); a file may be any such sequence. `doc` is the file a pass has open, `file` the
one at the path, which `FileReplaced` changes at any point: files are replaced
whole, because the exporter writes a temporary file and renames it. `FirstPass`
is `scan_document` with `validate_row` and the preflight; `SecondPass` is
`iter_document_tables` with the three ways a table is written: batches of native
upserts or inserts (PostgreSQL, SQLite), single INSERTs (MySQL, insert mode), and
SELECT, then INSERT or UPDATE (MySQL, upsert mode), where the SELECT reads the
transaction's snapshot. `own` holds the rows of the open transaction; `Commit`
merges them into `db`. `StatementFails` may happen at each statement and
`CommitFails` may have committed. `OthersWrite` inserts or deletes rows that the
transaction has not written. Whether a value fits its column is one bit of the
row, and a table's columns and keys are abstracted to its name: the conversion
itself is not modelled. A file put at the path between the passes is replayed
without having been scanned, so the properties that speak of validation hold for
the file scanned. Such a file may have a table twice. The second pass refuses it
when it comes to the second block, after the first was committed, so the rows of a
table are those of its first block (`RowsOf`). A row the command wrote has the value of its line; rows
of others are "old" or "theirs", so that who wrote a row can be told. A row
without a key is refused by an upsert, and by an INSERT unless the server fills the
key in (`Generated`: SQLite's INTEGER PRIMARY KEY, MySQL's AUTO_INCREMENT); such a row
is counted, but not followed to the key it gets. Where that key belongs to another
row of the file, the statement that comes later fails (`StatementFails`).

### OwnerTransfer

`cat` is the catalog as committed: for each object (catalog and oid) a row with
its name, its owner, whether an extension has it as a member, and whether its
schema is selected. `parent` is the propagation edge: the object whose owner it
follows. Kinds are reduced to five that the code treats differently: "table"
(locked), "view" (altered, not locked), "sequence" (altered by itself unless a
table owns it), "index" (an automatic object that may be outside the selected
schemas, as TOAST tables are) and "operator" (no ALTER is known). An extension
itself counts as one of its members, because the code protects both alike.

The transaction is READ COMMITTED, so each statement is a step that sees `cat`
of its moment, together with what the transaction itself has changed
(`Owner`). `ReadInventory` and `ReadEdges` are two statements. `Plan` is
`build_transfer_plan`, as operators over what was read; `Lock`, `Check`,
`CheckEdges`, `Reread` and `Alter` in turn for each object, `Verify`,
`VerifyProtected` and `FinalEdges` are `_execute_plan`. `LOCK` and `ALTER` go by
the name that was read, so they may reach another object of that name. `Fail` is
any comparison that does not hold and any statement that raises; `Commit` may
end in an error although it took effect. `OtherSessions` is DDL that waits for
the transaction's locks; `Consistent` says which catalogs PostgreSQL keeps. The
roles are three: source, target, any other. `origin` and `raced` are history: the
owner an altered object had, and whether it changed between its last check and
its ALTER.

### CommandPipe, Restore

`CommandPipe` is `_run_with_streamed_input`: the feeder, a drain for each output
stream, the main thread, and the client as an external process. Chunks are
numbered, so a pipe's contents are the chunks from `taken` to `written`. All
pipes have one `Capacity`. `feederError` stands for `feeder_error`; an error of
the file and a broken pipe both set it, as both are an `OSError`. The client ends
with code 0 at the end of its input or after a chunk that says so (`quit`), and
with another code at any time. A client whose output is not drained stays where
it is (`owes`), which is how the threads could block one another.

`Restore` has a statement of the dump as a chunk. `target` and `other` are the
database restored to and the one the dump names, as a state for each object;
`session` is the database the client's session is in, which USE changes.
`Preflight` is unpacking and `rebase_dump_input`: a compressed input and one
with USE statements are copied, any other is opened at its path again by
`OpenInput`. `MYSQL_USE_STATEMENT` must match a whole line, so of the statements of a
dump "use" is one alone on its line, which is rewritten, and "useUnseen" one with
another statement or a comment on its line or in an executable comment, which is
not; "qualified" names another database in full and is not looked for either. Not
modelled: a line in the middle of a string that reads as a USE and is rewritten.
`ListObjects` and `DropObject` are the two clients of
`_clean_target_database`. PostgreSQL's part follows `postgres/restore.py`:
`ValidateArchive` reads the table of contents only, so an archive may be
accepted that fails in its data ("bad"); a mapped container gets a copy of its
own; `CleanDatabase` is one transaction whose reply may be lost; items are
restored in any order, which includes that of every `--jobs`. Dumped objects
replace what is there for MySQL (`DROP TABLE IF EXISTS`), and fail for
PostgreSQL. Which client is found and how its command line reads is left out.

### SqlScanner

`SqlLifecycleScanner` beside the server's lexer, reading the same input. A symbol is
a byte that means something, or a run of bytes of a word; "create" stands for
DROP as well. The input is not a variable: the state holds the three symbols
ahead, and each step brings any next one, so inputs of every length are covered
by a finite state space. The scanner's fields have the names of the code, and
one definition stands for each of its `_consume` methods. The lexer is
external: MySQL in its default `sql_mode` (double quotes are strings, backslash
escapes).

`Strays` names the inputs for which the two readings differ, and which the
properties leave out: `/**/`, which the scanner takes for an open comment; a
backslash in a backtick name; a comment inside an executable comment; a version
number that touches or separates words; words that touch over the end of an
executable comment. CREATE SCHEMA, a synonym of CREATE DATABASE that the scanner
does not look for, is not a symbol. A carriage return by itself is not one
either.

### Accounts

`accounts` is the server: for each host whether the account exists, is locked,
has a new password, and its privileges. A command lists the hosts (`Select`), then
for each logs in anew, asks whether the account is its own (`Connect`), executes
its statements one by one (`NextStatement`, `Report`), each committed by itself, and
stops at the first error (`Fails`, `AnswerLost`). A profile takes one to five
statements, by engine and target (`ProfileStatements`). Two administrators work at
once. `since`, `changed`, `executed` and `found` are history: the accounts that someone
else changed since the command listed them or began with them; what it has
changed; how many statements it has executed on the account at hand, and that
account before them.

`me` is the account the command logs in as. `_reject_current_account` compares
strings; `exact` says whether `--host` is spelled as the server spells it, because
MySQL ignores the case of a host and an account spelled otherwise is not
recognised. `governs` has the privileges that the login may grant and revoke. MySQL
refuses a statement with any other. PostgreSQL may refuse it too (`Fails`), or
warn and do all, a part or nothing of what is outside `governs` (`Effective`);
privileges of another grantor are outside as well. The privileges of an account are
those granted to itself: what it has through PUBLIC or another role is not looked
at, by the commands or the model.

### Installer

The three clients have a marketplace, a plugin ("stale" from this repository,
"fresh", or of another source) and a skill directory. `order` is the command line.
`SelectTargets` tests which programs are there, `ListPlugin` asks each client, and
`PlanClaude`, `PlanCodex`, `PlanGrok` make a plan of commands for each before the first
is executed. A client's program is external: it does what it is told, or
fails, or reports success and does nothing (`idle`). A marketplace of this name may be
another directory's (`market`): Claude's is not asked for, Codex's refused if its record
says so (`rooted`: `root` is a string). A skill is copied to a
staging directory, the old one is moved aside and the new one moved in, and
moved back on error, a step each (`Restore` and its neighbours). Users change a
client at any point (`meddled`), and the script may be killed at any point. The
repository has one plugin configured (`PLUGIN_NAMES`) and no standalone skill; the
value of `STANDALONE_SKILL_NAME` is a constant, so both cases are checked.

## 3. What the runs show

| Run | Question | Instance |
|---|---|---|
| `PostgresSession` | does the kill reach only what was selected, report the truth, end, and implement the contract? | 3 numbers (the command's own and two), 2 databases, any initial sessions, one later session, a link that may break, waits of 0 and 2 ticks: 626 thousand states |
| `MysqlSession` | the same contract for `KILL n`; where can it miss? | as above with moving sessions: 167 thousand states |
| `Backup` | are backups and manifests kept and true over killed, resumed and repeated runs, and what does a cleaner remove? | two runs in turn, an earlier batch, a cleaner with a retention of one, three targets (one disabled, both engines, two in one directory), two seconds: 1.7 million states |
| `OutputFiles` | is a published document whole, and is nothing left behind? | two commands of each kind, a file there before or not, two tables: 270 thousand states |
| `TableOrder` | is the order right? | every foreign-key graph on four tables (one of them self-referring), every selection at export and import: 620 thousand states |
| `JsonlImport` | are tables whole and in order, and is success true? | 12 sound files, files with a line lost or doubled, 5 with other blocks, 2 with a foreign line or a table twice, a parent table whose key the server can fill in, 3 engines, 2 modes, two selections, one act of another process at any point: 1.2 million states |
| `Restore` | is anything dropped too early, does success mean restored, which databases are touched, can the threads block? | both engines, with and without `--clean`, ten inputs (plain, compressed, with USE alone on its line or not, naming another database, refused, truncated, ending early, with lifecycle statements), pipes of one chunk, two messages of the client, one act of another process: 1.9 million states |
| `SqlScanner` | does a lifecycle statement pass, or is a harmless dump refused? | every input over 16 symbols, of every length: 1.7 million states |
| `OwnerTransfer` | is what is committed the plan, whatever others do? | every catalog of three objects (owned by the source or another role) for three choices of kinds, a free name, one DDL transaction of another session at any point: 709 thousand states |
| `Accounts` | are reports true, what is left by a failure, is the own account safe? | two hosts, two administrators with any order each, the first with all privileges to grant or with some, MySQL, a PostgreSQL database and a schema: 1.4 million states |
| `Installer` | does the script report the truth, and is a plugin or a skill ever lost? | all orders, programs and first states of three clients, one change by a user: 997 thousand states |
| `BackupOverlap` | ends in a counterexample, below | two new batches of one second, neither resumed |

Why the bounds are enough. Sessions: two targets are what order, loss in the
middle and mutual effects need; one later session is what reuse of a number
needs; two polls show a wait that continues and one that is spent. Backups: a
cleaner needs a batch more than it keeps; a third run repeats what the second one
did. Output files: two commands are the ones that meet; two entries are a file
that is begun and one that is whole; a second number is what a name taken
between choice and publication needs. Table order: four tables allow a diamond, a
chain beside a free table, a cycle with a tail. Import: two tables are a parent
and a child; a batch of two rows is full, partial or exceeded by the third line;
one replaced file is what the second pass can meet (two were checked once, for
two engines, with the same result). Transfer: three objects are a chain of one parent
and two followers, or a planned object, its follower and a bystander that takes
its name; one act of another session is what falls between a check and the
statement that relies on it. Restore: three statements are one in the pipe, one in
the feeder's hands and one taken; two messages fill a pipe and block the client.
Accounts: two hosts are one done and one to come, a second administrator is who
comes between; the theorems hold for any number of both. Installer: the clients
are the three there are; one change by a user is what falls between a plan and
its execution. Scanner: no bound on the input is needed.

Deadlock checking is off in every run because each command stops when it is
done. `Terminates` covers the question for `session kill` (the wait is the same
code for MySQL) and for the threads of a restore.

Fairness. `FairSpec` has weak fairness of `Command`, the steps of the process as
one action: a statement returns, or its timeout (`database/connection.py` and the
socket timeouts) or the broken link makes it raise, so the process always makes
its next step. Nothing is assumed of other clients or of the clock:
`AnswerInTime` advances `now` by the sleep of the poll interval, which is why the
wait ends even if the clock never ticks otherwise. `Restore`'s `FairSpec` has
weak fairness of each thread and of the client's next statement, but not of its
failures; a statement the server never finishes is outside the model.

`TakenFromSource` has an exception, which is what the code allows: an object
that is not locked (not a table, and following none) and is given to another
role between its last reread and its ALTER is taken from that role, if the
executor may do so. docs/postgres.md:79 says that other roles' objects are not
transferred. In the same way
`OnlyTargetChanges`, `OwnAccountKept` and `ReportsAreTrue` say exactly how far the code
goes; each disjunct that excuses a case is one the instance reaches, and what the
documentation asks beyond it is listed next.

### Where code and documentation differ

One run ends in a counterexample.

* `BackupOverlap`: two new batches of one second, neither resumed, both find the name
  free (`next_batch_timestamp`), and the later `replace` overwrites the earlier backup.
  docs/backup.md:39 promises that existing backups are kept.

Others were met while modelling; the passing runs contain the behaviour and
their properties leave it room.

* A USE that shares its line with another statement or a comment, or stands in an
  executable comment, is not rewritten (restore.py:37, 420), and what follows is
  restored into the database it names. docs/mysql.md:145 says that a top-level USE is
  rewritten. (`LedAway` in `OnlyTargetChanges`.) Names of other databases are not
  looked for at all.
* An input without USE is opened at its path again after the preflight
  (restore.py:332); a file put there meanwhile is restored unchecked, and its USE
  statements lead away. The same line of docs/mysql.md has the check come first.
  (`checked # doc` in `OnlyTargetChanges`.)
* `mysql user password` does not ask whether the account is its own (user.py:383).
  docs/mysql.md:200 and docs/requirement/20260823-user-management.md:67 say that
  rotation refuses the current account too. Once the own password is changed, the DSN
  no longer logs in: with `--all-hosts` the rest of the accounts keep the old password,
  and the same command cannot be run again with the same DSN. (`OwnAccountKept`.)
* `_reject_current_account` (user.py:590) compares strings, and `_HOST_PATTERN` (user.py:30)
  allows upper case, so `--host LOCALHOST` passes for an account at localhost, which the
  server then drops, locks or strips. (`exact` in `OwnAccountKept`.)
* No warning of PostgreSQL is looked at (role.py:457, 491), so a GRANT or REVOKE that had
  no effect, or a part of it, is printed as granted or revoked (role.py:228, 295).
  docs/requirement/20260901-authorization-grant-revoke.md:115 asks for an error when
  privileges are insufficient. (`Due` in `ReportsAreTrue`.)
* Connection `a_b`, database `c` and connection `a`, database `b_c` share a
  directory (backup-db.py:461), while docs/backup.md:24 says backups are stored by
  connection and database. The retention count then covers both. Of two such
  targets of one engine the later replaces the backup of the earlier in each
  batch: nothing checks the configuration for it, so the theorems about backups
  assume outputs that are separate.
* A migrator's profile that was half revoked on MySQL (user.py:523) cannot be finished
  by the same command: its first REVOKE now fails with error 1141, and CREATE ON *.*
  stays. `StopsAtOneAccount` says which part is left, not that a rerun completes it.
* Both `stat()` calls of the loop are outside its `try` (backup-db.py:875, 922): a
  file that `clean` removes in between ends a run with `--continue-on-error`.
* The preflight compares the file's order with the one computed for the target
  (sqlalchemy_transfer.py:220), so a target with fewer foreign keys rejects a
  file whose order satisfies them. `SameKeysAccepted` is about equal keys.
* The scanner takes `/**/` for an open comment and reads the rest of the dump as
  comment, while
  docs/requirement/20260828-mysql-dump-restore-production-readiness.md:64 asks
  that such statements be found. No dump of mysqldump has it outside strings.

## 4. What is proved

TLAPS checks these for every value of the constants that satisfies the `ASSUME`s
of the module. What they ask beyond types: the command's own session number is
one of the numbers, the poll interval is not zero, and the values that stand for
"no file", "absent" and the like are none of the real ones. `Tables` of
`OutputFiles` is not zero, because an export without tables is refused and a dump
without content is not published. The names in `Objects` of `Restore` are none of
the words for the other statements. TLC evaluates all of them on every run.

Each argument has the same shape: an invariant that is inductive, which TLC was
asked to refute on the instance of the run before it was proved; a lemma per
action that the action keeps it; and the properties as consequences of it.

*Session kill.* `IInv` (in `SessionsProofs`) strengthens the invariants until
they are inductive. `Idle`: before the target query nothing was done. `Progress`:
which targets have a verdict at which point of the loop; `ReportComplete` follows
from it. `Waiting`: `pending` is exactly the set of requested targets with a known
identity, and an answer on its way that differs from the identity already means
an exit; this is what makes a late answer harmless, and `SuccessMeansGone`
follows. `Identity`: tokens are below `lastToken`, so a new session never has a
target's; that is why a number in use again is never mistaken. Each step that
both engines share is a lemma that preserves `IInv`; each engine adds its
statements. PostgreSQL adds that the session matched by the signal's WHERE is the
one that was read (`OnlySnapshotIsSignalled`). MySQL adds `Rechecked`, from which
`OnlyARaceMisses`, an action property, follows. `Implements`, one for each engine,
is the refinement of `KillContract`: a step of the command is one of the contract,
or none of its variables change. It rests on `IInv` where the contract speaks of
the server: an exit that is reported happened, because the identity in `pending`
is the token the target query read.

*Table order.* `Loop` says what `remaining` and `ready` are in terms of
`ordered`; `OrderCorrect` follows for files written and accepted.
`CyclesAreReal`: the tables left over when nothing is ready all wait for one
another. `SameKeysNeverRejected` compares two executions of the loop, that of the
export and that of the import over a part of the tables: `Retraces` says that the
import's loop has so far taken the selected tables in the order of the file. Each
time the export took the least table that was ready (`LeastFirst`), and as a
selection without a parent it needs is refused, a table is ready for the import
exactly when it was for the export.

*JSONL import.* The theorems hold for any files, well formed or not, any tables,
keys and batch size, and any acts of others. `DocumentsAssumption` says that the
marks "old", "theirs", `Absent` and `NullKey` are no values or keys of a file. Rows whose
key the server fills in are counted and otherwise left out of `Holds` and `Complete`.
`TargetAssumption` numbers the tables so that a parent never has the larger number:
the numbers stand for the order computed by `order_table_names`, whose correctness is
the subject of the table order's theorems. `JInv` says where the reader is in
the file (`Reading`): the lines since the block began are rows, and the tables seen are
those that begin before. `Writing` is the open transaction: `Batched`, the rows not yet
sent are the last ones read; `Holds`, what was sent is in the transaction, for each key
the last row of it, unless another client deleted the row; `Snapped`, what a MySQL
transaction read before is true, unless another client has changed it since.
`Committed` follows for the tables before `index`, from which `TablesAreWhole`,
`ParentsAreFirst` and, at the end of the file, `SuccessIsTrue` are read off. The
table at `index` may already be there: its COMMIT may have taken effect although it
raised. The row count of the summary needs that the blocks of different tables have no
line in common. `PreflightIsExact` needs an invariant of its own, `ScanInv`: every line
read is one that those before it lead to (`ScannedTo`), the preview has the tables in
the order of their blocks (`InFileOrder`), and the rows have keys and values as the mode
and the engine ask for (`RowsFit`). It is an equivalence, so each way to refuse a file
is shown to be a reason the file cannot be imported.

*Output files.* `FInv` has where each command is and what it has published
(`Course`), that a dump works on a file nobody else has open, whole when it is
published (`DumpFiles`), the same for exports as long as they have not met on one
`.tmp` (`ExportFiles`), and which temporary files exist and who will remove them
(`OwnTemps`, `SharedTemps`). `NothingIsLeft` follows from it, and with it
each step maps to a step of `Publication` or to none (`Implements`), for any number
of commands on one name and any number of tables.

*Backups.* The theorems assume `OneByOne`: no run starts while another works, which
`BackupOverlap` shows to be needed, and enabled targets of one engine have
directories of their own, which the instance of `Backup` satisfies and the code
does not check. Under it `BInv` is inductive. `NewBatch` says that a run that
resumes nothing meets no manifest and no backups of its batch but its own, which
gives `ManifestsAreKept`; `Replaceable` that what a run is about to replace is no
usable backup, which gives `BackupsAreKept`; `Known` that a size is taken only of a
file that was seen not to be empty. `OwnBackups`, `ReportedByRuns` and
`ReportedByManifests` give the other two. A report may outlive its backup, but only
when the cleaner was free to remove it (`Aged`). `Cleaning` gives `NewestAreKept`:
between listing and unlinking, each victim has `RetentionCount` usable backups
ahead of it (`Ahead`). Another cleaner may remove one of these at any moment; it
then has as many ahead of itself, and the order `Before` is transitive and strict,
so the victim keeps its number. Cleaners and runs may overlap freely here.

*Accounts.* `Place` says which accounts a command has behind and before it, and that
the statements it has left are the last ones of its order, as many as `executed`
leaves. `Partly` is what makes
`ReportsAreTrue` inductive, and the second half of `StopsAtOneAccount`: of an account
nobody else touched, what the statements executed so far were bound to do (`Due`)
holds when the next one is executed, and no other privilege has changed since it was
`found`. `Covered` accounts for
every host of an `--all-hosts` command. `OwnAccountKept` follows from the step of
`Place` that no statement is left for an account that was asked about and recognised
as the own one (`IsCurrent`); it says nothing of the two cases where the code does not
ask or does not recognise it.

*Ownership transfer.* The theorems hold for any set of objects, any names, kinds
and first owners, and any DDL of other sessions. `ObjectsAssumption` says that
`NoObject`, which stands for an object that does not exist, is not a row of the
catalog: without it a row could be mistaken for a missing object, and
`Consistent` would not be inductive. `Catalog` has what PostgreSQL keeps of the catalog
and of what was read of it; from `Flat` comes `DepthLemma`, that what is below an
object is what follows it directly, so that the recursive function
`Descendants` need not be unfolded anywhere else. `Locks` and `TablesHeld` say what
other sessions cannot change any more: what was altered, with all that follows
it, and each planned table, which is held by the name it was read by. `Reached`
is what remains if names have moved: every ALTER has reowned an object of that
name. `Straight` is what holds if they have not: just the plan is altered, and
each object was taken from the source, or has changed hands in the one window the
code leaves (`Window`). `Verified` and `Final` carry what the verification and the
second reading of the edges have established to the commit; there the names
agree, so that `Straight` applies and gives `PlanIsCommitted` and
`OnlyFromTheSource`. `NoExtensionTouched` needs `Flat` of the edges once more: an
extension's member below a planned object would be one of its children, which
the plan has refused.

*Installer.* `InstallInv` says what the queue of clients has still to come to
(`Queue`), and for each client that it is as the script found it until its turn
comes (`Waiting`). `Headed` is the argument for the reports: it says where the
commands that are left of a client's plan will take it if it runs them, so that a
plan that has run out leaves the plugin of this repository, unless a client
only claims success (`idle`), its user changed it (`meddled`), or the marketplace of
that name is another's and nobody notices (`Unnoticed`). The proof compares all that the model's
plans may be with what each command does. `Step` has the directories at each
step of replacing a skill: at every one of them the skill is in its place or in
the backup, from which `SkillsAreKept` follows for a script killed at any point.
Both `ReportsAreTrue` and `PluginsAreKept` hold for any order and any programs found.

*Client pipe and restore.* `PipeInv` says where the feeder is in the file
(`Feeding`), that a client ends with code 0 only at the end of its input or at
Quit (`Ended`), and what each join has waited for (`Joined`). `SuccessIsRead` follows
for any file, any capacity and any failures: the feeder's error is looked at only
after all threads have ended, and that is needed. `RInv` adds the restore around
the pipe. `Checked`: nothing but the preflight lets the command past its start, and
what it passed has neither lifecycle statements nor a USE alone on its line. `Copied`:
a copy is what was checked, so a file put at the path later does not reach the client
by it. `Elsewhere`: the session is elsewhere only after a USE that was not rewritten
and before the next that was (`Astray`, for what the client has taken so far), or in a
text that is not the one that was checked; from it comes `OnlyTheTargetChanges`, for
any mixture of the three kinds of USE. `Executed` and `Items` follow the client of each engine
through its input: what was taken is in the target, unless others changed it
since, which gives `SuccessIsRestored`; that the input was taken to its end comes
from `PipeInv`. `Cleaned`: while objects are dropped, those of before that remain are
the ones still to drop. The theorems hold for any objects, files and acts of
others.

Only model-checked: `Terminates` (liveness under fairness is out of the prover's
reach), and the properties of `SqlScanner`, whose instance has no bound on the
input, so that TLC's answer is already the whole one. `Selected` of
`TableSelection`, the part of the file's order that is imported, is a recursive function,
so that the theorems can use it.

## 5. Plan

Done, in this order because a wrong kill or a lost backup is the worst these
commands can do: `Sessions`/`PostgresSession`/`MysqlSession` with their contract
and proofs, `Backup`, `TableOrder` with proofs, `JsonlImport`, `OwnerTransfer`,
`CommandPipe` and `Restore` with proofs, `OutputFiles` with its abstract
specification and proofs, `SqlScanner`, `Accounts` with proofs, `Installer`, the
proofs of `Backup` and of the refinements, and those of `OwnerTransfer`, `Installer`
and `JsonlImport`. Every safety property of the passing runs but the two of `SqlScanner`
is now a theorem. What is left is to model the conversion of values and the building
of names as operators checked over bounded inputs.

## 6. Not modelled, and why

`REASSIGN OWNED` (`postgres/owner.py`) is two counts and one statement. A property
of a model of it would restate the test of the count; that an object may be
acquired between count and statement is what docs/postgres.md:64 says itself.
Creating and dropping a database is a check of the name and one statement.
Session and account listings are one SELECT. Values of the JSONL format are
encoded and decoded one by one, without state. The `sync` and `test` commands of
`backup-db.py` change no backup.

Rendering, option parsing, logging and DSN parsing are pure data without state.
The probes for local
clients and Docker images choose a command line and change nothing. The version and
password scripts compute a value and keep no state. Proof of liveness, and of what recursive
definitions compute, is out of reach of the proof system used here.
