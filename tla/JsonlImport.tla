------------------------------ MODULE JsonlImport ------------------------------
(***************************************************************************)
(* `dbtalk import`: import_sqlalchemy of src/dbtalk/database/              *)
(* sqlalchemy_transfer.py with the two passes of format.py over the file.  *)
(*                                                                         *)
(* The first pass (scan_document) validates the file line by line and      *)
(* keeps only table names and row counts; the second one                   *)
(* (iter_document_tables) opens the path again and writes each selected    *)
(* table in a transaction of its own.  Meanwhile the path may get another  *)
(* file, and other clients write to the same tables.                       *)
(***************************************************************************)
EXTENDS TableSelection, FiniteSets

CONSTANTS
  TargetTables,   \* tables of the target; a parent has a smaller number
  Parents,        \* [TargetTables -> SUBSET TargetTables]: its foreign keys
  Keys,           \* primary keys
  NullKey,        \* a row without one
  Generated,      \* tables whose key the server can fill in
  Values,         \* the rest of a row
  Documents,      \* files that may be at the path: sequences of lines
  Absent,         \* no row with this key
  Engines,        \* kinds of target
  Excluded,       \* values of --exclude-table
  BatchSize,      \* BATCH_SIZE
  MaxChanges      \* bound: acts of other processes while the command runs

ASSUME TargetAssumption ==
  /\ TargetTables \subseteq Nat /\ IsFiniteSet(TargetTables) /\ Generated \subseteq TargetTables
  /\ Parents \in [TargetTables -> SUBSET TargetTables]
  /\ \A t \in TargetTables : \A p \in Parents[t] : p <= t

RowLine ==
  [kind : {"row"}, key : Keys \cup {NullKey}, value : Values, fits : BOOLEAN]

\* Lines as the parser tells them apart; "other" is none of the format.
Lines ==
  [kind : {"header", "other"}] \cup [kind : {"table"}, name : Nat]
    \cup RowLine \cup [kind : {"end"}, rows : Nat]

\* The marks below are not rows of a file.
ASSUME DocumentsAssumption ==
  /\ Documents \subseteq Seq(Lines)
  /\ NullKey \notin Keys
  /\ Absent \notin Values \cup {"old", "theirs"}
  /\ {"old", "theirs"} \cap Values = {}
ASSUME EnginesAssumption == Engines \subseteq {"sqlite", "postgresql", "mysql"}
ASSUME BatchAssumption == BatchSize \in Nat \ {0} /\ MaxChanges \in Nat

VARIABLES
  (* the outside *)
  file,           \* the lines of the file at the path now
  db,             \* [TargetTables -> [Keys -> a row or Absent]], committed
  touched,        \* <<table, key>> written by other clients meanwhile
  changes,        \* acts of other processes so far
  (* the command *)
  request,        \* mode, engine, and the tables not selected
  stage,
  doc,            \* the file this pass has opened
  at,             \* the number of its next line
  seen,           \* names of the tables this pass has come to
  block,          \* the table under way
  count,          \* its rows so far
  preview,        \* <<name, rows>> of each table scanned
  index,          \* expected_index: the next table of `Order`
  batch,          \* rows not sent to the database yet
  own,            \* [Keys -> rows of the open transaction, or Absent]
  snap,           \* [Keys -> ...]: what a MySQL transaction reads, once it did
  imported,       \* rows committed: committed_rows
  (* history *)
  scanned         \* the file the first pass opened

target == <<db, touched>>
outside == <<file, db, touched, changes>>
reader == <<doc, at, seen, block, count>>
writer == <<batch, own, snap>>
importVars == <<outside, request, stage, reader, preview, index, writer, imported, scanned>>

NoRows == [k \in Keys |-> Absent]

-------------------------------------------------------------------------------
(* What the preflight settles.                                             *)

Native == request.engine # "mysql"

PreviewNames == [i \in DOMAIN preview |-> preview[i].name]
InPreview == Members(PreviewNames)

\* The selected tables in the order of the file.
Order == Selected(PreviewNames, InPreview \ request.excluded)[Len(preview)]
InOrder == Members(Order)

\* order_table_names for tables whose numbers agree with their foreign keys.
Sorted(names) == \A i, j \in DOMAIN names : i < j => names[i] < names[j]

\* validate_row: keys for every table, values only where they are converted.
RowValid(line) ==
  /\ request.mode = "upsert" => line.key # NullKey
  /\ Native /\ block \notin request.excluded => block \in TargetTables /\ line.fits

PreflightPasses ==
  /\ request.excluded \subseteq InPreview
  /\ Order # <<>>
  /\ InOrder \subseteq TargetTables
  /\ \A t \in InOrder : Parents[t] \subseteq InOrder
  /\ Sorted(Order)

-------------------------------------------------------------------------------
ImportInit ==
  /\ file \in Documents
  /\ db \in [TargetTables -> {NoRows, [NoRows EXCEPT ![CHOOSE k \in Keys : TRUE] = "old"]}]
  /\ touched = {}
  /\ changes = 0
  /\ request \in [mode : {"insert", "upsert"}, engine : Engines, excluded : Excluded]
  /\ stage = "open"
  /\ doc = <<>> /\ at = 1 /\ seen = {} /\ block = 0 /\ count = 0
  /\ preview = <<>> /\ index = 1
  /\ batch = <<>> /\ own = NoRows /\ snap = <<>>
  /\ imported = 0
  /\ scanned = <<>>

Kind == IF at <= Len(doc) THEN doc[at].kind ELSE "eof"
Line == doc[at]

\* Either pass opens the path and reads the header.
OpenPass(pass, error) ==
  /\ doc' = file
  /\ at' = 2
  /\ seen' = {}
  /\ stage' = IF file # <<>> /\ file[1].kind = "header" THEN pass ELSE error
  /\ UNCHANGED <<block, count>>

\* The first line of a table block, in either pass.
BeginBlock ==
  /\ block' = Line.name
  /\ seen' = seen \cup {Line.name}
  /\ count' = 0
  /\ at' = at + 1
  /\ UNCHANGED doc

NextRow ==
  /\ count' = count + 1
  /\ at' = at + 1
  /\ UNCHANGED <<doc, seen, block>>

Consume == at' = at + 1 /\ UNCHANGED <<doc, seen, block, count>>

\* A line that no block can have here.
BadStart == Kind # "eof" /\ (Kind = "table" => Line.name \in seen)

\* Faulty variant: the number in the end record is not compared.
BadLineUncounted == Kind \notin {"row", "end"}

BadLine == Kind \notin {"row", "end"} \/ (Kind = "end" /\ Line.rows # count)

-------------------------------------------------------------------------------
(* The first pass.                                                         *)

OpenScan ==
  /\ stage = "open"
  /\ OpenPass("scan", "refused")
  /\ scanned' = file
  /\ UNCHANGED <<outside, request, preview, index, writer, imported>>

ScanTable ==
  /\ stage = "scan" /\ Kind = "table" /\ ~BadStart
  /\ BeginBlock
  /\ stage' = "scanrows"
  /\ UNCHANGED <<outside, request, preview, index, writer, imported, scanned>>

ScanRow ==
  /\ stage = "scanrows" /\ Kind = "row"
  /\ RowValid(Line)
  /\ NextRow
  /\ UNCHANGED <<outside, request, stage, preview, index, writer, imported, scanned>>

ScanEnd ==
  /\ stage = "scanrows" /\ Kind = "end" /\ ~BadLine
  /\ preview' = Append(preview, [name |-> block, rows |-> count])
  /\ Consume
  /\ stage' = "scan"
  /\ UNCHANGED <<outside, request, index, writer, imported, scanned>>

ScanRefuses ==
  /\ \/ stage = "scan" /\ BadStart
     \/ stage = "scanrows" /\ (BadLine \/ (Kind = "row" /\ ~RowValid(Line)))
  /\ stage' = "refused"
  /\ UNCHANGED <<outside, request, reader, preview, index, writer, imported, scanned>>

\* select_transfer_preview, the target tables and order_table_names.
Preflight ==
  /\ stage = "scan" /\ Kind = "eof"
  /\ stage' = IF PreflightPasses THEN "reopen" ELSE "refused"
  /\ UNCHANGED <<outside, request, reader, preview, index, writer, imported, scanned>>

-------------------------------------------------------------------------------
(* The second pass: iter_document_tables and the loop of import_sqlalchemy.*)

OpenReplay ==
  /\ stage = "reopen"
  /\ OpenPass("replay", "failed")
  /\ UNCHANGED <<outside, request, preview, index, writer, imported, scanned>>

SkipTable ==
  /\ stage = "replay" /\ Kind = "table" /\ ~BadStart
  /\ Line.name \notin InOrder
  /\ BeginBlock
  /\ stage' = "skip"
  /\ UNCHANGED <<outside, request, preview, index, writer, imported, scanned>>

SkipLine ==
  /\ stage = "skip" /\ ~BadLine
  /\ IF Kind = "row" THEN NextRow /\ UNCHANGED stage ELSE Consume /\ stage' = "replay"
  /\ UNCHANGED <<outside, request, preview, index, writer, imported, scanned>>

\* Faulty variant: any selected table is imported when it comes.
ReplayTableAnyOrder ==
  /\ stage = "replay" /\ Kind = "table" /\ ~BadStart
  /\ Line.name \in InOrder
  /\ BeginBlock
  /\ stage' = "rows"
  /\ batch' = <<>> /\ own' = NoRows /\ snap' = <<>>
  /\ UNCHANGED <<outside, request, preview, index, imported, scanned>>

\* A selected table, which must be the next one of the preflight's order.
ReplayTable ==
  /\ stage = "replay" /\ Kind = "table" /\ ~BadStart
  /\ Line.name \in InOrder
  /\ Line.name = Order[index]
  /\ BeginBlock
  /\ stage' = "rows"
  /\ batch' = <<>> /\ own' = NoRows /\ snap' = <<>>
  /\ UNCHANGED <<outside, request, preview, index, imported, scanned>>

\* An error of the second pass rolls the open transaction back.
Fail ==
  /\ stage' = "failed"
  /\ batch' = <<>> /\ own' = NoRows /\ snap' = <<>>
  /\ UNCHANGED <<outside, request, reader, preview, index, imported, scanned>>

OrderChanged ==
  Kind = "table" /\ ~BadStart /\ Line.name \in InOrder /\ Line.name # Order[index]

\* A malformed line, tables in another order, or a value that does not fit.
ReplayRefuses ==
  /\ \/ stage = "replay" /\ (BadStart \/ OrderChanged)
     \/ stage \in {"skip", "rows"} /\ BadLine
     \/ stage = "rows" /\ Kind = "row" /\ ~Line.fits
  /\ Fail

\* What a statement of the transaction sees of a row.
Current(k) == IF own[k] # Absent THEN own[k] ELSE db[block][k]

Readable == stage = "rows" /\ Kind = "row" /\ Line.fits

\* SQLite and PostgreSQL: rows are collected; sizes may end a batch early.
CollectRow ==
  /\ Native /\ Readable
  /\ Len(batch) < BatchSize
  /\ batch' = Append(batch, Line)
  /\ NextRow
  /\ UNCHANGED <<outside, request, stage, preview, index, own, snap, imported, scanned>>

\* An INSERT of NULL gets a key of the server's own from SQLite's INTEGER PRIMARY
\* KEY and MySQL's AUTO_INCREMENT; PostgreSQL refuses it.
AcceptedKeys(t) ==
  IF request.mode = "insert" /\ request.engine # "postgresql" /\ t \in Generated
  THEN Keys \cup {NullKey} ELSE Keys

\* What the database accepts of an executemany; INSERT takes no key twice.
Acceptable(rows) ==
  /\ \A i \in DOMAIN rows : rows[i].key \in AcceptedKeys(block)
  /\ request.mode = "insert" =>
       \A i \in DOMAIN rows : rows[i].key \in Keys =>
         /\ Current(rows[i].key) = Absent
         /\ \A j \in 1 .. i - 1 : rows[j].key # rows[i].key

\* The row of each key after the rows in their order.
After(rows) ==
  [k \in Keys |->
     LET of == {i \in DOMAIN rows : rows[i].key = k} IN
       IF of = {} THEN own[k]
       ELSE rows[CHOOSE i \in of : \A j \in of : j <= i].value]

\* Faulty variant: a batch is committed when it has been executed.
ExecuteBatchCommitting ==
  /\ stage = "rows" /\ batch # <<>>
  /\ Acceptable(batch)
  /\ db' = [db EXCEPT ![block] = [k \in Keys |->
              IF After(batch)[k] # Absent THEN After(batch)[k] ELSE @[k]]]
  /\ batch' = <<>>
  /\ UNCHANGED <<file, touched, changes, request, stage, reader, preview, index, own, snap,
                 imported, scanned>>

\* _execute_batches: one batch, within the table's transaction.
ExecuteBatch ==
  /\ stage = "rows" /\ batch # <<>>
  /\ Acceptable(batch)
  /\ own' = After(batch)
  /\ batch' = <<>>
  /\ UNCHANGED <<outside, request, stage, reader, preview, index, snap, imported, scanned>>

\* MySQL, insert mode: one statement for each row.
InsertRow ==
  /\ ~Native /\ Readable /\ request.mode = "insert"
  /\ Acceptable(<<Line>>)
  /\ own' = After(<<Line>>)
  /\ NextRow
  /\ UNCHANGED <<outside, request, stage, preview, index, batch, snap, imported, scanned>>

\* MySQL, upsert mode: SELECT 1 reads the transaction's snapshot.
SelectExists ==
  /\ ~Native /\ Readable /\ request.mode = "upsert"
  /\ Line.key # NullKey
  /\ snap' = IF snap = <<>> THEN db[block] ELSE snap
  /\ stage' = IF own[Line.key] # Absent \/ snap'[Line.key] # Absent THEN "update" ELSE "insert"
  /\ UNCHANGED <<outside, request, reader, preview, index, batch, own, imported, scanned>>

\* INSERT fails on a row another client has inserted since.
UpsertInsert ==
  /\ stage = "insert"
  /\ Current(Line.key) = Absent
  /\ own' = After(<<Line>>)
  /\ NextRow
  /\ stage' = "rows"
  /\ UNCHANGED <<outside, request, preview, index, batch, snap, imported, scanned>>

\* UPDATE changes nothing if another client has deleted the row since.
UpsertUpdate ==
  /\ stage = "update"
  /\ own' = IF Current(Line.key) = Absent THEN own ELSE After(<<Line>>)
  /\ NextRow
  /\ stage' = "rows"
  /\ UNCHANGED <<outside, request, preview, index, batch, snap, imported, scanned>>

\* A statement fails: a key, a constraint, a NULL key, a lost link; or the key
\* the server fills in is taken.
StatementFails ==
  /\ \/ stage = "rows" /\ (batch # <<>> \/ (~Native /\ Readable))
     \/ stage \in {"insert", "update"}
  /\ Fail

\* The database after a commit.
Merged == [db EXCEPT ![block] = [k \in Keys |-> IF own[k] # Absent THEN own[k] ELSE @[k]]]

BlockRead == stage = "rows" /\ Kind = "end" /\ ~BadLine

\* The block was read to its end: the transaction commits.
Commit ==
  /\ BlockRead
  /\ batch = <<>>
  /\ db' = Merged
  /\ imported' = imported + count
  /\ index' = index + 1
  /\ own' = NoRows /\ snap' = <<>>
  /\ Consume
  /\ stage' = "replay"
  /\ UNCHANGED <<file, touched, changes, request, preview, batch, scanned>>

\* COMMIT raises: nothing was committed, or its reply was lost.
CommitFails ==
  /\ BlockRead
  /\ batch = <<>>
  /\ db' \in {db, Merged}
  /\ stage' = "failed"
  /\ own' = NoRows /\ snap' = <<>>
  /\ UNCHANGED <<file, touched, changes, request, reader, preview, index, batch,
                 imported, scanned>>

\* Faulty variant: the end of the file ends the import.
FinishUnchecked ==
  /\ stage = "replay" /\ Kind = "eof"
  /\ stage' = "verify"
  /\ UNCHANGED <<outside, request, reader, preview, index, writer, imported, scanned>>

\* The end of the file.
Finish ==
  /\ stage = "replay" /\ Kind = "eof"
  /\ stage' = IF index = Len(Order) + 1 THEN "verify" ELSE "failed"
  /\ UNCHANGED <<outside, request, reader, preview, index, writer, imported, scanned>>

\* _verify_database: SQLite's checks may find damage that was there before.
Verify ==
  /\ stage = "verify"
  /\ \/ stage' = "done"
     \/ request.engine = "sqlite" /\ stage' = "failed"
  /\ UNCHANGED <<outside, request, reader, preview, index, writer, imported, scanned>>

Ended == {"refused", "failed", "done", "killed"}

\* The process is killed; the database rolls its transaction back.
Killed ==
  /\ stage \notin Ended
  /\ stage' = "killed"
  /\ batch' = <<>> /\ own' = NoRows /\ snap' = <<>>
  /\ UNCHANGED <<outside, request, reader, preview, index, imported, scanned>>

-------------------------------------------------------------------------------
(* Other processes.                                                        *)

\* An export to the same path: its file replaces this one at once.
FileReplaced ==
  /\ stage \notin Ended
  /\ changes < MaxChanges
  /\ file' \in Documents \ {file}
  /\ changes' = changes + 1
  /\ UNCHANGED <<target, request, stage, reader, preview, index, writer, imported, scanned>>

\* Another client inserts or deletes a row the transaction has not locked.
OthersWrite ==
  /\ stage \notin Ended
  /\ changes < MaxChanges
  /\ \E t \in TargetTables, k \in Keys :
       /\ stage \in {"rows", "insert", "update"} /\ t = block => own[k] = Absent
       /\ db' = [db EXCEPT ![t][k] = IF @ = Absent THEN "theirs" ELSE Absent]
       /\ touched' = touched \cup {<<t, k>>}
  /\ changes' = changes + 1
  /\ UNCHANGED <<file, request, stage, reader, preview, index, writer, imported, scanned>>

FirstPass == OpenScan \/ ScanTable \/ ScanRow \/ ScanEnd \/ ScanRefuses \/ Preflight

SecondPass ==
  \/ OpenReplay \/ SkipTable \/ SkipLine \/ ReplayTable \/ ReplayRefuses
  \/ CollectRow \/ ExecuteBatch \/ InsertRow
  \/ SelectExists \/ UpsertInsert \/ UpsertUpdate
  \/ StatementFails \/ Commit \/ CommitFails \/ Finish \/ Verify

ImportNext == FirstPass \/ SecondPass \/ Killed \/ FileReplaced \/ OthersWrite

ImportSpec == ImportInit /\ [][ImportNext]_importVars

-------------------------------------------------------------------------------
(* The file as a whole, for the properties.                                *)

\* The first line of table t; any other one makes the file invalid.
Begins(d, t, s) ==
  /\ d[s].kind = "table" /\ d[s].name = t
  /\ \A j \in 1 .. s - 1 : d[j].kind = "table" => d[j].name # t

\* The numbers of the row lines of table t.
RowsOf(d, t) ==
  {i \in DOMAIN d : \E s \in 1 .. i - 1 : /\ Begins(d, t, s)
                                         /\ \A j \in s + 1 .. i : d[j].kind = "row"}

TableNames(d) == {d[i].name : i \in {j \in DOMAIN d : d[j].kind = "table"}}
KeysOf(d, t) == {d[i].key : i \in RowsOf(d, t)}

\* The row of a key after the rows of its table in their order.
LastRow(d, t, k) ==
  d[CHOOSE i \in RowsOf(d, t) :
      d[i].key = k /\ \A j \in RowsOf(d, t) : d[j].key = k => j <= i].value

\* Line i is one that the lines before it lead to.
InPlace(d, i) ==
  /\ d[i].kind \in {"table", "row", "end"}
  /\ d[i].kind = "table" <=> d[i - 1].kind \in {"header", "end"}
  /\ d[i].kind = "table" => Begins(d, d[i].name, i)
  /\ d[i].kind = "end" =>
       \E s \in 1 .. i - 1 : /\ d[s].kind = "table" /\ i - s - 1 = d[i].rows
                             /\ \A j \in s + 1 .. i - 1 : d[j].kind = "row"

WellFormed(d) ==
  /\ d # <<>> /\ d[1].kind = "header" /\ d[Len(d)].kind \in {"header", "end"}
  /\ \A i \in 2 .. Len(d) : InPlace(d, i)

\* A file the command should accept, told from the documentation's rules.
Importable(d) ==
  LET wanted == TableNames(d) \ request.excluded IN
    /\ WellFormed(d)
    /\ request.excluded \subseteq TableNames(d)
    /\ wanted # {} /\ wanted \subseteq TargetTables
    /\ \A t \in wanted : Parents[t] \subseteq wanted
    /\ \A i, j \in DOMAIN d :
         (d[i].kind = "table" /\ d[j].kind = "table" /\ i < j /\ {d[i].name, d[j].name} \subseteq wanted)
           => d[i].name < d[j].name
    /\ request.mode = "upsert" => \A i \in DOMAIN d : d[i].kind = "row" => d[i].key # NullKey
    /\ Native => \A t \in wanted : \A i \in RowsOf(d, t) : d[i].fits

\* Rows the import has committed, those other clients wrote excepted.
Foreign == {"old", "theirs", Absent}
Written(t) == {k \in Keys : db[t][k] \notin Foreign /\ <<t, k>> \notin touched}

\* Table t has all the rows this pass read for it; those under a key the
\* server has filled in are not followed.
Complete(t) ==
  \A k \in KeysOf(doc, t) :
    /\ k \in AcceptedKeys(t)
    /\ k \in Keys => <<t, k>> \in touched \/ db[t][k] = LastRow(doc, t, k)

-------------------------------------------------------------------------------
(* The first pass accepts exactly the files that can be imported: blocks   *)
(* that are complete, tables that are there and in order, keys and values  *)
(* that can be written.  (scan_document, validate_row and the preflight of *)
(* import_sqlalchemy.)                                                     *)
ScanIsExact ==
  /\ stage = "refused" => ~Importable(scanned)
  /\ stage \notin {"open", "scan", "scanrows", "refused", "killed"} => Importable(scanned)

(* A table has either all the rows of its block or none, whatever fails or *)
(* whoever writes meanwhile: one transaction for each table.               *)
AllOrNothing == \A t \in TargetTables : Written(t) = {} \/ Complete(t)

(* A table is written only once every table selected before it is there    *)
(* with all its rows, even if the file was replaced between the passes.    *)
(* (The order check of the replay, expected_index.)                        *)
ParentsWrittenFirst ==
  \A i, j \in DOMAIN Order :
    i < j /\ Order[j] \in TargetTables /\ Written(Order[j]) # {} =>
      Order[i] \in TableNames(doc) /\ Complete(Order[i])

(* Success means that every table selected was in the file of the second   *)
(* pass and has its rows, and that the summary, which has the row counts   *)
(* of the first pass, is right if the file is still the one scanned.       *)
SuccessMeansImported ==
  stage = "done" =>
    /\ \A t \in InOrder : t \in TableNames(doc) /\ Complete(t)
    /\ doc = scanned => imported = Cardinality(UNION {RowsOf(doc, t) : t \in InOrder})
===============================================================================
