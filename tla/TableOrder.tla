------------------------------ MODULE TableOrder ------------------------------
(***************************************************************************)
(* The order of tables in a JSONL transfer: order_table_names of           *)
(* src/dbtalk/database/schema.py, first run by the export on the source's  *)
(* foreign keys, then by the import's preflight on those of the target,    *)
(* which accepts the file only if its tables are in the order computed.    *)
(***************************************************************************)
EXTENDS TableSelection, FiniteSets

CONSTANTS
  Tables,         \* table names; sorted() compares them, so they are numbers
  SourceKeys,     \* the foreign keys a source may have: parents of each table
  TargetKeys      \* the foreign keys a target may have, besides the source's

ASSUME TablesAssumption == Tables \subseteq Nat /\ IsFiniteSet(Tables)
ASSUME KeysAssumption ==
  SourceKeys \cup TargetKeys \subseteq [Tables -> SUBSET Tables]

VARIABLES
  sourceKeys, targetKeys,
  phase,          \* the command at work: "export", then "import"
  pc,
  names,          \* the tables selected with --include-table, --exclude-table
  remaining,      \* [Tables -> parents of the table not ordered yet]
  ready,          \* selected tables without such a parent
  ordered,        \* the result
  document        \* the tables of the file, in its order

vars == <<sourceKeys, targetKeys, phase, pc, names, remaining, ready, ordered,
          document>>

foreignKeys == IF phase = "export" THEN sourceKeys ELSE targetKeys

Init ==
  /\ sourceKeys \in SourceKeys
  /\ targetKeys \in TargetKeys \cup {sourceKeys}
  /\ phase = "export"
  /\ pc = "select"
  /\ names = {}
  /\ remaining = [t \in Tables |-> {}]
  /\ ready = {}
  /\ ordered = <<>>
  /\ document = <<>>

\* What --include-table and --exclude-table choose from.
Available == IF phase = "export" THEN Tables ELSE Members(document)

\* validate_selected_foreign_keys, and an empty selection.
Refuse ==
  /\ pc = "select"
  /\ \E S \in SUBSET Available :
       /\ names' = S
       /\ S = {} \/ \E t \in S : ~(foreignKeys[t] \subseteq S)
  /\ pc' = "refused"
  /\ UNCHANGED <<sourceKeys, targetKeys, phase, remaining, ready, ordered, document>>

\* Faulty variant: a table that refers to itself waits for itself.
StartWithSelf ==
  /\ pc = "select"
  /\ \E S \in SUBSET Available :
       /\ S # {}
       /\ \A t \in S : foreignKeys[t] \subseteq S
       /\ names' = S
       /\ remaining' = [t \in Tables |-> IF t \in S THEN foreignKeys[t] ELSE {}]
       /\ ready' = {t \in S : foreignKeys[t] = {}}
  /\ ordered' = <<>>
  /\ pc' = "loop"
  /\ UNCHANGED <<sourceKeys, targetKeys, phase, document>>

\* Every selected table waits for its parents, except for itself.
Start ==
  /\ pc = "select"
  /\ \E S \in SUBSET Available :
       /\ S # {}
       /\ \A t \in S : foreignKeys[t] \subseteq S
       /\ names' = S
       /\ remaining' = [t \in Tables |-> IF t \in S THEN foreignKeys[t] \ {t} ELSE {}]
       /\ ready' = {t \in S : foreignKeys[t] \subseteq {t}}
  /\ ordered' = <<>>
  /\ pc' = "loop"
  /\ UNCHANGED <<sourceKeys, targetKeys, phase, document>>

\* Faulty variant: `ready` is not sorted, any of its tables comes next.
PopAny ==
  /\ pc = "loop"
  /\ \E parent \in ready :
       /\ ordered' = Append(ordered, parent)
       /\ remaining' = [t \in Tables |-> remaining[t] \ {parent}]
       /\ ready' = (ready \ {parent}) \cup {c \in names : remaining[c] = {parent}}
  /\ UNCHANGED <<sourceKeys, targetKeys, phase, pc, names, document>>

\* Faulty variant: the first parent written releases a table.
PopEager ==
  /\ pc = "loop"
  /\ \E parent \in ready :
       /\ \A t \in ready : parent <= t
       /\ ordered' = Append(ordered, parent)
       /\ remaining' = [t \in Tables |-> remaining[t] \ {parent}]
       /\ ready' = (ready \ {parent})
                     \cup {c \in names \ Members(ordered) : parent \in remaining[c]}
  /\ UNCHANGED <<sourceKeys, targetKeys, phase, pc, names, document>>

\* ready.pop(0) of the sorted list, then _release_children.
Pop ==
  /\ pc = "loop"
  /\ \E parent \in ready :
       /\ \A t \in ready : parent <= t
       /\ ordered' = Append(ordered, parent)
       /\ remaining' = [t \in Tables |-> remaining[t] \ {parent}]
       /\ ready' = (ready \ {parent})
                     \cup {c \in names : /\ remaining[c] = {parent}
                                         /\ c \notin Members(ordered')}
  /\ UNCHANGED <<sourceKeys, targetKeys, phase, pc, names, document>>

\* Some tables never became ready.
FindCycle ==
  /\ pc = "loop"
  /\ ready = {}
  /\ Len(ordered) # Cardinality(names)
  /\ pc' = "cycle"
  /\ UNCHANGED <<sourceKeys, targetKeys, phase, names, remaining, ready, ordered,
                 document>>

\* The export writes the tables in this order; the file is imported later.
Export ==
  /\ phase = "export" /\ pc = "loop"
  /\ ready = {}
  /\ Len(ordered) = Cardinality(names)
  /\ document' = ordered
  /\ phase' = "import"
  /\ pc' = "select"
  /\ UNCHANGED <<sourceKeys, targetKeys, names, remaining, ready, ordered>>

\* The order of the file, of the tables selected.
FileOrder == Selected(document, names)[Len(document)]

\* The import goes on only if the file has the order computed for the target.
Import ==
  /\ phase = "import" /\ pc = "loop"
  /\ ready = {}
  /\ Len(ordered) = Cardinality(names)
  /\ pc' = IF ordered = FileOrder THEN "accepted" ELSE "rejected"
  /\ UNCHANGED <<sourceKeys, targetKeys, phase, names, remaining, ready, ordered,
                 document>>

Next == Refuse \/ Start \/ Pop \/ FindCycle \/ Export \/ Import

Spec == Init /\ [][Next]_vars

-------------------------------------------------------------------------------
\* Each table comes after its parents, itself excepted.
ParentsFirst(seq, keys) ==
  \A k \in DOMAIN seq : \A p \in keys[seq[k]] \ {seq[k]} :
    \E j \in 1 .. k - 1 : seq[j] = p

\* A sequence of all the tables of S, each of them once.
Arranges(seq, S) == Members(seq) = S /\ Injective(seq)

TypeOK ==
  /\ sourceKeys \in [Tables -> SUBSET Tables]
  /\ targetKeys \in [Tables -> SUBSET Tables]
  /\ phase \in {"export", "import"}
  /\ pc \in {"select", "loop", "refused", "cycle", "accepted", "rejected"}
  /\ names \subseteq Tables
  /\ remaining \in [Tables -> SUBSET Tables]
  /\ ready \subseteq names \ Members(ordered)
  /\ ordered \in Seq(Tables)
  /\ document \in Seq(Tables)

(* The file has every table selected for export after its parents, and a   *)
(* file is accepted only if this holds of the tables selected for import   *)
(* under the target's own foreign keys.  (order_table_names.)              *)
OrderIsSound ==
  /\ phase = "import" => ParentsFirst(document, sourceKeys) /\ Injective(document)
  /\ pc = "accepted" => /\ Arranges(FileOrder, names)
                        /\ ParentsFirst(FileOrder, targetKeys)

(* "foreign-key cycle" is raised only where no order exists: some of the   *)
(* selected tables all wait for one another.                               *)
CycleIsReal ==
  pc = "cycle" =>
    \E C \in SUBSET names :
      C # {} /\ \A t \in C : (foreignKeys[t] \ {t}) \cap C # {}

(* A target with the source's foreign keys accepts every selection of the  *)
(* file: the order computed for some tables is the order they have among   *)
(* all those exported.                                                     *)
SameKeysAccepted == targetKeys = sourceKeys => pc # "rejected"
===============================================================================
