-------------------------------- MODULE Backup --------------------------------
(***************************************************************************)
(* Batch backups: the `backup` and `clean` commands of                     *)
(* scripts/backup-db.py on one output directory.                           *)
(*                                                                         *)
(* Each invocation is a process of its own.  Runs back up the configured   *)
(* targets one after the other, may be killed at any point and may resume  *)
(* an earlier batch; cleaners delete old files.  Nothing but the directory *)
(* coordinates them.                                                       *)
(***************************************************************************)
EXTENDS Integers, Sequences, FiniteSets

CONSTANTS
  Runs,              \* invocations of `backup`
  Cleaners,          \* invocations of `clean`
  Config,            \* the targets of the YAML file, in its order
  Absent,            \* "no such file"
  Truncated,         \* a manifest opened for writing
  Earlier,           \* batches that were complete before
  Overlap,           \* may a run start while another is at work?
  Resumes,           \* may a run be given --resume?
  RetentionCount,    \* CLEAN_RETENTION_COUNT
  RetentionAge,      \* CLEAN_RETENTION_DAYS, in clock ticks
  MaxNow,            \* bound: clock ticks
  MaxSeq             \* bound: sequence numbers within one second

Engines == {"mysql", "postgres"}

ASSUME BoundsAssumption ==
  /\ RetentionCount \in Nat \ {0} /\ RetentionAge \in Nat
  /\ MaxNow \in Nat /\ MaxSeq \in Nat
  /\ Overlap \in BOOLEAN /\ Resumes \in BOOLEAN
ASSUME ConfigAssumption ==
  Config \in Seq([connection : Seq(STRING), database : Seq(STRING),
                  engine : Engines, enabled : BOOLEAN])

Targets == DOMAIN Config
Enabled == {t \in Targets : Config[t].enabled}

-------------------------------------------------------------------------------
(* Names of files.                                                         *)

\* Characters of a name that may not be in a file name become "-".
Special == {" ", "/", ":"}

SafeComponent(name) ==
  LET mapped == [i \in DOMAIN name |-> IF name[i] \in Special THEN "-" ELSE name[i]]
      kept == {i \in DOMAIN name : mapped[i] # "-"}
  IN IF kept = {} THEN <<"unknown">>
     ELSE SubSeq(mapped, CHOOSE i \in kept : \A j \in kept : i <= j,
                         CHOOSE i \in kept : \A j \in kept : i >= j)

Dir(t) == SafeComponent(Config[t].connection) \o <<"_">> \o SafeComponent(Config[t].database)
Dirs == {Dir(t) : t \in Targets}

\* A batch is named by its second and a sequence number within it.
Stamps == (0 .. MaxNow) \X (0 .. MaxSeq)
Newer(s, t) == s[1] > t[1] \/ (s[1] = t[1] /\ s[2] > t[2])

\* <<directory, batch, extension>>; the extension tells the engines apart.
Output(t, s) == <<Dir(t), s, Config[t].engine>>
Files == {Output(t, s) : t \in Targets, s \in Stamps}

-------------------------------------------------------------------------------
VARIABLES
  now,               \* the local time, in seconds
  disk,              \* [Files -> Absent or a backup]
  manifests,         \* [Stamps -> Absent, Truncated or the outcome of each target]
  run,               \* the state of each run
  cleaner            \* the state of each cleaner

vars == <<now, disk, manifests, run, cleaner>>

\* A backup file: who wrote it, of which target, and whether it is empty.
Backups == [by : Runs \cup {"earlier"}, of : Targets, empty : BOOLEAN]

Outcomes == {"none", "Succeeded", "Reused", "Failed"}
ASSUME AbsentAssumption ==
  /\ Absent \notin Backups /\ Absent # Truncated
  /\ {Absent, Truncated} \cap [Targets -> Outcomes] = {}

Ended == {"done", "raised", "uncaught", "killed"}
Working == {"stamp", "target", "reuse", "dump", "publish", "check", "stat",
            "manifest", "write"}

Usable(f) == disk[f] # Absent /\ ~disk[f].empty

\* What a process remembers before it starts, and after it ends.
FreshRun ==
  [pc |-> "idle", stamp |-> <<0, 0>>, resume |-> FALSE, continue |-> FALSE, target |-> 1,
   tmp |-> "none", results |-> [t \in Targets |-> "none"]]
FreshCleaner == [pc |-> "idle", dry |-> FALSE, cutoff |-> 0, dirs |-> {}, victims |-> {}]

Init ==
  /\ now = 0
  /\ disk = [f \in Files |->
       IF \E t \in Enabled, s \in Earlier : f = Output(t, s)
         THEN [by |-> "earlier", empty |-> FALSE,
               of |-> CHOOSE t \in Enabled : \E s \in Earlier : f = Output(t, s)]
         ELSE Absent]
  /\ manifests = [s \in Stamps |->
       IF s \in Earlier
         THEN [t \in Targets |-> IF t \in Enabled THEN "Succeeded" ELSE "none"]
         ELSE Absent]
  /\ run = [r \in Runs |-> FreshRun]
  /\ cleaner = [c \in Cleaners |-> FreshCleaner]

Tick ==
  /\ now < MaxNow
  /\ now' = now + 1
  /\ UNCHANGED <<disk, manifests, run, cleaner>>

-------------------------------------------------------------------------------
(* run_backups                                                             *)

At(r, pc) == run[r].pc = pc
Goto(r, pc) == run' = [run EXCEPT ![r].pc = pc]
End(r, how) == run' = [run EXCEPT ![r] = [FreshRun EXCEPT !.pc = how]]

\* `backup`, with --resume STAMP or without, with --continue-on-error or not.
\* Any well-formed stamp may be resumed, whether or not a batch has it.
Start(r) ==
  /\ At(r, "idle")
  /\ Overlap \/ \A q \in Runs : run[q].pc \notin Working
  /\ \E continue \in BOOLEAN :
       \/ run' = [run EXCEPT ![r].pc = "stamp", ![r].stamp = <<now, 0>>,
                             ![r].continue = continue]
       \/ \E s \in Stamps :
            /\ Resumes /\ s[1] <= now
            /\ run' = [run EXCEPT ![r].pc = "target", ![r].stamp = s,
                                  ![r].resume = TRUE, ![r].continue = continue]
  /\ UNCHANGED <<now, disk, manifests, cleaner>>

\* Faulty variant: only a manifest makes a name taken.
TakenByManifest(s) == manifests[s] # Absent

\* Faulty variant: only a backup makes a name taken.
TakenByBackups(s) == \E t \in Targets : disk[Output(t, s)] # Absent

\* The test of next_batch_timestamp; any file counts, empty or not.
Taken(s) ==
  \/ manifests[s] # Absent
  \/ \E t \in Targets : disk[Output(t, s)] # Absent

NextStamp(r) ==
  /\ At(r, "stamp")
  /\ IF Taken(run[r].stamp)
       THEN /\ run[r].stamp[2] < MaxSeq
            /\ run' = [run EXCEPT ![r].stamp[2] = @ + 1]
       ELSE Goto(r, "target")
  /\ UNCHANGED <<now, disk, manifests, cleaner>>

Cur(r) == run[r].target
CurFile(r) == Output(Cur(r), run[r].stamp)

\* results.append(...), and on to the next target.
Record(r, outcome) ==
  run' = [run EXCEPT ![r].pc = "target", ![r].target = @ + 1, ![r].tmp = "none",
                     ![r].results[Cur(r)] = outcome]

\* Faulty variant: a failure that is logged and not appended to the results.
FailUnrecorded(r) ==
  IF run[r].continue THEN Record(r, "none")
  ELSE End(r, "raised")

\* A BackupError or OSError inside the try of the loop.
Fail(r) ==
  IF run[r].continue THEN Record(r, "Failed")
  ELSE End(r, "raised")

\* reusable_backup_path: only a resumed batch reuses, and never an empty file.
Reusable(r) == run[r].resume /\ Usable(CurFile(r))

SkipTarget(r) ==
  /\ At(r, "target")
  /\ Cur(r) \in Targets \ Enabled
  /\ run' = [run EXCEPT ![r].target = @ + 1]
  /\ UNCHANGED <<now, disk, manifests, cleaner>>

PlanTarget(r) ==
  /\ At(r, "target")
  /\ Cur(r) \in Enabled
  /\ Goto(r, IF Reusable(r) THEN "reuse" ELSE "dump")
  /\ UNCHANGED <<now, disk, manifests, cleaner>>

\* reusable_backup.stat() is outside the try: a file that vanished since ends
\* the run with an OSError that main does not catch.
Reuse(r) ==
  /\ At(r, "reuse")
  /\ IF disk[CurFile(r)] # Absent THEN Record(r, "Reused") ELSE End(r, "uncaught")
  /\ UNCHANGED <<now, disk, manifests, cleaner>>

\* The dump goes to a temporary file beside the output.  mysqldump must have
\* written something; pg_dump must have written a file.
Dump(r) ==
  /\ At(r, "dump")
  /\ \E size \in {"full"} \cup (IF Config[Cur(r)].engine = "postgres" THEN {"empty"} ELSE {}) :
       run' = [run EXCEPT ![r].pc = "publish", ![r].tmp = size]
  /\ UNCHANGED <<now, disk, manifests, cleaner>>

\* The client fails, or the disk is full: `finally` removes the temporary file.
DumpFails(r) ==
  /\ run[r].pc \in {"dump", "publish"}
  /\ Fail(r)
  /\ UNCHANGED <<now, disk, manifests, cleaner>>

\* replace() is atomic, and overwrites.
Publish(r) ==
  /\ At(r, "publish")
  /\ disk' = [disk EXCEPT ![CurFile(r)] =
                [by |-> r, of |-> Cur(r), empty |-> run[r].tmp = "empty"]]
  /\ run' = [run EXCEPT ![r].pc = "check", ![r].tmp = "none"]
  /\ UNCHANGED <<now, manifests, cleaner>>

\* Faulty variant: the size of the output is not tested.
CheckPublishedExists(r) ==
  /\ At(r, "check")
  /\ IF disk[CurFile(r)] # Absent THEN Goto(r, "stat") ELSE Fail(r)
  /\ UNCHANGED <<now, disk, manifests, cleaner>>

\* The last test of run_dump.
CheckPublished(r) ==
  /\ At(r, "check")
  /\ IF Usable(CurFile(r)) THEN Goto(r, "stat") ELSE Fail(r)
  /\ UNCHANGED <<now, disk, manifests, cleaner>>

\* destination.stat() of the artifact is outside the try as well.
RecordArtifact(r) ==
  /\ At(r, "stat")
  /\ IF disk[CurFile(r)] # Absent THEN Record(r, "Succeeded") ELSE End(r, "uncaught")
  /\ UNCHANGED <<now, disk, manifests, cleaner>>

\* write_text truncates the manifest, then writes it.
OpenManifest(r) ==
  /\ At(r, "target")
  /\ Cur(r) \notin Targets
  /\ manifests' = [manifests EXCEPT ![run[r].stamp] = Truncated]
  /\ Goto(r, "write")
  /\ UNCHANGED <<now, disk, cleaner>>

WriteManifest(r) ==
  /\ At(r, "write")
  /\ manifests' = [manifests EXCEPT ![run[r].stamp] = run[r].results]
  /\ run' = [run EXCEPT ![r] = [FreshRun EXCEPT !.pc = "done", !.stamp = run[r].stamp,
                                               !.results = run[r].results]]
  /\ UNCHANGED <<now, disk, cleaner>>

\* The process is killed; its temporary file stays.
Killed(r) ==
  /\ run[r].pc \in Working
  /\ End(r, "killed")
  /\ UNCHANGED <<now, disk, manifests, cleaner>>

ExitCode(r) == IF \E t \in Targets : run[r].results[t] = "Failed" THEN 1 ELSE 0

-------------------------------------------------------------------------------
(* run_clean                                                               *)

Manifests == <<"manifests">>

\* Faulty variant: empty files count as backups.
ListedWithEmpty(d) ==
  IF d = Manifests
    THEN {<<d, s, "md">> : s \in {x \in Stamps : manifests[x] # Absent}}
    ELSE {f \in Files : f[1] = d /\ disk[f] # Absent}

\* A file as clean sees it: in a target directory or among the manifests.
Listed(d) ==
  IF d = Manifests
    THEN {<<d, s, "md">> : s \in {x \in Stamps : manifests[x] \notin {Absent, Truncated}}}
    ELSE {f \in Files : f[1] = d /\ Usable(f)}

StartClean(c) ==
  /\ cleaner[c].pc = "idle"
  /\ \E dry \in BOOLEAN :
       cleaner' = [cleaner EXCEPT ![c].pc = "list", ![c].dry = dry,
                     ![c].cutoff = now - RetentionAge,
                     ![c].dirs = Dirs \cup {Manifests}]
  /\ UNCHANGED <<now, disk, manifests, run>>

\* The files of a directory that are neither among its newest nor recent.
\* Files of one batch are ordered by name, that is by extension.
Newest(fs, f) ==
  Cardinality({g \in fs : \/ Newer(g[2], f[2])
                          \/ g[2] = f[2] /\ g[3] = "mysql" /\ f[3] = "postgres"})
    < RetentionCount

Victims(d, cutoff) ==
  {f \in Listed(d) : ~Newest(Listed(d), f) /\ f[2][1] < cutoff}

ListDirectory(c) ==
  /\ cleaner[c].pc = "list"
  /\ \E d \in cleaner[c].dirs :
       cleaner' = [cleaner EXCEPT ![c].pc = "unlink", ![c].dirs = @ \ {d},
                     ![c].victims = Victims(d, cleaner[c].cutoff)]
  /\ UNCHANGED <<now, disk, manifests, run>>

IsThere(f) == IF f[1] = Manifests THEN manifests[f[2]] # Absent ELSE disk[f] # Absent

\* path.unlink(), newest first, or only the log line of a dry run.
Unlink(c) ==
  /\ cleaner[c].pc = "unlink"
  /\ \E f \in cleaner[c].victims :
       /\ \A g \in cleaner[c].victims : ~Newer(g[2], f[2])
       /\ cleaner[c].dry \/ IsThere(f)
       /\ disk' = IF cleaner[c].dry \/ f[1] = Manifests THEN disk
                  ELSE [disk EXCEPT ![f] = Absent]
       /\ manifests' = IF cleaner[c].dry \/ f[1] # Manifests THEN manifests
                       ELSE [manifests EXCEPT ![f[2]] = Absent]
       /\ cleaner' = [cleaner EXCEPT ![c].victims = @ \ {f}]
  /\ UNCHANGED <<now, run>>

\* An OSError while listing or removing: among others, a file that another
\* cleaner removed first.
CleanFails(c) ==
  /\ \/ cleaner[c].pc = "list"
     \/ cleaner[c].pc = "unlink" /\ ~cleaner[c].dry /\ cleaner[c].victims # {}
  /\ cleaner' = [cleaner EXCEPT ![c] = [FreshCleaner EXCEPT !.pc = "raised"]]
  /\ UNCHANGED <<now, disk, manifests, run>>

DirectoryDone(c) ==
  /\ cleaner[c].pc = "unlink"
  /\ cleaner[c].victims = {}
  /\ cleaner' = [cleaner EXCEPT ![c] =
                    IF @.dirs = {} THEN [FreshCleaner EXCEPT !.pc = "done"]
                    ELSE [@ EXCEPT !.pc = "list"]]
  /\ UNCHANGED <<now, disk, manifests, run>>

-------------------------------------------------------------------------------
RunStep(r) ==
  \/ Start(r) \/ NextStamp(r)
  \/ SkipTarget(r) \/ PlanTarget(r) \/ Reuse(r)
  \/ Dump(r) \/ DumpFails(r) \/ Publish(r) \/ CheckPublished(r) \/ RecordArtifact(r)
  \/ OpenManifest(r) \/ WriteManifest(r)
  \/ Killed(r)

CleanStep(c) ==
  \/ StartClean(c) \/ ListDirectory(c) \/ Unlink(c) \/ CleanFails(c) \/ DirectoryDone(c)

Next ==
  \/ Tick
  \/ \E r \in Runs : RunStep(r)
  \/ \E c \in Cleaners : CleanStep(c)

Spec == Init /\ [][Next]_vars

-------------------------------------------------------------------------------
\* Too old for `clean` to keep on account of its age.
Aged(s) == s[1] + RetentionAge < now

(* A manifest lists as succeeded or reused only backups of that very       *)
(* target which are there and not empty, unless they have aged since.      *)
(* (write_manifest of run_backups, after run_dump or reusable_backup_path.) *)
ManifestTruthful ==
  \A s \in Stamps : manifests[s] \notin {Absent, Truncated} /\ ~Aged(s) =>
    \A t \in Targets : manifests[s][t] \in {"Succeeded", "Reused"} =>
      Usable(Output(t, s)) /\ disk[Output(t, s)].of = t

(* Exit code 0 of a batch means that each enabled target has its backup.   *)
SuccessMeansBackedUp ==
  \A r \in Runs : At(r, "done") /\ ExitCode(r) = 0 /\ ~Aged(run[r].stamp) =>
    \A t \in Enabled : Usable(Output(t, run[r].stamp))

(* A run never replaces a backup that is not empty, be it left by a killed *)
(* run, by an earlier one of the same second, or by the batch it resumes.  *)
BackupsKept ==
  [][\A f \in Files : Usable(f) => disk'[f] \in {disk[f], Absent}]_disk

(* A manifest is rewritten only by a run that resumes its batch: a new     *)
(* batch never takes the name of an earlier one.                           *)
ManifestsKept ==
  [][\A s \in Stamps : manifests[s] # Absent /\ manifests'[s] # manifests[s] =>
       \/ manifests'[s] = Absent
       \/ \E r \in Runs : /\ run[r].stamp = s
                          /\ run[r].resume \/ At(r, "write")]_manifests

(* clean removes a file only if it is too old and the directory keeps      *)
(* RetentionCount newer backups that can be used, whatever runs meanwhile. *)
CleanKeepsNewest ==
  [][\A f \in Files : disk[f] # Absent /\ disk'[f] = Absent =>
       /\ Aged(f[2])
       /\ Cardinality({g \in Files : /\ g[1] = f[1] /\ g # f
                                     /\ Usable(g) /\ ~Newer(f[2], g[2])})
            >= RetentionCount]_disk
===============================================================================
