----------------------------- MODULE RestoreProofs -----------------------------
(***************************************************************************)
(* The client pipe gives the client the whole file or fails, and a restore *)
(* over it checks before it drops, changes one database only, and succeeds *)
(* only if its input is there: for any files, objects and pipe capacity.   *)
(***************************************************************************)
EXTENDS Restore, TLAPS

\* The client pipe.

\* Where the feeder is in the file.
Feeding ==
  /\ client = "none" => feeder = "opening"
  /\ feeder = "opening" => doc = <<>> /\ position = 0
  /\ feeder = "reading" => position = written
  /\ feeder = "writing" => position = written + 1
  /\ feeder \in {"closing", "closed"} /\ ~feederError => written = Len(doc)

\* A client ends with code 0 only where its input ends, or at Quit.
Ended ==
  client = "exited" /\ code = 0 =>
    \/ feeder = "closed" /\ taken = written
    \/ taken > 0 /\ doc[taken] = Quit

\* What the main thread has waited for.
Joined ==
  /\ main = "idle" => client = "none"
  /\ main \in {"joinFeeder", "joinReaders", "success"} => client = "exited"
  /\ main \in {"joinReaders", "success"} => feeder = "closed"
  /\ main = "success" => code = 0 /\ ~feederError

PipeInv == PipeTypeOK /\ Feeding /\ Ended /\ Joined

\* What a reader may take for granted at first.
LEMMA InitInv == PipeInit => PipeInv
  <1> SUFFICES ASSUME PipeInit PROVE PipeInv
    OBVIOUS
  <1>1. PipeTypeOK
    <2>1. doc \in Seq(Chunks) /\ Len(doc) = 0
      BY DEF PipeInit
    <2>2. position \in 0 .. Len(doc) /\ written \in 0 .. position /\ taken \in 0 .. written
      BY <2>1 DEF PipeInit
    <2>3. /\ written - taken <= Capacity
          /\ output \in [Streams -> 0 .. Capacity] /\ emitted \in 0 .. MaxOutput
      BY CapacityAssumption DEF PipeInit
    <2>4. reader \in [Streams -> {"reading", "done"}]
      BY DEF PipeInit
    <2> QED
      BY <2>1, <2>2, <2>3, <2>4 DEF PipeInit, PipeTypeOK, Streams, NoStream
  <1>2. Feeding /\ Ended /\ Joined
    BY DEF PipeInit, Feeding, Ended, Joined
  <1> QED
    BY <1>1, <1>2 DEF PipeInv

USE DEF pipes, threads

\* Whatever file is opened.
LEMMA OpenInv ==
  ASSUME NEW content \in Seq(Chunks), PipeInv, Open(content) PROVE PipeInv'
  <1>1. PipeTypeOK'
    <2>1. position = 0 /\ written = 0 /\ taken = 0
      BY DEF PipeInv, PipeTypeOK, Feeding, Open
    <2> QED
      BY <2>1 DEF PipeInv, PipeTypeOK, Open
  <1>2. Feeding' /\ Ended' /\ Joined'
    <2>1. position = 0 /\ written = 0 /\ taken = 0
      BY DEF PipeInv, PipeTypeOK, Feeding, Open
    <2> QED
      BY <2>1 DEF PipeInv, PipeTypeOK, Open, Feeding, Ended, Joined
  <1> QED
    BY <1>1, <1>2 DEF PipeInv

\* The feeding thread advances in the order of the file.
LEMMA FeederInv == ASSUME PipeInv, Feeder PROVE PipeInv'
  <1>1. CASE FeederFails
    BY <1>1 DEF FeederFails, PipeInv, PipeTypeOK, Feeding, Ended, Joined
  <1>2. CASE ReadInput
    BY <1>2 DEF ReadInput, PipeInv, PipeTypeOK, Feeding, Ended, Joined
  <1>3. CASE WriteInput
    BY <1>3, CapacityAssumption DEF WriteInput, PipeInv, PipeTypeOK, Feeding, Ended, Joined
  <1>4. CASE BrokenPipe
    BY <1>4 DEF BrokenPipe, PipeInv, PipeTypeOK, Feeding, Ended, Joined
  <1>5. CASE CloseInput
    BY <1>5 DEF CloseInput, PipeInv, PipeTypeOK, Feeding, Ended, Joined
  <1> QED
    BY <1>1, <1>2, <1>3, <1>4, <1>5 DEF Feeder

\* The draining threads touch the output only.
LEMMA ReaderInv == ASSUME NEW s \in Streams, PipeInv, Reader(s) PROVE PipeInv'
  <1>1. CASE Drain(s)
    BY <1>1, CapacityAssumption DEF Drain, PipeInv, PipeTypeOK, Feeding, Ended, Joined
  <1>2. CASE DrainEnds(s)
    BY <1>2 DEF DrainEnds, PipeInv, PipeTypeOK, Feeding, Ended, Joined
  <1> QED
    BY <1>1, <1>2 DEF Reader

\* The client, whatever it does.
Client == Take \/ TakeQuit \/ HasMessage \/ Emit \/ ExitAtEnd \/ Abort

LEMMA ClientInv == ASSUME PipeInv, Client PROVE PipeInv'
  <1>1. CASE Take
    BY <1>1, CapacityAssumption DEF Take, Active, PipeInv, PipeTypeOK, Feeding, Ended, Joined
  <1>2. CASE TakeQuit
    BY <1>2, CapacityAssumption
    DEF TakeQuit, Active, NextChunk, PipeInv, PipeTypeOK, Feeding, Ended, Joined
  <1>3. CASE HasMessage
    BY <1>3, CapacityAssumption DEF HasMessage, Active, PipeInv, PipeTypeOK, Feeding, Ended, Joined
  <1>4. CASE Emit
    BY <1>4, CapacityAssumption
    DEF Emit, Streams, NoStream, PipeInv, PipeTypeOK, Feeding, Ended, Joined
  <1>5. CASE ExitAtEnd
    BY <1>5 DEF ExitAtEnd, AtEnd, Active, PipeInv, PipeTypeOK, Feeding, Ended, Joined
  <1>6. CASE Abort
    BY <1>6 DEF Abort, PipeInv, PipeTypeOK, Feeding, Ended, Joined
  <1> QED
    BY <1>1, <1>2, <1>3, <1>4, <1>5, <1>6 DEF Client

\* The main thread waits in turn.
LEMMA MainInv == ASSUME PipeInv, Main PROVE PipeInv'
  <1>1. CASE StartClient
    BY <1>1 DEF StartClient, PipeInv, PipeTypeOK, Feeding, Ended, Joined
  <1>2. CASE WaitClient
    BY <1>2 DEF WaitClient, PipeInv, PipeTypeOK, Feeding, Ended, Joined
  <1>3. CASE JoinFeeder
    BY <1>3 DEF JoinFeeder, PipeInv, PipeTypeOK, Feeding, Ended, Joined
  <1>4. CASE JoinReaders
    BY <1>4 DEF JoinReaders, PipeInv, PipeTypeOK, Feeding, Ended, Joined
  <1> QED
    BY <1>1, <1>2, <1>3, <1>4 DEF Main

\* Others do not touch the pipes.
LEMMA StillInv == ASSUME PipeInv, UNCHANGED pipes PROVE PipeInv'
  BY DEF PipeInv, PipeTypeOK, Feeding, Ended, Joined

LEMMA NextInv == PipeInv /\ [PipeNext]_pipes => PipeInv'
  <1> SUFFICES ASSUME PipeInv, [PipeNext]_pipes PROVE PipeInv'
    OBVIOUS
  <1>1. CASE UNCHANGED pipes
    BY <1>1, StillInv
  <1>2. CASE PipeNext
    <2>1. \A content \in Documents : content \in Seq(Chunks)
      BY ChunksAssumption
    <2> QED
      BY <1>2, <2>1, OpenInv, FeederInv, ReaderInv, ClientInv, MainInv DEF PipeNext, Client
  <1> QED
    BY <1>1, <1>2

\* The pipe's variables keep their types; above all, no pipe is over its limit
\* and the client never takes what was not written.
THEOREM PipeTypeCorrect == PipeSpec => []PipeTypeOK
  <1>1. PipeInv => PipeTypeOK
    BY DEF PipeInv
  <1> QED
    BY <1>1, InitInv, NextInv, PTL DEF PipeSpec

\* A command that succeeds has given the client the whole file.
THEOREM SuccessIsRead == PipeSpec => []SuccessMeansRead
  <1>1. PipeInv => SuccessMeansRead
    BY DEF PipeInv, PipeTypeOK, Feeding, Ended, Joined, SuccessMeansRead
  <1> QED
    BY <1>1, InitInv, NextInv, PTL DEF PipeSpec

-----------------------------------------------------------------------------
\* The restore.

Steps == {"start", "verify", "list", "drop", "restore", "stream", "copy", "clean", "read",
          "items", "done", "failed"}

RTypes ==
  /\ engine \in {"mysql", "postgres"} /\ clean \in BOOLEAN
  /\ path \in Files \cup {NoFile} /\ (path # NoFile => Fits(path))
  /\ target \in [Objects -> State] /\ other \in [Objects -> State] /\ exists \in BOOLEAN
  /\ pc \in Steps
  /\ copied \in BOOLEAN /\ copy \in Seq(Statements)
  /\ session \in {"target", "other"}
  /\ checked \in Seq(Statements) \cup {NoFile} /\ dropped \in BOOLEAN

\* What each engine comes to, and what the client has done by then.
Phases ==
  /\ pc \in {"verify", "list", "drop", "restore", "stream"} => engine = "mysql"
  /\ pc \in {"copy", "clean", "read", "items"} => engine = "postgres"
  /\ pc \in {"list", "drop", "clean"} => clean
  /\ pc \in {"start", "verify", "list", "drop", "restore"} => main = "idle"
  /\ engine = "postgres" => main = "idle"
  /\ pc = "done" => IF engine = "mysql" THEN main = "success" ELSE todo = {}

\* The preflight comes before all else, and passes no lifecycle statement and no USE
\* that is alone on its line.
Checked ==
  /\ pc \notin {"start", "failed"} => checked # NoFile
  /\ dropped => clean /\ checked # NoFile
  /\ checked # NoFile => ~Has(checked, "lifecycle") /\ ~Has(checked, "use")

\* A copy that MySQL restores from is what the preflight has passed.
Copied == engine = "mysql" /\ copied => copy = checked /\ doc \in {<<>>, checked}

\* The first n statements end after a USE that was not rewritten, with no other since.
Astray(text, n) ==
  \E i \in 1 .. n : text[i] = "useUnseen" /\ \A k \in i .. n : text[k] # "useTarget"

\* What leads the client into another database, for what it has taken so far, and what
\* the whole input may have done there.
Elsewhere ==
  /\ session = "other" => engine = "mysql" /\ (Has(doc, "use") \/ Astray(doc, taken))
  /\ \A o \in Objects : other[o] # "old" =>
       /\ engine = "mysql"
       /\ \/ Has(doc, "use") \/ Has(doc, "lifecycle") \/ Has(doc, "qualified")
          \/ o \in LedAway(doc)

\* An object the restore has made, unless another session changed it since.
Brought(o) == target[o] \in {"restored", "theirs", "gone"}

\* What the MySQL client has taken it has executed.
Executed ==
  engine = "mysql" => \A i \in 1 .. taken :
    /\ doc[i] # "bad"
    /\ doc[i] \in Objects /\ ~Leaves(doc) => Brought(doc[i])

\* What pg_restore has done with the items it no longer has to restore.
Items ==
  engine = "postgres" /\ pc \in {"items", "done"} =>
    \A i \in DOMAIN doc \ todo : doc[i] \in Objects /\ Brought(doc[i])

\* After the cleaning nothing is left of before; meanwhile, only what is still to drop.
Cleaned ==
  /\ clean /\ pc \in {"restore", "stream", "read", "items", "done"} =>
       \A o \in Objects : target[o] # "old"
  /\ pc = "drop" => \A o \in Objects : target[o] = "old" => o \in todo

RInv ==
  /\ RTypes /\ Phases /\ (engine = "mysql" => PipeInv)
  /\ Checked /\ Copied /\ Elsewhere /\ Executed /\ Items /\ Cleaned

USE StatementsAssumption, FilesAssumption

(* What the preflight writes out is again a list of statements, none of    *)
(* which names the database of the dump.                                   *)
LEMMA RebasedLemma ==
  ASSUME NEW text \in Seq(Statements)
  PROVE  /\ Rebased(text) \in Seq(Statements)
         /\ ~Has(Rebased(text), "use")
         /\ Has(Rebased(text), "lifecycle") => Has(text, "lifecycle")
<1>1. PICK n \in Nat : text \in [1 .. n -> Statements] /\ DOMAIN text = 1 .. n
  OBVIOUS
<1>2. Rebased(text) \in [1 .. n -> Statements] /\ DOMAIN Rebased(text) = 1 .. n
  BY <1>1 DEF Rebased, Statements, Words
<1>3. Rebased(text) \in Seq(Statements)
  BY <1>2
<1> QED
  BY <1>2, <1>3, <1>1 DEF Has, Rebased

(* No input is open before the client is fed.                              *)
LEMMA IdleLemma ==
  ASSUME PipeInv, main = "idle"
  PROVE  client = "none" /\ feeder = "opening" /\ doc = <<>> /\ position = 0 /\ taken = 0
BY DEF PipeInv, PipeTypeOK, Feeding, Joined

(* An empty file has no statement, and leads nowhere.                      *)
LEMMA EmptyLemma == (\A x : ~Has(<<>>, x)) /\ LedAway(<<>>) = {} /\ ~Astray(<<>>, 0)
BY DEF Has, LedAway, Astray

(* A client that was led to another database stays there until the next    *)
(* USE that was rewritten; what it makes there is accounted for.           *)
LEMMA AstrayLemma ==
  ASSUME NEW text \in Seq(Statements), NEW n \in Nat, n + 1 \in DOMAIN text, Astray(text, n)
  PROVE  /\ text[n + 1] # "useTarget" => Astray(text, n + 1)
         /\ text[n + 1] \in Objects => text[n + 1] \in LedAway(text)
         /\ Leaves(text)
<1>1. PICK i \in 1 .. n : text[i] = "useUnseen" /\ \A k \in i .. n : text[k] # "useTarget"
  BY DEF Astray
<1>2. text[n + 1] # "useTarget" => \A k \in i .. n + 1 : text[k] # "useTarget"
  BY <1>1
<1>3. text[n + 1] # "useTarget" => Astray(text, n + 1)
  BY <1>1, <1>2 DEF Astray
<1>4. ASSUME text[n + 1] \in Objects PROVE text[n + 1] \in LedAway(text)
  BY <1>1, <1>2, <1>4 DEF LedAway, Words
<1>5. Leaves(text)
  BY <1>1 DEF Leaves, Has
<1> QED
  BY <1>3, <1>4, <1>5

-----------------------------------------------------------------------------
\* The actions of the command.

USE DEF command, databases, outside, history, Steps

(* The preflight of MySQL passes a file, and makes a copy that is safe.    *)
LEMMA PreflightStep == ASSUME RInv, Preflight PROVE RInv'
<1>1. /\ engine = "mysql" /\ pc = "start" /\ path # NoFile /\ ~Has(path.text, "lifecycle")
      /\ copied' = (path.gz \/ Has(path.text, "use"))
      /\ copy' = IF copied' THEN Rebased(path.text) ELSE <<>>
      /\ checked' = Rebased(path.text)
      /\ pc' = "verify"
      /\ UNCHANGED <<engine, clean, todo, databases, outside, dropped, session, pipes>>
  BY DEF Preflight, Lifecycle
<1>2. path \in Files /\ path.text \in Seq(Statements) /\ path.gz \in BOOLEAN
  BY <1>1 DEF RInv, RTypes
<1>3. /\ checked' \in Seq(Statements) /\ checked' # NoFile
      /\ ~Has(checked', "use") /\ ~Has(checked', "lifecycle")
  BY <1>1, <1>2, RebasedLemma
<1>4. copied' \in BOOLEAN /\ copy' \in Seq(Statements) /\ (copied' => copy' = checked')
  BY <1>1, <1>2, RebasedLemma DEF Has
<1>5. doc' = <<>> /\ PipeInv'
  BY <1>1, IdleLemma, StillInv DEF RInv, Phases
<1>6. RTypes' /\ Phases' /\ Checked' /\ Copied'
  BY <1>1, <1>3, <1>4, <1>5 DEF RInv, RTypes, Phases, Checked, Copied, Fits
<1>7. Elsewhere' /\ Executed' /\ Items' /\ Cleaned'
  BY <1>1 DEF RInv, Elsewhere, Executed, Items, Cleaned, Brought
<1> QED
  BY <1>5, <1>6, <1>7 DEF RInv

(* The target is there.                                                    *)
LEMMA VerifyStep == ASSUME RInv, Verify PROVE RInv'
BY StillInv
   DEF RInv, RTypes, Phases, Checked, Copied, Elsewhere, Executed, Items, Cleaned,
       Brought, Verify, Fits

(* What is to be dropped is what there is.                                 *)
LEMMA ListObjectsStep == ASSUME RInv, ListObjects PROVE RInv'
BY StillInv
   DEF RInv, RTypes, Phases, Checked, Copied, Elsewhere, Executed, Items, Cleaned,
       Brought, ListObjects, Fits, Listing, There, State

(* An object that is dropped need not be dropped any more.                 *)
LEMMA DropObjectStep == ASSUME RInv, DropObject PROVE RInv'
<1>1. PICK o \in todo :
        target[o] \in There /\ target' = [target EXCEPT ![o] = "none"] /\ todo' = todo \ {o}
  BY DEF DropObject
<1>2. /\ pc = "drop" /\ dropped' = TRUE
      /\ UNCHANGED <<engine, clean, copied, copy, other, exists, outside, pc, checked, session,
                     pipes>>
  BY DEF DropObject
<1>3. engine = "mysql" /\ clean /\ checked # NoFile /\ main = "idle" /\ PipeInv
  BY <1>2 DEF RInv, Phases, Checked
<1>4. taken' = 0 /\ PipeInv'
  BY <1>2, <1>3, IdleLemma, StillInv
<1>5. target' \in [Objects -> State] /\ \A p \in Objects : target'[p] = "old" =>
        target[p] = "old" /\ p # o
  BY <1>1 DEF RInv, RTypes, State
<1>6. RTypes' /\ Phases' /\ Checked' /\ Copied' /\ Elsewhere'
  BY <1>2, <1>3, <1>5 DEF RInv, RTypes, Phases, Checked, Copied, Elsewhere, Fits
<1>7. Executed' /\ Items' /\ Cleaned'
  BY <1>1, <1>2, <1>3, <1>4, <1>5 DEF RInv, Executed, Items, Cleaned
<1> QED
  BY <1>4, <1>6, <1>7 DEF RInv

(* Nothing is left to drop.                                                *)
LEMMA CleanEndsStep == ASSUME RInv, CleanEnds PROVE RInv'
BY StillInv
   DEF RInv, RTypes, Phases, Checked, Copied, Elsewhere, Executed, Items, Cleaned,
       Brought, CleanEnds, Fits

(* The client starts, or cannot be started.                                *)
LEMMA StartRestoreStep == ASSUME RInv, StartRestore PROVE RInv'
<1>1. /\ engine = "mysql" /\ pc = "restore" /\ pc' = "stream" /\ StartClient
      /\ UNCHANGED <<command, databases, outside, history, session>>
  BY DEF StartRestore
<1>2. PipeInv' /\ UNCHANGED <<doc, taken>>
  BY <1>1, MainInv DEF RInv, Main, StartClient
<1>3. RTypes' /\ Phases' /\ Checked' /\ Copied'
  BY <1>1, <1>2 DEF RInv, RTypes, Phases, Checked, Copied, Fits
<1>4. Elsewhere' /\ Executed' /\ Items' /\ Cleaned'
  BY <1>1, <1>2 DEF RInv, Elsewhere, Executed, Items, Cleaned, Brought
<1> QED
  BY <1>2, <1>3, <1>4 DEF RInv

(* The restore ends as the client does.                                    *)
LEMMA RestoreEndsStep == ASSUME RInv, RestoreEnds PROVE RInv'
BY StillInv
   DEF RInv, RTypes, Phases, Checked, Copied, Elsewhere, Executed, Items, Cleaned,
       Brought, RestoreEnds, Stop, Fits

(* An archive names no database.                                           *)
LEMMA ValidateArchiveStep == ASSUME RInv, ValidateArchive PROVE RInv'
<1>1. /\ engine = "postgres" /\ pc = "start" /\ path # NoFile /\ checked' = path.text
      /\ pc' = "copy"
      /\ UNCHANGED <<command, databases, outside, dropped, session, pipes>>
  BY DEF ValidateArchive
<1>2. path.text \in Seq(Statements) /\ \A i \in DOMAIN path.text : path.text[i] \in Objects \cup {"bad"}
  BY <1>1 DEF RInv, RTypes, Fits
<1>3. ~Has(path.text, "use") /\ ~Has(path.text, "lifecycle")
  BY <1>2 DEF Has, Words
<1>4. RTypes' /\ Phases' /\ Checked'
  BY <1>1, <1>2, <1>3 DEF RInv, RTypes, Phases, Checked, Fits
<1>5. Copied' /\ Elsewhere' /\ Executed' /\ Items' /\ Cleaned'
  BY <1>1 DEF RInv, Copied, Elsewhere, Executed, Items, Cleaned, Brought
<1> QED
  BY <1>1, <1>4, <1>5 DEF RInv

(* The copy in the container is made of what is at the path by then.       *)
LEMMA CopyArchiveStep == ASSUME RInv, CopyArchive PROVE RInv'
<1>1. /\ engine = "postgres" /\ pc = "copy" /\ pc' = IF clean THEN "clean" ELSE "read"
      /\ UNCHANGED <<engine, clean, todo, databases, outside, history, session, pipes>>
  BY DEF RInv, Phases, CopyArchive
<1>2. copied' \in BOOLEAN /\ copy' \in Seq(Statements)
  <2>1. CASE path # NoFile /\ copied' = TRUE /\ copy' = path.text
    BY <2>1 DEF RInv, RTypes
  <2>2. CASE UNCHANGED <<copied, copy>>
    BY <2>2 DEF RInv, RTypes
  <2> QED
    BY <2>1, <2>2 DEF CopyArchive
<1>3. RTypes' /\ Phases' /\ Checked'
  BY <1>1, <1>2 DEF RInv, RTypes, Phases, Checked, Fits
<1>4. Copied' /\ Elsewhere' /\ Executed' /\ Items' /\ Cleaned'
  BY <1>1 DEF RInv, Copied, Elsewhere, Executed, Items, Cleaned, Brought
<1> QED
  BY <1>1, <1>3, <1>4 DEF RInv

(* The cleaning is one transaction.                                        *)
LEMMA CleanDatabaseStep == ASSUME RInv, CleanDatabase PROVE RInv'
BY StillInv
   DEF RInv, RTypes, Phases, Checked, Copied, Elsewhere, Executed, Items, Cleaned,
       Brought, CleanDatabase, Emptied, There, State, Fits

(* All items of the archive are still to be restored.                      *)
LEMMA ReadArchiveStep == ASSUME RInv, ReadArchive PROVE RInv'
BY StillInv
   DEF RInv, RTypes, Phases, Checked, Copied, Elsewhere, Executed, Items, Cleaned,
       Brought, ReadArchive, Fits

(* An item that is restored is there.                                      *)
LEMMA RestoreItemStep == ASSUME RInv, RestoreItem PROVE RInv'
BY StillInv
   DEF RInv, RTypes, Phases, Checked, Copied, Elsewhere, Executed, Items, Cleaned,
       Brought, RestoreItem, State, There, Fits

(* No item is left.                                                        *)
LEMMA ArchiveRestoredStep == ASSUME RInv, ArchiveRestored PROVE RInv'
BY StillInv
   DEF RInv, RTypes, Phases, Checked, Copied, Elsewhere, Executed, Items, Cleaned,
       Brought, ArchiveRestored, Stop, Fits

(* A step that fails leaves everything as it is.                           *)
LEMMA FailStep == ASSUME RInv, Fail PROVE RInv'
BY StillInv
   DEF RInv, RTypes, Phases, Checked, Copied, Elsewhere, Executed, Items, Cleaned,
       Brought, Fail, Stop, Fits

-----------------------------------------------------------------------------
\* The client and its threads.

(* What moves neither the database nor what the client has read leaves     *)
(* everything but the pipe as it is.                                       *)
LEMMA StreamStep ==
  ASSUME RInv, pc = "stream", UNCHANGED <<command, databases, outside, history, session, pc, doc>>,
         PipeInv', taken \in Nat, taken' \in {taken, taken + 1},
         taken' # taken => doc[taken + 1] = "quit" /\ taken + 1 \in DOMAIN doc
  PROVE  RInv'
<1>1. engine = "mysql"
  BY DEF RInv, Phases
<1>2. RTypes' /\ Phases' /\ Checked' /\ Copied'
  BY <1>1 DEF RInv, RTypes, Phases, Checked, Copied, Fits
<1>3. Items' /\ Cleaned'
  BY <1>1 DEF RInv, Items, Cleaned
<1>4. Executed'
  BY <1>1 DEF RInv, Executed, Brought, Words
<1>5. Astray(doc, taken) => Astray(doc, taken')
  BY <1>1, AstrayLemma DEF RInv, PipeInv, PipeTypeOK
<1>6. Elsewhere'
  BY <1>1, <1>5 DEF RInv, Elsewhere
<1> QED
  BY <1>2, <1>3, <1>4, <1>6 DEF RInv

(* The feeder opens the copy the preflight has made, or the path again.    *)
LEMMA OpenInputStep == ASSUME RInv, OpenInput PROVE RInv'
<1>1. /\ pc = "stream" /\ engine = "mysql" /\ PipeInv
      /\ UNCHANGED <<command, databases, outside, history, session, pc>>
  BY DEF RInv, Phases, OpenInput
<1>2. PICK content \in Seq(Statements) :
        Open(content) /\ (copied => content = copy)
  BY DEF OpenInput, RInv, RTypes
<1>3. PipeInv' /\ doc' = content /\ UNCHANGED main
  BY <1>1, <1>2, OpenInv DEF Open
<1>4. doc = <<>> /\ taken = 0 /\ taken' = 0
  <2>1. feeder = "opening" /\ taken' = taken
    BY <1>2 DEF Open
  <2> QED
    BY <1>1, <2>1 DEF PipeInv, PipeTypeOK, Feeding
<1>5. session = "target" /\ \A o \in Objects : other[o] = "old"
  BY <1>4, EmptyLemma DEF RInv, RTypes, Elsewhere
<1>6. RTypes' /\ Phases' /\ Checked' /\ Copied'
  BY <1>1, <1>2, <1>3 DEF RInv, RTypes, Phases, Checked, Copied, Fits
<1>7. Elsewhere' /\ Executed' /\ Items' /\ Cleaned'
  BY <1>1, <1>4, <1>5 DEF RInv, Elsewhere, Executed, Items, Cleaned
<1> QED
  BY <1>3, <1>6, <1>7 DEF RInv

(* The threads.                                                            *)
LEMMA ThreadsStep ==
  ASSUME RInv, FeederStep \/ ReaderStep \/ MainStep
  PROVE  RInv'
<1>1. /\ pc = "stream" /\ PipeInv
      /\ UNCHANGED <<command, databases, outside, history, session, pc>>
  BY DEF RInv, Phases, FeederStep, ReaderStep, MainStep
<1>2. CASE Feeder
  <2>1. UNCHANGED <<doc, taken>> /\ taken \in Nat
    BY <1>1, <1>2 DEF PipeInv, PipeTypeOK, Feeder, FeederFails, ReadInput, WriteInput, BrokenPipe, CloseInput
  <2> QED
    BY <1>1, <1>2, <2>1, FeederInv, StreamStep
<1>3. CASE \E s \in Streams : Reader(s)
  <2>1. UNCHANGED <<doc, taken>> /\ taken \in Nat
    BY <1>1, <1>3 DEF PipeInv, PipeTypeOK, Reader, Drain, DrainEnds
  <2> QED
    BY <1>1, <1>3, <2>1, ReaderInv, StreamStep
<1>4. CASE WaitClient \/ JoinFeeder \/ JoinReaders
  <2>1. UNCHANGED <<doc, taken>> /\ taken \in Nat
    BY <1>1, <1>4 DEF PipeInv, PipeTypeOK, WaitClient, JoinFeeder, JoinReaders
  <2> QED
    BY <1>1, <1>4, <2>1, MainInv, StreamStep DEF Main
<1> QED
  BY <1>2, <1>3, <1>4 DEF FeederStep, ReaderStep, MainStep

(* What the client does without a statement of the input.                  *)
LEMMA ClientStep ==
  ASSUME RInv, ClientGoesOn \/ ClientSurprises
  PROVE  RInv'
<1>1. /\ pc = "stream" /\ PipeInv
      /\ UNCHANGED <<command, databases, outside, history, session, pc>>
  BY DEF RInv, Phases, ClientGoesOn, ClientSurprises
<1>2. TakeQuit \/ Emit \/ ExitAtEnd \/ Abort \/ HasMessage
  BY DEF ClientGoesOn, ClientSurprises, Refused
<1>3. PipeInv'
  BY <1>1, <1>2, ClientInv DEF Client
<1>4. CASE TakeQuit
  <2>1. /\ UNCHANGED doc /\ taken' = taken + 1 /\ doc[taken + 1] = "quit"
        /\ taken \in Nat /\ taken + 1 \in DOMAIN doc
    BY <1>1, <1>4 DEF TakeQuit, Active, NextChunk, PipeInv, PipeTypeOK
  <2> QED
    BY <1>1, <1>3, <2>1, StreamStep
<1>5. CASE ~TakeQuit
  <2>1. UNCHANGED <<doc, taken>> /\ taken \in Nat
    BY <1>1, <1>2, <1>5 DEF PipeInv, PipeTypeOK, Emit, ExitAtEnd, Abort, HasMessage
  <2> QED
    BY <1>1, <1>3, <2>1, StreamStep
<1> QED
  BY <1>4, <1>5

(* A statement is executed in the database the session is in.              *)
LEMMA ExecuteStep == ASSUME RInv, Execute PROVE RInv'
<1>1. /\ pc = "stream" /\ engine = "mysql" /\ PipeInv /\ Take
      /\ UNCHANGED <<command, outside, history, pc>>
  BY DEF RInv, Phases, Execute
<1>2. /\ PipeInv' /\ UNCHANGED <<doc, main>>
      /\ taken \in Nat /\ taken' = taken + 1 /\ taken + 1 \in DOMAIN doc
      /\ doc \in Seq(Statements) /\ NextChunk = doc[taken + 1]
  BY <1>1, ClientInv DEF Client, Take, Active, NextChunk, PipeInv, PipeTypeOK
<1>3. /\ Astray(doc, taken) /\ NextChunk # "useTarget" => Astray(doc, taken')
      /\ Astray(doc, taken) /\ NextChunk \in Objects => NextChunk \in LedAway(doc)
      /\ Astray(doc, taken) => Leaves(doc)
  BY <1>2, AstrayLemma
<1>4. CASE Make
  <2>1. NextChunk \in Objects /\ NextChunk # "useTarget" /\ UNCHANGED <<exists, session>>
    BY <1>4 DEF Make, Words
  <2>2. CASE session = "target"
    <3>1. target' = [target EXCEPT ![NextChunk] = "restored"] /\ UNCHANGED other
      BY <1>4, <2>2 DEF Make
    <3>2. /\ target' \in [Objects -> State]
          /\ \A o \in Objects : target'[o] = IF o = NextChunk THEN "restored" ELSE target[o]
      BY <2>1, <3>1 DEF RInv, RTypes, State
    <3>3. RTypes' /\ Phases' /\ Checked' /\ Copied'
      BY <1>1, <1>2, <2>1, <3>1, <3>2 DEF RInv, RTypes, Phases, Checked, Copied, Fits
    <3>4. Elsewhere' /\ Items' /\ Cleaned'
      BY <1>1, <1>2, <1>3, <2>1, <2>2, <3>1, <3>2 DEF RInv, Elsewhere, Items, Cleaned
    <3>5. Executed'
      BY <1>1, <1>2, <2>1, <3>1, <3>2 DEF RInv, Executed, Brought, NextChunk, Words
    <3> QED
      BY <1>2, <3>3, <3>4, <3>5 DEF RInv
  <2>3. CASE session = "other"
    <3>1. other' = [other EXCEPT ![NextChunk] = "restored"] /\ UNCHANGED target
      BY <1>4, <2>3 DEF Make
    <3>2. /\ other' \in [Objects -> State] /\ Leaves(doc)
          /\ \A o \in Objects : other'[o] = IF o = NextChunk THEN "restored" ELSE other[o]
          /\ Has(doc, "use") \/ NextChunk \in LedAway(doc)
      BY <1>3, <2>1, <2>3, <3>1 DEF RInv, RTypes, State, Elsewhere, Leaves
    <3>3. RTypes' /\ Phases' /\ Checked' /\ Copied'
      BY <1>1, <1>2, <2>1, <3>1, <3>2 DEF RInv, RTypes, Phases, Checked, Copied, Fits
    <3>4. Elsewhere' /\ Items' /\ Cleaned'
      BY <1>1, <1>2, <1>3, <2>1, <2>3, <3>1, <3>2 DEF RInv, Elsewhere, Items, Cleaned
    <3>5. Executed'
      BY <1>1, <1>2, <2>1, <3>1, <3>2 DEF RInv, Executed, Brought, NextChunk, Words
    <3> QED
      BY <1>2, <3>3, <3>4, <3>5 DEF RInv
  <2> QED
    BY <2>2, <2>3 DEF RInv, RTypes
<1>5. CASE Use
  <2>1. /\ NextChunk \in {"use", "useUnseen", "useTarget"} /\ UNCHANGED databases
        /\ session' = IF NextChunk = "useTarget" THEN "target" ELSE "other"
    BY <1>5 DEF Use
  <2>2. session' = "other" => Has(doc, "use") \/ Astray(doc, taken')
    BY <1>2, <2>1 DEF Has, Astray
  <2>3. RTypes' /\ Phases' /\ Checked' /\ Copied'
    BY <1>1, <1>2, <2>1 DEF RInv, RTypes, Phases, Checked, Copied, Fits
  <2>4. Elsewhere' /\ Items' /\ Cleaned'
    BY <1>1, <1>2, <2>1, <2>2 DEF RInv, Elsewhere, Items, Cleaned
  <2>5. Executed'
    BY <1>1, <1>2, <2>1 DEF RInv, Executed, Brought, NextChunk, Words
  <2> QED
    BY <1>2, <2>3, <2>4, <2>5 DEF RInv
<1>6. CASE ChangeDatabases
  <2>1. /\ NextChunk = "lifecycle" /\ other' = [o \in Objects |-> "none"]
        /\ UNCHANGED <<target, exists, session>>
    BY <1>6 DEF ChangeDatabases
  <2>2. Has(doc, "lifecycle") /\ other' \in [Objects -> State]
    BY <1>2, <2>1 DEF Has, NextChunk, State
  <2>3. RTypes' /\ Phases' /\ Checked' /\ Copied'
    BY <1>1, <1>2, <2>1, <2>2 DEF RInv, RTypes, Phases, Checked, Copied, Fits
  <2>4. Elsewhere' /\ Items' /\ Cleaned'
    BY <1>1, <1>2, <1>3, <2>1, <2>2 DEF RInv, Elsewhere, Items, Cleaned
  <2>5. Executed'
    BY <1>1, <1>2, <2>1 DEF RInv, Executed, Brought, NextChunk, Words
  <2> QED
    BY <1>2, <2>3, <2>4, <2>5 DEF RInv
<1>7. CASE ChangeElsewhere
  <2>1. /\ NextChunk = "qualified" /\ UNCHANGED <<target, exists, session>>
        /\ \E o \in Objects : other' = [other EXCEPT ![o] = "restored"]
    BY <1>7 DEF ChangeElsewhere
  <2>2. Has(doc, "qualified") /\ other' \in [Objects -> State]
    <3>1. Has(doc, "qualified")
      BY <1>2, <2>1 DEF Has
    <3>2. other' \in [Objects -> State]
      BY <2>1 DEF State, RInv, RTypes
    <3> QED
      BY <3>1, <3>2
  <2>3. RTypes' /\ Phases' /\ Checked' /\ Copied'
    BY <1>1, <1>2, <2>1, <2>2 DEF RInv, RTypes, Phases, Checked, Copied, Fits
  <2>4. Elsewhere' /\ Items' /\ Cleaned'
    BY <1>1, <1>2, <1>3, <2>1, <2>2 DEF RInv, Elsewhere, Items, Cleaned
  <2>5. Executed'
    BY <1>1, <1>2, <2>1 DEF RInv, Executed, Brought, NextChunk, Words
  <2> QED
    BY <1>2, <2>3, <2>4, <2>5 DEF RInv
<1> QED
  BY <1>4, <1>5, <1>6, <1>7 DEF Execute

-----------------------------------------------------------------------------
\* The other sessions.

(* Nobody else makes an object of before, or takes one away unnoticed.     *)
LEMMA OthersStep == ASSUME RInv, Others PROVE RInv'
<1>1. UNCHANGED <<command, pc, history, session, pipes, other>> /\ doc' = doc
  BY DEF Others
<1>2. path' \in Files \cup {NoFile} /\ (path # NoFile => Fits(path))'
  BY <1>1 DEF Others, RInv, RTypes, Fits
<1>3. /\ target' \in [Objects -> State] /\ exists' \in BOOLEAN
      /\ \A o \in Objects : target'[o] = target[o] \/ target'[o] \in {"theirs", "gone"}
  BY DEF Others, RInv, RTypes, State
<1>4. RTypes' /\ Phases' /\ Checked' /\ Copied'
  BY <1>1, <1>2, <1>3 DEF RInv, RTypes, Phases, Checked, Copied
<1>5. Elsewhere' /\ Cleaned'
  BY <1>1, <1>3 DEF RInv, Elsewhere, Cleaned
<1>6. Executed' /\ Items'
  BY <1>1, <1>3 DEF RInv, Executed, Items, Brought
<1> QED
  BY <1>1, <1>4, <1>5, <1>6, StillInv DEF RInv

-----------------------------------------------------------------------------
\* The invariant, and what follows from it.

(* It holds before the command has done anything.                          *)
LEMMA RestoreInit == Init => RInv
<1> SUFFICES ASSUME Init PROVE RInv
  OBVIOUS
<1>1. PipeInv /\ doc = <<>> /\ taken = 0 /\ main = "idle"
  BY InitInv DEF Init, PipeInit
<1>2. /\ engine \in {"mysql", "postgres"} /\ clean \in BOOLEAN /\ exists \in BOOLEAN
      /\ path \in Files \cup {NoFile} /\ (path # NoFile => Fits(path))
  BY FilesAssumption DEF Init
<1>3. /\ target \in [Objects -> State] /\ other \in [Objects -> State]
  <2>1. PICK S \in FirstObjects : target = [o \in Objects |-> IF o \in S THEN "old" ELSE "none"]
    BY DEF Init
  <2> QED
    BY <2>1 DEF Init, State
<1>4. /\ pc = "start" /\ copied = FALSE /\ copy \in Seq(Statements)
      /\ session = "target" /\ checked = NoFile /\ dropped = FALSE
  BY DEF Init
<1>5. RTypes
  BY <1>2, <1>3, <1>4 DEF RTypes
<1>6. Phases /\ Checked /\ Copied /\ Elsewhere /\ Executed /\ Items /\ Cleaned
  BY <1>1 DEF Init, Phases, Checked, Copied, Elsewhere, Executed, Items, Cleaned
<1> QED
  BY <1>1, <1>5, <1>6 DEF RInv

(* Each step keeps it.                                                     *)
LEMMA RestoreNext == RInv /\ [Next]_vars => RInv'
<1> SUFFICES ASSUME RInv, [Next]_vars PROVE RInv'
  OBVIOUS
<1>1. CASE UNCHANGED vars
  <2>1. UNCHANGED <<command, databases, outside, history, session, pc>> /\ UNCHANGED pipes
    BY <1>1 DEF vars
  <2>2. UNCHANGED doc /\ (engine = "mysql" => PipeInv')
    BY <2>1, StillInv DEF RInv
  <2>3. RTypes' /\ Phases' /\ Checked' /\ Copied' /\ Elsewhere'
    BY <2>1 DEF RInv, RTypes, Phases, Checked, Copied, Elsewhere, Fits
  <2>4. Executed' /\ Items' /\ Cleaned'
    BY <2>1 DEF RInv, Executed, Items, Cleaned, Brought
  <2> QED
    BY <2>1, <2>2, <2>3, <2>4 DEF RInv
<1>2. CASE Sequential
  BY <1>2, PreflightStep, VerifyStep, ListObjectsStep, DropObjectStep, CleanEndsStep,
     StartRestoreStep, RestoreEndsStep, ValidateArchiveStep, CopyArchiveStep,
     CleanDatabaseStep, ReadArchiveStep, RestoreItemStep, ArchiveRestoredStep, FailStep
     DEF Sequential
<1>3. CASE Command
  BY <1>2, <1>3, OpenInputStep, ThreadsStep, ExecuteStep, ClientStep DEF Command
<1> QED
  BY <1>1, <1>3, OthersStep DEF Next

(* The invariant holds of every restore.                                   *)
THEOREM Invariance == Spec => []RInv
BY RestoreInit, RestoreNext, PTL DEF Spec

(* Something is dropped only under --clean, and only for an input that was *)
(* read to its end before and found fit (restore_database checks the input *)
(* before it cleans the target).                                           *)
THEOREM NothingIsDroppedUnchecked == Spec => []NothingDroppedUnchecked
<1>1. RInv => NothingDroppedUnchecked
  BY DEF RInv, Checked, NothingDroppedUnchecked
<1> QED
  BY <1>1, Invariance, PTL

(* What is changed in another database is named in full by the input, or   *)
(* follows a USE that rebase_dump_input does not see (MYSQL_USE_STATEMENT  *)
(* matches whole lines), up to the next USE it has rewritten; or the input *)
(* is a file that was put at the path after the preflight.                 *)
THEOREM OnlyTheTargetChanges == Spec => []OnlyTargetChanges
<1>1. RInv => OnlyTargetChanges
  <2> SUFFICES ASSUME RInv, NEW o \in Objects, other[o] # "old",
                      ~Has(doc, "qualified"), o \notin LedAway(doc)
               PROVE  ~copied /\ checked # doc
    BY DEF OnlyTargetChanges
  <2>1. engine = "mysql" /\ (Has(doc, "use") \/ Has(doc, "lifecycle"))
    BY DEF RInv, Elsewhere
  <2>2. doc # <<>> /\ doc \in Seq(Statements)
    BY <2>1, EmptyLemma DEF RInv, PipeInv, PipeTypeOK
  <2>3. checked # doc
    BY <2>1, <2>2 DEF RInv, Checked
  <2> QED
    BY <2>1, <2>2, <2>3 DEF RInv, Copied
<1> QED
  BY <1>1, Invariance, PTL

(* The client of a restore that succeeds has been given the whole file.    *)
THEOREM RestoreIsRead == Spec => []SuccessMeansRead
<1>1. RInv => SuccessMeansRead
  BY DEF RInv, RTypes, Phases, PipeInv, PipeTypeOK, Feeding, Ended, Joined, SuccessMeansRead
<1> QED
  BY <1>1, Invariance, PTL

(* After a success all objects of the input are in the target, and with    *)
(* --clean nothing is left of before; a refused statement means a failure  *)
(* (ensure_command_succeeded after the joins of _run_with_streamed_input,  *)
(* and the return code of pg_restore).                                     *)
THEOREM SuccessIsRestored == Spec => []SuccessMeansRestored
<1>1. RInv => SuccessMeansRestored
  <2> SUFFICES ASSUME RInv, pc = "done"
               PROVE  /\ ~Leaves(doc) => \A o \in Made(doc) : Brought(o)
                      /\ clean => \A o \in Objects : target[o] # "old"
                      /\ ~Has(doc, "bad") \/ Has(doc, "quit")
    BY DEF SuccessMeansRestored, Brought
  <2>1. clean => \A o \in Objects : target[o] # "old"
    BY DEF RInv, Cleaned
  <2>2. CASE engine = "mysql"
    <3>1. /\ doc \in Seq(Statements) /\ taken \in 0 .. Len(doc)
          /\ taken = Len(doc) \/ (taken > 0 /\ doc[taken] = "quit")
      BY <2>2 DEF RInv, Phases, PipeInv, PipeTypeOK, Feeding, Ended, Joined
    <3>2. \A i \in 1 .. taken : /\ doc[i] # "bad"
                                /\ doc[i] \in Objects /\ ~Leaves(doc) => Brought(doc[i])
      BY <2>2 DEF RInv, Executed
    <3>3. \A i \in DOMAIN doc : (\A k \in 1 .. i : doc[k] # "quit") => i \in 1 .. taken
      BY <3>1
    <3>4. ~Leaves(doc) => \A o \in Made(doc) : Brought(o)
      BY <3>2, <3>3 DEF Made
    <3>5. ~Has(doc, "bad") \/ Has(doc, "quit")
      BY <3>1, <3>2 DEF Has
    <3> QED
      BY <2>1, <3>4, <3>5
  <2>3. CASE engine = "postgres"
    <3>1. \A i \in DOMAIN doc : doc[i] \in Objects /\ Brought(doc[i])
      BY <2>3 DEF RInv, Phases, Items
    <3> QED
      BY <2>1, <3>1 DEF Made, Has, Words
  <2> QED
    BY <2>2, <2>3 DEF RInv, RTypes
<1> QED
  BY <1>1, Invariance, PTL

===============================================================================
