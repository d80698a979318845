--------------------------- MODULE OutputFilesProofs ---------------------------
(***************************************************************************)
(* Dumps and exports keep their promises for any number of commands on one *)
(* name, any number of tables, and any number of names tried.              *)
(***************************************************************************)
EXTENDS OutputFiles, TLAPS

USE OutputAssumption, PathsAssumption

Places == {"resolve", "prepare", "write", "copy", "uncontain", "check", "compress",
           "publish", "unlink", "size", "rollback", "cleanup", "end"}

Types ==
  /\ kind \in {"mysql", "postgres", "jsonl"}
  /\ archive \in BOOLEAN
  /\ asked \in [Writers -> [named : BOOLEAN, client : {"local", "container"}]]
  /\ names \in [Paths -> Inodes \cup {NoFile}]
  /\ partial \in [Paths -> Writers \cup {NoFile}]
  /\ data \in [Inodes -> Seq(Inodes)]
  /\ pc \in [Writers -> Places]
  /\ target \in [Writers -> Paths]
  /\ handle \in [Writers -> Writers]
  /\ written \in [Writers -> Nat]
  /\ temps \in [Writers -> SUBSET {"sql", "gz", "container"}]
  /\ result \in [Writers -> {"none", "done", "failed", "killed"}]
  /\ published \in [Writers -> Paths \cup {NoFile}]
  /\ met \subseteq Paths
  /\ stuck \subseteq Writers

\* A command that has opened, or tried to open, its file.
Started(w) == pc[w] \notin {"resolve", "prepare"}

\* Where a command is, and what it has done by then.
Course ==
  \A w \in Writers :
    /\ ~Started(w) => /\ written[w] = 0 /\ handle[w] = w /\ temps[w] = {}
                      /\ published[w] = NoFile /\ result[w] = "none"
    /\ result[w] \in {"done", "killed"} => pc[w] = "end"
    /\ pc[w] = "end" => result[w] # "none"
    /\ result[w] = "failed" => pc[w] \in {"uncontain", "cleanup", "end"}
    /\ (pc[w] = "cleanup" /\ result[w] = "none") => published[w] # NoFile
    /\ pc[w] \in {"unlink", "size", "rollback"} => published[w] # NoFile
    /\ published[w] # NoFile => pc[w] \in {"unlink", "size", "rollback", "cleanup", "end"}
    /\ pc[w] = "rollback" => kind = "jsonl"
    /\ pc[w] = "unlink" => Careful(w)
    /\ kind = "jsonl" =>
         /\ pc[w] \in {"resolve", "prepare", "write", "rollback", "cleanup", "end"}
         /\ temps[w] = {}

\* A dump works on a file of its own, and publishes it when it is whole.
DumpFiles ==
  kind # "jsonl" =>
    /\ \A p \in Paths : partial[p] = NoFile
    /\ \A w \in Writers :
         /\ handle[w] = w
         /\ Len(data[w]) = written[w]
         /\ \A k \in 1 .. written[w] : data[w][k] = w
         /\ pc[w] \in {"copy", "check"} => written[w] \in {0, Tables}
         /\ (pc[w] = "uncontain" /\ result[w] = "none") => written[w] \in {0, Tables}
         /\ pc[w] \in {"compress", "publish"} => written[w] = Tables
         /\ published[w] # NoFile => written[w] = Tables
         /\ \A p \in Paths : names[p] = w => published[w] = p
         /\ (pc[w] = "cleanup" /\ result[w] = "failed" /\ ~Careful(w)) =>
              \A p \in Paths : names[p] # w

\* Exports that have not met do not touch each other's file.
ExportFiles ==
  kind = "jsonl" =>
    /\ \A w \in Writers : target[w] = Base
    /\ \A p \in Paths \ {Base} : names[p] = NoFile /\ partial[p] = NoFile
    /\ \A w \in Writers : w \in {names[Base], partial[Base]} => Started(w)
    /\ partial[Base] # NoFile => partial[Base] # names[Base]
    /\ Base \notin met =>
         /\ \A v, w \in Writers : pc[v] = "write" /\ pc[w] = "write" => v = w
         /\ \A w \in Writers : pc[w] = "write" =>
              /\ names[Base] # handle[w]
              /\ partial[Base] \in {NoFile, handle[w]}
              /\ Len(data[handle[w]]) = written[w]
              /\ \A k \in 1 .. written[w] : data[handle[w]][k] = w

\* A command removes its own temporary files, unless that fails.
OwnTemps ==
  \A w \in Writers :
    /\ "container" \in temps[w] =>
         /\ asked[w].client = "container"
         /\ pc[w] \in {"write", "copy", "uncontain"} \/ result[w] = "killed" \/ w \in stuck
    /\ (pc[w] = "end" /\ result[w] # "killed" /\ w \notin stuck) => temps[w] = {}

\* While there is a .tmp, an export is there that will remove or rename it.
SharedTemps ==
  (stuck = {} /\ \A w \in Writers : result[w] # "killed") =>
    \A p \in Paths : partial[p] # NoFile =>
      \E w \in Writers : /\ target[w] = p
                         /\ \/ pc[w] = "write"
                            \/ pc[w] = "cleanup" /\ published[w] = NoFile

FInv == Types /\ Course /\ DumpFiles /\ ExportFiles /\ OwnTemps /\ SharedTemps

-----------------------------------------------------------------------------
\* The invariant is kept.

(* A name that is tried next is a name.                                    *)
LEMMA PathsLemma ==
  ASSUME NEW p \in Paths
  PROVE  /\ p.seq < MaxSeq => [p EXCEPT !.seq = @ + 1] \in Paths
         /\ p.again < MaxSeq => [p EXCEPT !.again = @ + 1] \in Paths
BY DEF Paths

(* The first name tried is a name.                                         *)
LEMMA BaseLemma == Base \in Paths
BY DEF Base, Paths

(* What is written to a file stays in order.                               *)
LEMMA PutLemma ==
  ASSUME NEW d \in Seq(Inodes), NEW k \in Nat \ {0}, NEW e \in Inodes
  PROVE  /\ Put(d, k, e) \in Seq(Inodes)
         /\ Len(Put(d, k, e)) = IF k > Len(d) THEN k ELSE Len(d)
         /\ Put(d, k, e)[k] = e
         /\ \A j \in 1 .. Len(Put(d, k, e)) :
              j # k => Put(d, k, e)[j] = IF j <= Len(d) THEN d[j] ELSE NotWritten
<1> DEFINE m == IF k > Len(d) THEN k ELSE Len(d)
           f == Put(d, k, e)
<1>1. m \in Nat /\ Len(d) \in Nat /\ k \in 1 .. m
  OBVIOUS
<1>2. f = [j \in 1 .. m |-> IF j = k THEN e ELSE IF j <= Len(d) THEN d[j] ELSE NotWritten]
  BY DEF Put
<1>3. NotWritten \in Inodes
  BY DEF NotWritten, Inodes, Inodes
<1>4. \A j \in 1 .. m : j <= Len(d) => d[j] \in Inodes
  BY <1>1
<1> HIDE DEF m, f
<1>5. \A j \in 1 .. m : f[j] \in Inodes
  BY <1>2, <1>3, <1>4
<1>6. f \in Seq(Inodes) /\ Len(f) = m
  BY <1>1, <1>2, <1>5
<1> QED
  BY <1>1, <1>2, <1>6 DEF m, f

(* What is read back from a file is what was put there, or was there, or a *)
(* hole.                                                                   *)
LEMMA PutEntryLemma ==
  ASSUME NEW d \in Seq(Inodes), NEW n \in Nat \ {0}, NEW e \in Inodes,
         NEW k \in 1 .. Len(Put(d, n, e))
  PROVE  \/ Put(d, n, e)[k] = e
         \/ k \in 1 .. Len(d) /\ Put(d, n, e)[k] = d[k]
         \/ Put(d, n, e)[k] = NotWritten
<1>1. /\ Put(d, n, e)[n] = e
      /\ k # n => Put(d, n, e)[k] = IF k <= Len(d) THEN d[k] ELSE NotWritten
  BY PutLemma
<1>2. Len(d) \in Nat
  OBVIOUS
<1> QED
  BY <1>1, <1>2

(* A command that writes at the end of a file of its own appends to it.    *)
LEMMA AppendLemma ==
  ASSUME NEW d \in Seq(Inodes), NEW e \in Inodes, NEW w,
         \A k \in 1 .. Len(d) : d[k] = w, e = w
  PROVE  /\ Len(Put(d, Len(d) + 1, e)) = Len(d) + 1
         /\ \A k \in 1 .. Len(d) + 1 : Put(d, Len(d) + 1, e)[k] = w
<1> DEFINE n == Len(d) + 1
           f == Put(d, n, e)
<1>1. n \in Nat \ {0} /\ Len(d) \in Nat /\ n > Len(d)
  OBVIOUS
<1> HIDE DEF n
<1>2. /\ Len(f) = n /\ f[n] = e
      /\ \A j \in 1 .. Len(f) : j # n => f[j] = IF j <= Len(d) THEN d[j] ELSE NotWritten
  BY <1>1, PutLemma
<1> HIDE DEF f
<1>3. ASSUME NEW k \in 1 .. n PROVE f[k] = w
  <2>1. CASE k = n
    BY <1>2, <2>1
  <2>2. CASE k # n
    <3>1. k \in 1 .. Len(d) /\ k <= Len(d)
      BY <1>1, <2>2 DEF n
    <3> QED
      BY <1>2, <2>2, <3>1
  <2> QED
    BY <2>1, <2>2
<1> QED
  BY <1>2, <1>3 DEF f, n

(* ... and the file goes on holding what it has written, and that alone.   *)
LEMMA WritesLemma ==
  ASSUME Types, NEW w \in Writers, WriteTable(w),
         Len(data[handle[w]]) = written[w],
         \A k \in 1 .. written[w] : data[handle[w]][k] = w
  PROVE  /\ handle' = handle
         /\ Len(data'[handle[w]]) = written'[w]
         /\ \A k \in 1 .. written'[w] : data'[handle[w]][k] = w
         /\ \A i \in Inodes \ {handle[w]} : data'[i] = data[i]
         /\ \A v \in Writers \ {w} : written'[v] = written[v]
<1> DEFINE d == data[handle[w]]
           e == w
<1>1. handle[w] \in Inodes /\ d \in Seq(Inodes)
  BY DEF Types, Inodes
<1>2. e \in Inodes /\ e = w
  BY DEF Inodes, Types
<1>3. /\ data' = [data EXCEPT ![handle[w]] = Put(d, Len(d) + 1, e)]
      /\ written' = [written EXCEPT ![w] = Len(d) + 1]
      /\ handle' = handle
  BY DEF WriteTable
<1>4. /\ \A i \in Inodes \ {handle[w]} : data'[i] = data[i]
      /\ data'[handle[w]] = Put(d, Len(d) + 1, e)
      /\ \A v \in Writers \ {w} : written'[v] = written[v]
      /\ written'[w] = Len(d) + 1
  BY <1>1, <1>3 DEF Types
<1>5. \A k \in 1 .. Len(d) : d[k] = w
  OBVIOUS
<1> HIDE DEF d, e
<1>6. /\ Len(Put(d, Len(d) + 1, e)) = Len(d) + 1
      /\ \A k \in 1 .. Len(d) + 1 : Put(d, Len(d) + 1, e)[k] = w
  BY <1>1, <1>2, <1>5, AppendLemma
<1> QED
  BY <1>3, <1>4, <1>6

(* Every step keeps the types.                                             *)
LEMMA TypesStep ==
  ASSUME Types, Next
  PROVE  Types'
<1> USE DEF Types, Raise, Goto, directory, command_line,
           command, environment, Places
<1>1. ASSUME NEW w \in Writers, TryNextName(w) PROVE Types'
  <2>1. [target[w] EXCEPT !.seq = @ + 1] \in Paths
    BY <1>1, PathsLemma DEF TryNextName
  <2> QED
    BY <1>1, <2>1 DEF TryNextName
<1>2. ASSUME NEW w \in Writers, ChooseName(w) PROVE Types'
  BY <1>2 DEF ChooseName
<1>3. ASSUME NEW w \in Writers, StartClient(w) PROVE Types'
  <2>1. CASE /\ Goto(w, "write") /\ UNCHANGED result
             /\ temps' = [temps EXCEPT ![w] =
                   (IF kind = "mysql" THEN {"sql"} ELSE {})
                     \cup (IF asked[w].client = "container" THEN {"container"} ELSE {})]
    BY <1>3, <2>1 DEF StartClient
  <2>2. CASE Raise(w, "cleanup") /\ UNCHANGED temps
    BY <1>3, <2>2 DEF StartClient
  <2> QED
    BY <1>3, <2>1, <2>2 DEF StartClient
<1>4. ASSUME NEW w \in Writers, ClientEnds(w) PROVE Types'
  BY <1>4 DEF ClientEnds
<1>5. ASSUME NEW w \in Writers, CopyOut(w) PROVE Types'
  <2>1. CASE /\ kind = "mysql" \/ data[w] # <<>>
             /\ Goto(w, "uncontain") /\ UNCHANGED result
             /\ temps' = [temps EXCEPT ![w] = @ \cup {"sql"}]
    BY <1>5, <2>1 DEF CopyOut
  <2>2. CASE /\ Raise(w, "uncontain")
             /\ temps' = temps
    BY <1>5, <2>2 DEF CopyOut
  <2>3. CASE /\ Raise(w, "uncontain")
             /\ temps' = [temps EXCEPT ![w] = @ \cup {"sql"}]
    BY <1>5, <2>3 DEF CopyOut
  <2> QED
    BY <1>5, <2>1, <2>2, <2>3 DEF CopyOut
<1>6. ASSUME NEW w \in Writers, RemoveContainerFile(w) PROVE Types'
  <2>1. temps' \in [Writers -> SUBSET {"sql", "gz", "container"}] /\ stuck' \subseteq Writers
    <3>1. CASE temps' = [temps EXCEPT ![w] = @ \ {"container"}] /\ stuck' = stuck
      BY <3>1
    <3>2. CASE temps' = temps /\ stuck' = stuck \cup {w}
      BY <3>2
    <3> QED
      BY <1>6, <3>1, <3>2 DEF RemoveContainerFile
  <2>2. pc' \in [Writers -> Places] /\ result' \in [Writers -> {"none", "done", "failed", "killed"}]
    <3>1. CASE Goto(w, "cleanup") /\ UNCHANGED result
      BY <3>1 DEF Places
    <3>2. CASE Goto(w, "check") /\ UNCHANGED result
      BY <3>2 DEF Places
    <3>3. CASE Raise(w, "cleanup")
      BY <3>3 DEF Places
    <3> QED
      BY <1>6, <3>1, <3>2, <3>3 DEF RemoveContainerFile
  <2> QED
    BY <1>6, <2>1, <2>2 DEF RemoveContainerFile
<1>7. ASSUME NEW w \in Writers, CheckDump(w) PROVE Types'
  <2>1. CASE /\ "sql" \in temps[w] /\ data[w] # <<>> /\ UNCHANGED result
             /\ Goto(w, IF archive THEN "compress" ELSE "publish")
    BY <1>7, <2>1 DEF CheckDump
  <2>2. CASE Raise(w, "cleanup")
    BY <1>7, <2>2 DEF CheckDump
  <2> QED
    BY <1>7, <2>1, <2>2 DEF CheckDump
<1>8. ASSUME NEW w \in Writers, Compress(w) PROVE Types'
  <2>1. CASE Goto(w, "publish") /\ UNCHANGED result
    BY <1>8, <2>1 DEF Compress
  <2>2. CASE Raise(w, "cleanup")
    BY <1>8, <2>2 DEF Compress
  <2> QED
    BY <1>8, <2>1, <2>2 DEF Compress
<1>9. ASSUME NEW w \in Writers, Replace(w) PROVE Types'
  <2>1. names' \in [Paths -> Inodes \cup {NoFile}]
    BY <1>9 DEF Replace, Inodes
  <2> QED
    BY <1>9, <2>1 DEF Replace
<1>10. ASSUME NEW w \in Writers, Link(w) PROVE Types'
  <2>1. names' \in [Paths -> Inodes \cup {NoFile}]
    BY <1>10 DEF Link, Inodes
  <2> QED
    BY <1>10, <2>1 DEF Link
<1>11. ASSUME NEW w \in Writers, LinkNextName(w) PROVE Types'
  <2>1. [target[w] EXCEPT !.again = @ + 1] \in Paths
    BY <1>11, PathsLemma DEF LinkNextName
  <2> QED
    BY <1>11, <2>1 DEF LinkNextName
<1>12. ASSUME NEW w \in Writers, PublishFails(w) PROVE Types'
  BY <1>12 DEF PublishFails
<1>13. ASSUME NEW w \in Writers, UnlinkSource(w) PROVE Types'
  <2>1. CASE /\ Goto(w, "size") /\ UNCHANGED result
             /\ temps' = [temps EXCEPT ![w] = @ \ {Source(w)}]
    BY <1>13, <2>1 DEF UnlinkSource
  <2>2. CASE Raise(w, "cleanup") /\ UNCHANGED temps
    BY <1>13, <2>2 DEF UnlinkSource
  <2> QED
    BY <1>13, <2>1, <2>2 DEF UnlinkSource
<1>14. ASSUME NEW w \in Writers, CheckSize(w) PROVE Types'
  <2>1. CASE Goto(w, "cleanup") /\ UNCHANGED result /\ names[published[w]] # NoFile
    BY <1>14, <2>1 DEF CheckSize
  <2>2. CASE Raise(w, "cleanup") /\ names[published[w]] = NoFile
    BY <1>14, <2>2 DEF CheckSize
  <2> QED
    BY <1>14, <2>1, <2>2 DEF CheckSize
<1>15. ASSUME NEW w \in Writers, OpenPartial(w) PROVE Types'
  <2> DEFINE inode == IF partial[target[w]] = NoFile THEN w ELSE partial[target[w]]
  <2>1. inode \in Writers /\ inode \in Inodes
    BY DEF Inodes
  <2>2. /\ partial' = [partial EXCEPT ![target[w]] = inode]
        /\ handle' = [handle EXCEPT ![w] = inode]
        /\ data' = [data EXCEPT ![inode] = <<>>]
    BY <1>15 DEF OpenPartial
  <2> HIDE DEF inode
  <2>3. data' \in [Inodes -> Seq(Inodes)]
    <3>1. <<>> \in Seq(Inodes)
      OBVIOUS
    <3> QED
      BY <2>1, <2>2, <3>1
  <2> QED
    BY <1>15, <2>1, <2>2, <2>3 DEF OpenPartial
<1>16. ASSUME NEW w \in Writers, ExportRefused(w) PROVE Types'
  <2>1. CASE Goto(w, "end")
    BY <1>16, <2>1 DEF ExportRefused
  <2>2. CASE Goto(w, "cleanup")
    BY <1>16, <2>2 DEF ExportRefused
  <2> QED
    BY <1>16, <2>1, <2>2 DEF ExportRefused
<1>17. ASSUME NEW w \in Writers, PublishExport(w) PROVE Types'
  <2>1. /\ pc' \in [Writers -> Places]
        /\ result' \in [Writers -> {"none", "done", "failed", "killed"}]
    <3>1. CASE partial[target[w]] # NoFile
      BY <1>17, <3>1 DEF PublishExport
    <3>2. CASE partial[target[w]] = NoFile
      <4>1. Raise(w, "cleanup")
        BY <1>17, <3>2 DEF PublishExport
      <4> QED
        BY <4>1
    <3> QED
      BY <3>1, <3>2
  <2>2. /\ names' \in [Paths -> Inodes \cup {NoFile}]
        /\ published' \in [Writers -> Paths \cup {NoFile}]
    <3>1. CASE partial[target[w]] # NoFile
      <4>1. partial[target[w]] \in Inodes /\ target[w] \in Paths
        BY <3>1 DEF Inodes
      <4>2. /\ names' = [names EXCEPT ![target[w]] = partial[target[w]]]
            /\ published' = [published EXCEPT ![w] = target[w]]
        BY <1>17, <3>1 DEF PublishExport
      <4> QED
        BY <4>1, <4>2
    <3>2. CASE partial[target[w]] = NoFile
      BY <1>17, <3>2 DEF PublishExport
    <3> QED
      BY <3>1, <3>2
  <2> QED
    BY <1>17, <2>1, <2>2 DEF PublishExport
<1>18. ASSUME NEW w \in Writers, Rollback(w) PROVE Types'
  <2>1. CASE Goto(w, "cleanup") /\ UNCHANGED result
    BY <1>18, <2>1 DEF Rollback
  <2>2. CASE Raise(w, "cleanup")
    BY <1>18, <2>2 DEF Rollback
  <2> QED
    BY <1>18, <2>1, <2>2 DEF Rollback
<1>19. ASSUME NEW w \in Writers, WriteTable(w) PROVE Types'
  <2>1. /\ data' = [data EXCEPT ![handle[w]] = Put(data[handle[w]], written[w] + 1, w)]
        /\ handle[w] \in Inodes /\ data[handle[w]] \in Seq(Inodes)
        /\ written[w] + 1 \in Nat \ {0}
    BY <1>19 DEF WriteTable, Inodes
  <2>2. w \in Inodes
    BY DEF Inodes
  <2>3. Put(data[handle[w]], written[w] + 1, w) \in Seq(Inodes)
    BY <2>1, <2>2, PutLemma
  <2>4. data' \in [Inodes -> Seq(Inodes)]
    BY <2>1, <2>3
  <2> QED
    BY <1>19, <2>4 DEF WriteTable
<1>20. ASSUME NEW w \in Writers, WriteFails(w) PROVE Types'
  BY <1>20 DEF WriteFails
<1>21. ASSUME NEW w \in Writers, Cleanup(w) PROVE Types'
  <2>1. temps' \in {temps, [temps EXCEPT ![w] = @ \cap {"container"}]}
    BY <1>21 DEF Cleanup
  <2>2. temps' \in [Writers -> SUBSET {"sql", "gz", "container"}]
    <3>1. CASE temps' = temps
      BY <3>1
    <3>2. CASE temps' = [temps EXCEPT ![w] = @ \cap {"container"}]
      BY <3>2
    <3> QED
      BY <2>1, <3>1, <3>2
  <2> QED
    BY <1>21, <2>2 DEF Cleanup
<1>22. ASSUME NEW w \in Writers, Killed(w) PROVE Types'
  BY <1>22 DEF Killed
<1>23. ASSUME NEW p \in Paths, FileRemoved(p) PROVE Types'
  BY <1>23 DEF FileRemoved
<1> QED
  BY <1>1, <1>2, <1>3, <1>4, <1>5, <1>6, <1>7, <1>8, <1>9, <1>10, <1>11, <1>12, <1>13,
     <1>14, <1>15, <1>16, <1>17, <1>18, <1>19, <1>20, <1>21, <1>22, <1>23
  DEF Next, Writer, Dump, Export

(* Every step goes on from where the command was: what has not started     *)
(* has done nothing, and what has ended has said how.                      *)
LEMMA CourseStep ==
  ASSUME Types, Course, Next
  PROVE  Course'
<1> USE DEF Types, Course, Started, Careful, Raise, Goto,
           directory, command_line, command, environment
<1>1. ASSUME NEW w \in Writers, TryNextName(w) PROVE Course'
  BY <1>1 DEF TryNextName
<1>2. ASSUME NEW w \in Writers, ChooseName(w) PROVE Course'
  BY <1>2 DEF ChooseName
<1>3. ASSUME NEW w \in Writers, StartClient(w) PROVE Course'
  <2>1. CASE /\ Goto(w, "write") /\ UNCHANGED result
             /\ temps' = [temps EXCEPT ![w] =
                   (IF kind = "mysql" THEN {"sql"} ELSE {})
                     \cup (IF asked[w].client = "container" THEN {"container"} ELSE {})]
    BY <1>3, <2>1 DEF StartClient
  <2>2. CASE Raise(w, "cleanup") /\ UNCHANGED temps
    BY <1>3, <2>2 DEF StartClient
  <2> QED
    BY <1>3, <2>1, <2>2 DEF StartClient
<1>4. ASSUME NEW w \in Writers, ClientEnds(w) PROVE Course'
  BY <1>4 DEF ClientEnds
<1>5. ASSUME NEW w \in Writers, CopyOut(w) PROVE Course'
  <2>1. CASE /\ kind = "mysql" \/ data[w] # <<>>
             /\ Goto(w, "uncontain") /\ UNCHANGED result
             /\ temps' = [temps EXCEPT ![w] = @ \cup {"sql"}]
    BY <1>5, <2>1 DEF CopyOut
  <2>2. CASE /\ Raise(w, "uncontain")
             /\ temps' = temps
    BY <1>5, <2>2 DEF CopyOut
  <2>3. CASE /\ Raise(w, "uncontain")
             /\ temps' = [temps EXCEPT ![w] = @ \cup {"sql"}]
    BY <1>5, <2>3 DEF CopyOut
  <2> QED
    BY <1>5, <2>1, <2>2, <2>3 DEF CopyOut
<1>6. ASSUME NEW w \in Writers, RemoveContainerFile(w) PROVE Course'
  <2>1. CASE result[w] = "failed" /\ Goto(w, "cleanup") /\ UNCHANGED result
    BY <1>6, <2>1 DEF RemoveContainerFile
  <2>2. CASE result[w] # "failed" /\ Goto(w, "check") /\ UNCHANGED result
    BY <1>6, <2>2 DEF RemoveContainerFile
  <2>3. CASE w \in stuck' /\ Raise(w, "cleanup")
    BY <1>6, <2>3 DEF RemoveContainerFile
  <2> QED
    BY <1>6, <2>1, <2>2, <2>3 DEF RemoveContainerFile
<1>7. ASSUME NEW w \in Writers, CheckDump(w) PROVE Course'
  <2>1. CASE /\ "sql" \in temps[w] /\ data[w] # <<>> /\ UNCHANGED result
             /\ Goto(w, IF archive THEN "compress" ELSE "publish")
    BY <1>7, <2>1 DEF CheckDump
  <2>2. CASE Raise(w, "cleanup")
    BY <1>7, <2>2 DEF CheckDump
  <2> QED
    BY <1>7, <2>1, <2>2 DEF CheckDump
<1>8. ASSUME NEW w \in Writers, Compress(w) PROVE Course'
  <2>1. CASE Goto(w, "publish") /\ UNCHANGED result
    BY <1>8, <2>1 DEF Compress
  <2>2. CASE Raise(w, "cleanup")
    BY <1>8, <2>2 DEF Compress
  <2> QED
    BY <1>8, <2>1, <2>2 DEF Compress
<1>9. ASSUME NEW w \in Writers, Replace(w) PROVE Course'
  BY <1>9 DEF Replace
<1>10. ASSUME NEW w \in Writers, Link(w) PROVE Course'
  BY <1>10 DEF Link
<1>11. ASSUME NEW w \in Writers, LinkNextName(w) PROVE Course'
  BY <1>11 DEF LinkNextName
<1>12. ASSUME NEW w \in Writers, PublishFails(w) PROVE Course'
  BY <1>12 DEF PublishFails
<1>13. ASSUME NEW w \in Writers, UnlinkSource(w) PROVE Course'
  <2>1. CASE /\ Goto(w, "size") /\ UNCHANGED result
             /\ temps' = [temps EXCEPT ![w] = @ \ {Source(w)}]
    BY <1>13, <2>1 DEF UnlinkSource
  <2>2. CASE Raise(w, "cleanup") /\ UNCHANGED temps
    BY <1>13, <2>2 DEF UnlinkSource
  <2> QED
    BY <1>13, <2>1, <2>2 DEF UnlinkSource
<1>14. ASSUME NEW w \in Writers, CheckSize(w) PROVE Course'
  <2>1. CASE Goto(w, "cleanup") /\ UNCHANGED result /\ names[published[w]] # NoFile
    BY <1>14, <2>1 DEF CheckSize
  <2>2. CASE Raise(w, "cleanup") /\ names[published[w]] = NoFile
    BY <1>14, <2>2 DEF CheckSize
  <2> QED
    BY <1>14, <2>1, <2>2 DEF CheckSize
<1>15. ASSUME NEW w \in Writers, OpenPartial(w) PROVE Course'
  BY <1>15 DEF OpenPartial
<1>16. ASSUME NEW w \in Writers, ExportRefused(w) PROVE Course'
  <2>1. CASE Goto(w, "end")
    BY <1>16, <2>1 DEF ExportRefused
  <2>2. CASE Goto(w, "cleanup")
    BY <1>16, <2>2 DEF ExportRefused
  <2> QED
    BY <1>16, <2>1, <2>2 DEF ExportRefused
<1>17. ASSUME NEW w \in Writers, PublishExport(w) PROVE Course'
  <2>1. target[w] # NoFile /\ pc[w] = "write" /\ kind = "jsonl"
    BY <1>17 DEF PublishExport
  <2>2. CASE partial[target[w]] # NoFile
    BY <1>17, <2>1, <2>2 DEF PublishExport
  <2>3. CASE partial[target[w]] = NoFile
    BY <1>17, <2>1, <2>3 DEF PublishExport
  <2> QED
    BY <2>2, <2>3
<1>18. ASSUME NEW w \in Writers, Rollback(w) PROVE Course'
  <2>1. CASE Goto(w, "cleanup") /\ UNCHANGED result
    BY <1>18, <2>1 DEF Rollback
  <2>2. CASE Raise(w, "cleanup")
    BY <1>18, <2>2 DEF Rollback
  <2> QED
    BY <1>18, <2>1, <2>2 DEF Rollback
<1>19. ASSUME NEW w \in Writers, WriteTable(w) PROVE Course'
  BY <1>19 DEF WriteTable
<1>20. ASSUME NEW w \in Writers, WriteFails(w) PROVE Course'
  BY <1>20 DEF WriteFails
<1>21. ASSUME NEW w \in Writers, Cleanup(w) PROVE Course'
  <2>1. CASE /\ temps' = [temps EXCEPT ![w] = @ \cap {"container"}]
             /\ partial' = IF kind = "jsonl" /\ published[w] = NoFile
                             THEN [partial EXCEPT ![target[w]] = NoFile] ELSE partial
             /\ stuck' = stuck
    BY <1>21, <2>1 DEF Cleanup
  <2>2. CASE stuck' = stuck \cup {w} /\ UNCHANGED <<temps, partial>>
    BY <1>21, <2>2 DEF Cleanup
  <2> QED
    BY <1>21, <2>1, <2>2 DEF Cleanup
<1>22. ASSUME NEW w \in Writers, Killed(w) PROVE Course'
  BY <1>22 DEF Killed
<1>23. ASSUME NEW p \in Paths, FileRemoved(p) PROVE Course'
  BY <1>23 DEF FileRemoved
<1> QED
  BY <1>1, <1>2, <1>3, <1>4, <1>5, <1>6, <1>7, <1>8, <1>9, <1>10, <1>11, <1>12, <1>13,
     <1>14, <1>15, <1>16, <1>17, <1>18, <1>19, <1>20, <1>21, <1>22, <1>23
  DEF Next, Writer, Dump, Export

(* A dump goes on owning its file, and publishes it once and whole.        *)
LEMMA DumpStep ==
  ASSUME Types, Course, DumpFiles, Next
  PROVE  DumpFiles'
<1> USE DEF Types, Course, DumpFiles, Started, Careful, Raise, Goto,
           directory, command_line, command, environment
<1>1. ASSUME NEW w \in Writers, TryNextName(w) PROVE DumpFiles'
  BY <1>1 DEF TryNextName
<1>2. ASSUME NEW w \in Writers, ChooseName(w) PROVE DumpFiles'
  BY <1>2 DEF ChooseName
<1>3. ASSUME NEW w \in Writers, StartClient(w) PROVE DumpFiles'
  <2>1. CASE /\ Goto(w, "write") /\ UNCHANGED result
             /\ temps' = [temps EXCEPT ![w] =
                   (IF kind = "mysql" THEN {"sql"} ELSE {})
                     \cup (IF asked[w].client = "container" THEN {"container"} ELSE {})]
    BY <1>3, <2>1 DEF StartClient
  <2>2. CASE Raise(w, "cleanup") /\ UNCHANGED temps
    BY <1>3, <2>2 DEF StartClient
  <2> QED
    BY <1>3, <2>1, <2>2 DEF StartClient
<1>4. ASSUME NEW w \in Writers, ClientEnds(w) PROVE DumpFiles'
  BY <1>4 DEF ClientEnds
<1>5. ASSUME NEW w \in Writers, CopyOut(w) PROVE DumpFiles'
  <2>1. CASE /\ kind = "mysql" \/ data[w] # <<>>
             /\ Goto(w, "uncontain") /\ UNCHANGED result
             /\ temps' = [temps EXCEPT ![w] = @ \cup {"sql"}]
    BY <1>5, <2>1 DEF CopyOut
  <2>2. CASE /\ Raise(w, "uncontain")
             /\ temps' = temps
    BY <1>5, <2>2 DEF CopyOut
  <2>3. CASE /\ Raise(w, "uncontain")
             /\ temps' = [temps EXCEPT ![w] = @ \cup {"sql"}]
    BY <1>5, <2>3 DEF CopyOut
  <2> QED
    BY <1>5, <2>1, <2>2, <2>3 DEF CopyOut
<1>6. ASSUME NEW w \in Writers, RemoveContainerFile(w) PROVE DumpFiles'
  <2>1. CASE result[w] = "failed" /\ Goto(w, "cleanup") /\ UNCHANGED result
    BY <1>6, <2>1 DEF RemoveContainerFile
  <2>2. CASE result[w] # "failed" /\ Goto(w, "check") /\ UNCHANGED result
    <3>1. pc[w] = "uncontain" /\ pc' = [pc EXCEPT ![w] = "check"]
      BY <1>6, <2>2 DEF RemoveContainerFile
    <3>2. result[w] \in {"none", "done", "failed", "killed"}
      OBVIOUS
    <3>3. result[w] = "none"
      BY <2>2, <3>1, <3>2
    <3> QED
      BY <1>6, <2>2, <3>1, <3>3 DEF RemoveContainerFile
  <2>3. CASE w \in stuck' /\ Raise(w, "cleanup")
    BY <1>6, <2>3 DEF RemoveContainerFile
  <2> QED
    BY <1>6, <2>1, <2>2, <2>3 DEF RemoveContainerFile
<1>7. ASSUME NEW w \in Writers, CheckDump(w) PROVE DumpFiles'
  <2>1. CASE /\ "sql" \in temps[w] /\ data[w] # <<>> /\ UNCHANGED result
             /\ Goto(w, IF archive THEN "compress" ELSE "publish")
    BY <1>7, <2>1 DEF CheckDump
  <2>2. CASE Raise(w, "cleanup")
    BY <1>7, <2>2 DEF CheckDump
  <2> QED
    BY <1>7, <2>1, <2>2 DEF CheckDump
<1>8. ASSUME NEW w \in Writers, Compress(w) PROVE DumpFiles'
  <2>1. CASE Goto(w, "publish") /\ UNCHANGED result
    BY <1>8, <2>1 DEF Compress
  <2>2. CASE Raise(w, "cleanup")
    BY <1>8, <2>2 DEF Compress
  <2> QED
    BY <1>8, <2>1, <2>2 DEF Compress
<1>9. ASSUME NEW w \in Writers, Replace(w) PROVE DumpFiles'
  BY <1>9 DEF Replace
<1>10. ASSUME NEW w \in Writers, Link(w) PROVE DumpFiles'
  BY <1>10 DEF Link
<1>11. ASSUME NEW w \in Writers, LinkNextName(w) PROVE DumpFiles'
  BY <1>11 DEF LinkNextName
<1>12. ASSUME NEW w \in Writers, PublishFails(w) PROVE DumpFiles'
  BY <1>12 DEF PublishFails
<1>13. ASSUME NEW w \in Writers, UnlinkSource(w) PROVE DumpFiles'
  <2>1. CASE /\ Goto(w, "size") /\ UNCHANGED result
             /\ temps' = [temps EXCEPT ![w] = @ \ {Source(w)}]
    BY <1>13, <2>1 DEF UnlinkSource
  <2>2. CASE Raise(w, "cleanup") /\ UNCHANGED temps
    BY <1>13, <2>2 DEF UnlinkSource
  <2> QED
    BY <1>13, <2>1, <2>2 DEF UnlinkSource
<1>14. ASSUME NEW w \in Writers, CheckSize(w) PROVE DumpFiles'
  <2>1. CASE Goto(w, "cleanup") /\ UNCHANGED result /\ names[published[w]] # NoFile
    BY <1>14, <2>1 DEF CheckSize
  <2>2. CASE Raise(w, "cleanup") /\ names[published[w]] = NoFile
    BY <1>14, <2>2 DEF CheckSize
  <2> QED
    BY <1>14, <2>1, <2>2 DEF CheckSize
<1>15. ASSUME NEW w \in Writers, OpenPartial(w) PROVE DumpFiles'
  BY <1>15 DEF OpenPartial
<1>16. ASSUME NEW w \in Writers, ExportRefused(w) PROVE DumpFiles'
  <2>1. CASE Goto(w, "end")
    BY <1>16, <2>1 DEF ExportRefused
  <2>2. CASE Goto(w, "cleanup")
    BY <1>16, <2>2 DEF ExportRefused
  <2> QED
    BY <1>16, <2>1, <2>2 DEF ExportRefused
<1>17. ASSUME NEW w \in Writers, PublishExport(w) PROVE DumpFiles'
  <2>1. CASE partial[target[w]] # NoFile
    BY <1>17, <2>1 DEF PublishExport
  <2>2. CASE partial[target[w]] = NoFile
    BY <1>17, <2>2 DEF PublishExport
  <2> QED
    BY <1>17, <2>1, <2>2 DEF PublishExport
<1>18. ASSUME NEW w \in Writers, Rollback(w) PROVE DumpFiles'
  <2>1. CASE Goto(w, "cleanup") /\ UNCHANGED result
    BY <1>18, <2>1 DEF Rollback
  <2>2. CASE Raise(w, "cleanup")
    BY <1>18, <2>2 DEF Rollback
  <2> QED
    BY <1>18, <2>1, <2>2 DEF Rollback
<1>19. ASSUME NEW w \in Writers, WriteTable(w) PROVE DumpFiles'
  <2> SUFFICES ASSUME kind # "jsonl"
               PROVE  DumpFiles'
    BY <1>19 DEF WriteTable
  <2>1. /\ handle[w] = w /\ Len(data[handle[w]]) = written[w]
        /\ \A k \in 1 .. written[w] : data[handle[w]][k] = w
        /\ pc[w] = "write" /\ published[w] = NoFile
    BY <1>19 DEF WriteTable
  <2>2. UNCHANGED <<kind, archive, asked, names, partial, pc, handle, result, published>>
    BY <1>19 DEF WriteTable
  <2>3. /\ Len(data'[w]) = written'[w]
        /\ \A k \in 1 .. written'[w] : data'[w][k] = w
        /\ \A v \in Writers \ {w} : data'[v] = data[v] /\ written'[v] = written[v]
    <3>1. /\ Len(data'[handle[w]]) = written'[w]
          /\ \A k \in 1 .. written'[w] : data'[handle[w]][k] = w
          /\ \A i \in Inodes \ {handle[w]} : data'[i] = data[i]
          /\ \A v \in Writers \ {w} : written'[v] = written[v]
      <4> HIDE DEF Types, Course, DumpFiles
      <4> QED
        BY <1>19, <2>1, WritesLemma
    <3>2. \A v \in Writers \ {w} : v \in Inodes \ {handle[w]}
      BY <2>1 DEF Inodes
    <3> QED
      BY <2>1, <3>1, <3>2
  <2> QED
    BY <2>1, <2>2, <2>3
<1>20. ASSUME NEW w \in Writers, WriteFails(w) PROVE DumpFiles'
  BY <1>20 DEF WriteFails
<1>21. ASSUME NEW w \in Writers, Cleanup(w) PROVE DumpFiles'
  <2>1. CASE /\ temps' = [temps EXCEPT ![w] = @ \cap {"container"}]
             /\ partial' = IF kind = "jsonl" /\ published[w] = NoFile
                             THEN [partial EXCEPT ![target[w]] = NoFile] ELSE partial
             /\ stuck' = stuck
    BY <1>21, <2>1 DEF Cleanup
  <2>2. CASE stuck' = stuck \cup {w} /\ UNCHANGED <<temps, partial>>
    BY <1>21, <2>2 DEF Cleanup
  <2> QED
    BY <1>21, <2>1, <2>2 DEF Cleanup
<1>22. ASSUME NEW w \in Writers, Killed(w) PROVE DumpFiles'
  BY <1>22 DEF Killed
<1>23. ASSUME NEW p \in Paths, FileRemoved(p) PROVE DumpFiles'
  BY <1>23 DEF FileRemoved
<1> QED
  BY <1>1, <1>2, <1>3, <1>4, <1>5, <1>6, <1>7, <1>8, <1>9, <1>10, <1>11, <1>12, <1>13,
     <1>14, <1>15, <1>16, <1>17, <1>18, <1>19, <1>20, <1>21, <1>22, <1>23
  DEF Next, Writer, Dump, Export

(* An export that has not met another goes on owning the file it writes.   *)
LEMMA ExportStep ==
  ASSUME Types, Course, ExportFiles, Next
  PROVE  ExportFiles'
<1> USE DEF Types, Course, ExportFiles, Started, Careful, Raise, Goto,
           directory, command_line, command, environment
<1>1. ASSUME NEW w \in Writers, TryNextName(w) PROVE ExportFiles'
  BY <1>1 DEF TryNextName
<1>2. ASSUME NEW w \in Writers, ChooseName(w) PROVE ExportFiles'
  BY <1>2 DEF ChooseName
<1>3. ASSUME NEW w \in Writers, StartClient(w) PROVE ExportFiles'
  <2>1. CASE /\ Goto(w, "write") /\ UNCHANGED result
             /\ temps' = [temps EXCEPT ![w] =
                   (IF kind = "mysql" THEN {"sql"} ELSE {})
                     \cup (IF asked[w].client = "container" THEN {"container"} ELSE {})]
    BY <1>3, <2>1 DEF StartClient
  <2>2. CASE Raise(w, "cleanup") /\ UNCHANGED temps
    BY <1>3, <2>2 DEF StartClient
  <2> QED
    BY <1>3, <2>1, <2>2 DEF StartClient
<1>4. ASSUME NEW w \in Writers, ClientEnds(w) PROVE ExportFiles'
  BY <1>4 DEF ClientEnds
<1>5. ASSUME NEW w \in Writers, CopyOut(w) PROVE ExportFiles'
  <2>1. CASE /\ kind = "mysql" \/ data[w] # <<>>
             /\ Goto(w, "uncontain") /\ UNCHANGED result
             /\ temps' = [temps EXCEPT ![w] = @ \cup {"sql"}]
    BY <1>5, <2>1 DEF CopyOut
  <2>2. CASE /\ Raise(w, "uncontain")
             /\ temps' = temps
    BY <1>5, <2>2 DEF CopyOut
  <2>3. CASE /\ Raise(w, "uncontain")
             /\ temps' = [temps EXCEPT ![w] = @ \cup {"sql"}]
    BY <1>5, <2>3 DEF CopyOut
  <2> QED
    BY <1>5, <2>1, <2>2, <2>3 DEF CopyOut
<1>6. ASSUME NEW w \in Writers, RemoveContainerFile(w) PROVE ExportFiles'
  <2>1. CASE result[w] = "failed" /\ Goto(w, "cleanup") /\ UNCHANGED result
    BY <1>6, <2>1 DEF RemoveContainerFile
  <2>2. CASE result[w] # "failed" /\ Goto(w, "check") /\ UNCHANGED result
    BY <1>6, <2>2 DEF RemoveContainerFile
  <2>3. CASE w \in stuck' /\ Raise(w, "cleanup")
    BY <1>6, <2>3 DEF RemoveContainerFile
  <2> QED
    BY <1>6, <2>1, <2>2, <2>3 DEF RemoveContainerFile
<1>7. ASSUME NEW w \in Writers, CheckDump(w) PROVE ExportFiles'
  <2>1. CASE /\ "sql" \in temps[w] /\ data[w] # <<>> /\ UNCHANGED result
             /\ Goto(w, IF archive THEN "compress" ELSE "publish")
    BY <1>7, <2>1 DEF CheckDump
  <2>2. CASE Raise(w, "cleanup")
    BY <1>7, <2>2 DEF CheckDump
  <2> QED
    BY <1>7, <2>1, <2>2 DEF CheckDump
<1>8. ASSUME NEW w \in Writers, Compress(w) PROVE ExportFiles'
  <2>1. CASE Goto(w, "publish") /\ UNCHANGED result
    BY <1>8, <2>1 DEF Compress
  <2>2. CASE Raise(w, "cleanup")
    BY <1>8, <2>2 DEF Compress
  <2> QED
    BY <1>8, <2>1, <2>2 DEF Compress
<1>9. ASSUME NEW w \in Writers, Replace(w) PROVE ExportFiles'
  BY <1>9 DEF Replace
<1>10. ASSUME NEW w \in Writers, Link(w) PROVE ExportFiles'
  BY <1>10 DEF Link
<1>11. ASSUME NEW w \in Writers, LinkNextName(w) PROVE ExportFiles'
  BY <1>11 DEF LinkNextName
<1>12. ASSUME NEW w \in Writers, PublishFails(w) PROVE ExportFiles'
  BY <1>12 DEF PublishFails
<1>13. ASSUME NEW w \in Writers, UnlinkSource(w) PROVE ExportFiles'
  <2>1. CASE /\ Goto(w, "size") /\ UNCHANGED result
             /\ temps' = [temps EXCEPT ![w] = @ \ {Source(w)}]
    BY <1>13, <2>1 DEF UnlinkSource
  <2>2. CASE Raise(w, "cleanup") /\ UNCHANGED temps
    BY <1>13, <2>2 DEF UnlinkSource
  <2> QED
    BY <1>13, <2>1, <2>2 DEF UnlinkSource
<1>14. ASSUME NEW w \in Writers, CheckSize(w) PROVE ExportFiles'
  <2>1. CASE Goto(w, "cleanup") /\ UNCHANGED result /\ names[published[w]] # NoFile
    BY <1>14, <2>1 DEF CheckSize
  <2>2. CASE Raise(w, "cleanup") /\ names[published[w]] = NoFile
    BY <1>14, <2>2 DEF CheckSize
  <2> QED
    BY <1>14, <2>1, <2>2 DEF CheckSize
<1>15. ASSUME NEW w \in Writers, OpenPartial(w) PROVE ExportFiles'
  <2> DEFINE inode == IF partial[Base] = NoFile THEN w ELSE partial[Base]
  <2>1. /\ kind = "jsonl" /\ target[w] = Base /\ ~Started(w) /\ written[w] = 0
        /\ pc' = [pc EXCEPT ![w] = "write"]
        /\ UNCHANGED <<kind, names, target, written>>
    BY <1>15 DEF OpenPartial
  <2>2. /\ partial' = [partial EXCEPT ![Base] = inode]
        /\ handle' = [handle EXCEPT ![w] = inode]
        /\ data' = [data EXCEPT ![inode] = <<>>]
    BY <1>15, <2>1 DEF OpenPartial
  <2>3. /\ met' \in {met, met \cup {Base}}
        /\ Base \notin met' => \A v \in Writers \ {w} : pc[v] # "write"
    BY <1>15, <2>1 DEF OpenPartial
  <2>4. /\ inode \in Writers /\ inode \in Inodes /\ Base \in Paths
        /\ inode # names[Base]
        /\ inode = w \/ inode = partial[Base]
    <3>1. Base \in Paths
      BY BaseLemma
    <3>2. CASE partial[Base] = NoFile
      BY <2>1, <3>1, <3>2 DEF Inodes
    <3>3. CASE partial[Base] # NoFile
      BY <2>1, <3>1, <3>3 DEF Inodes
    <3> QED
      BY <3>2, <3>3
  <2> HIDE DEF inode
  <2>5. /\ \A p \in Paths \ {Base} : partial'[p] = partial[p]
        /\ partial'[Base] = inode /\ handle'[w] = inode /\ data'[inode] = <<>>
        /\ pc'[w] = "write" /\ \A v \in Writers \ {w} : pc'[v] = pc[v]
    BY <2>1, <2>2, <2>4
  <2>6. \A v \in Writers : v \in {names'[Base], partial'[Base]} => Started(v)'
    BY <2>1, <2>4, <2>5
  <2>7. Base \notin met' => \A v \in Writers : pc'[v] = "write" => v = w
    BY <2>3, <2>5
  <2>8. /\ names'[Base] # handle'[w] /\ partial'[Base] = handle'[w]
        /\ Len(data'[handle'[w]]) = written'[w] /\ written'[w] = 0
    BY <2>1, <2>4, <2>5
  <2> QED
    BY <2>1, <2>4, <2>5, <2>6, <2>7, <2>8
<1>16. ASSUME NEW w \in Writers, ExportRefused(w) PROVE ExportFiles'
  <2>1. CASE Goto(w, "end")
    BY <1>16, <2>1 DEF ExportRefused
  <2>2. CASE Goto(w, "cleanup")
    BY <1>16, <2>2 DEF ExportRefused
  <2> QED
    BY <1>16, <2>1, <2>2 DEF ExportRefused
<1>17. ASSUME NEW w \in Writers, PublishExport(w) PROVE ExportFiles'
  <2>1. /\ kind = "jsonl" /\ target[w] = Base /\ pc[w] = "write" /\ Base \in Paths
        /\ UNCHANGED <<kind, target, handle, data, written, met>>
    BY <1>17, BaseLemma DEF PublishExport
  <2>2. \E l \in {"rollback", "cleanup"} : pc' = [pc EXCEPT ![w] = l]
    BY <1>17 DEF PublishExport
  <2>3. /\ \A v \in Writers : Started(v) => Started(v)'
        /\ \A v \in Writers : pc'[v] = "write" => pc[v] = "write" /\ v # w
    BY <2>1, <2>2
  <2>4. CASE partial[Base] # NoFile
    <3>1. /\ names' = [names EXCEPT ![Base] = partial[Base]]
          /\ partial' = [partial EXCEPT ![Base] = NoFile]
      BY <1>17, <2>1, <2>4 DEF PublishExport
    <3>2. /\ \A p \in Paths \ {Base} : names'[p] = names[p] /\ partial'[p] = partial[p]
          /\ names'[Base] = partial[Base] /\ partial'[Base] = NoFile
      BY <2>1, <3>1
    <3> QED
      BY <2>1, <2>3, <3>2
  <2>5. CASE partial[Base] = NoFile
    <3>1. UNCHANGED <<names, partial>>
      BY <1>17, <2>1, <2>5 DEF PublishExport
    <3> QED
      BY <2>1, <2>3, <3>1
  <2> QED
    BY <2>4, <2>5
<1>18. ASSUME NEW w \in Writers, Rollback(w) PROVE ExportFiles'
  <2>1. CASE Goto(w, "cleanup") /\ UNCHANGED result
    BY <1>18, <2>1 DEF Rollback
  <2>2. CASE Raise(w, "cleanup")
    BY <1>18, <2>2 DEF Rollback
  <2> QED
    BY <1>18, <2>1, <2>2 DEF Rollback
<1>19. ASSUME NEW w \in Writers, WriteTable(w) PROVE ExportFiles'
  <2> SUFFICES ASSUME kind = "jsonl"
               PROVE  ExportFiles'
    BY <1>19 DEF WriteTable
  <2>1. /\ pc[w] = "write"
        /\ UNCHANGED <<kind, names, partial, pc, target, handle, met>>
    BY <1>19 DEF WriteTable
  <2>2. ASSUME Base \notin met
        PROVE  /\ Len(data'[handle[w]]) = written'[w]
               /\ \A k \in 1 .. written'[w] : data'[handle[w]][k] = w
    <3>1. /\ Len(data[handle[w]]) = written[w]
          /\ \A k \in 1 .. written[w] : data[handle[w]][k] = w
      BY <2>1, <2>2
    <3> HIDE DEF Types, Course, ExportFiles
    <3> QED
      BY <1>19, <3>1, WritesLemma
  <2>3. ASSUME Base \notin met, NEW v \in Writers, pc[v] = "write"
        PROVE  /\ names[Base] # handle[v] /\ partial[Base] \in {NoFile, handle[v]}
               /\ Len(data'[handle[v]]) = written'[v]
               /\ \A k \in 1 .. written'[v] : data'[handle[v]][k] = v
    <3>1. v = w
      BY <2>1, <2>3
    <3>2. names[Base] # handle[v] /\ partial[Base] \in {NoFile, handle[v]}
      BY <2>3
    <3> HIDE DEF Types, Course, ExportFiles
    <3> QED
      BY <2>2, <2>3, <3>1, <3>2
  <2> QED
    BY <2>1, <2>3
<1>20. ASSUME NEW w \in Writers, WriteFails(w) PROVE ExportFiles'
  BY <1>20 DEF WriteFails
<1>21. ASSUME NEW w \in Writers, Cleanup(w) PROVE ExportFiles'
  <2>1. CASE /\ temps' = [temps EXCEPT ![w] = @ \cap {"container"}]
             /\ partial' = IF kind = "jsonl" /\ published[w] = NoFile
                             THEN [partial EXCEPT ![target[w]] = NoFile] ELSE partial
             /\ stuck' = stuck
    BY <1>21, <2>1 DEF Cleanup
  <2>2. CASE stuck' = stuck \cup {w} /\ UNCHANGED <<temps, partial>>
    BY <1>21, <2>2 DEF Cleanup
  <2> QED
    BY <1>21, <2>1, <2>2 DEF Cleanup
<1>22. ASSUME NEW w \in Writers, Killed(w) PROVE ExportFiles'
  BY <1>22 DEF Killed
<1>23. ASSUME NEW p \in Paths, FileRemoved(p) PROVE ExportFiles'
  BY <1>23 DEF FileRemoved
<1> QED
  BY <1>1, <1>2, <1>3, <1>4, <1>5, <1>6, <1>7, <1>8, <1>9, <1>10, <1>11, <1>12, <1>13,
     <1>14, <1>15, <1>16, <1>17, <1>18, <1>19, <1>20, <1>21, <1>22, <1>23
  DEF Next, Writer, Dump, Export

(* Whatever fails, the container's copy is removed before the local files, *)
(* and they before the end.                                                *)
LEMMA OwnTempsStep ==
  ASSUME Types, Course, OwnTemps, Next
  PROVE  OwnTemps'
<1> USE DEF Types, Course, OwnTemps, Started, Careful, Raise, Goto,
           directory, command_line, command, environment
<1>1. ASSUME NEW w \in Writers, TryNextName(w) PROVE OwnTemps'
  BY <1>1 DEF TryNextName
<1>2. ASSUME NEW w \in Writers, ChooseName(w) PROVE OwnTemps'
  BY <1>2 DEF ChooseName
<1>3. ASSUME NEW w \in Writers, StartClient(w) PROVE OwnTemps'
  <2>1. CASE /\ Goto(w, "write") /\ UNCHANGED result
             /\ temps' = [temps EXCEPT ![w] =
                   (IF kind = "mysql" THEN {"sql"} ELSE {})
                     \cup (IF asked[w].client = "container" THEN {"container"} ELSE {})]
    BY <1>3, <2>1 DEF StartClient
  <2>2. CASE Raise(w, "cleanup") /\ UNCHANGED temps
    BY <1>3, <2>2 DEF StartClient
  <2> QED
    BY <1>3, <2>1, <2>2 DEF StartClient
<1>4. ASSUME NEW w \in Writers, ClientEnds(w) PROVE OwnTemps'
  BY <1>4 DEF ClientEnds
<1>5. ASSUME NEW w \in Writers, CopyOut(w) PROVE OwnTemps'
  <2>1. CASE /\ kind = "mysql" \/ data[w] # <<>>
             /\ Goto(w, "uncontain") /\ UNCHANGED result
             /\ temps' = [temps EXCEPT ![w] = @ \cup {"sql"}]
    BY <1>5, <2>1 DEF CopyOut
  <2>2. CASE /\ Raise(w, "uncontain")
             /\ temps' = temps
    BY <1>5, <2>2 DEF CopyOut
  <2>3. CASE /\ Raise(w, "uncontain")
             /\ temps' = [temps EXCEPT ![w] = @ \cup {"sql"}]
    BY <1>5, <2>3 DEF CopyOut
  <2> QED
    BY <1>5, <2>1, <2>2, <2>3 DEF CopyOut
<1>6. ASSUME NEW w \in Writers, RemoveContainerFile(w) PROVE OwnTemps'
  <2>1. CASE result[w] = "failed" /\ Goto(w, "cleanup") /\ UNCHANGED result
    BY <1>6, <2>1 DEF RemoveContainerFile
  <2>2. CASE result[w] # "failed" /\ Goto(w, "check") /\ UNCHANGED result
    BY <1>6, <2>2 DEF RemoveContainerFile
  <2>3. CASE w \in stuck' /\ Raise(w, "cleanup")
    BY <1>6, <2>3 DEF RemoveContainerFile
  <2> QED
    BY <1>6, <2>1, <2>2, <2>3 DEF RemoveContainerFile
<1>7. ASSUME NEW w \in Writers, CheckDump(w) PROVE OwnTemps'
  <2>1. CASE /\ "sql" \in temps[w] /\ data[w] # <<>> /\ UNCHANGED result
             /\ Goto(w, IF archive THEN "compress" ELSE "publish")
    BY <1>7, <2>1 DEF CheckDump
  <2>2. CASE Raise(w, "cleanup")
    BY <1>7, <2>2 DEF CheckDump
  <2> QED
    BY <1>7, <2>1, <2>2 DEF CheckDump
<1>8. ASSUME NEW w \in Writers, Compress(w) PROVE OwnTemps'
  <2>1. CASE Goto(w, "publish") /\ UNCHANGED result
    BY <1>8, <2>1 DEF Compress
  <2>2. CASE Raise(w, "cleanup")
    BY <1>8, <2>2 DEF Compress
  <2> QED
    BY <1>8, <2>1, <2>2 DEF Compress
<1>9. ASSUME NEW w \in Writers, Replace(w) PROVE OwnTemps'
  BY <1>9 DEF Replace
<1>10. ASSUME NEW w \in Writers, Link(w) PROVE OwnTemps'
  BY <1>10 DEF Link
<1>11. ASSUME NEW w \in Writers, LinkNextName(w) PROVE OwnTemps'
  BY <1>11 DEF LinkNextName
<1>12. ASSUME NEW w \in Writers, PublishFails(w) PROVE OwnTemps'
  BY <1>12 DEF PublishFails
<1>13. ASSUME NEW w \in Writers, UnlinkSource(w) PROVE OwnTemps'
  <2>1. CASE /\ Goto(w, "size") /\ UNCHANGED result
             /\ temps' = [temps EXCEPT ![w] = @ \ {Source(w)}]
    BY <1>13, <2>1 DEF UnlinkSource
  <2>2. CASE Raise(w, "cleanup") /\ UNCHANGED temps
    BY <1>13, <2>2 DEF UnlinkSource
  <2> QED
    BY <1>13, <2>1, <2>2 DEF UnlinkSource
<1>14. ASSUME NEW w \in Writers, CheckSize(w) PROVE OwnTemps'
  <2>1. CASE Goto(w, "cleanup") /\ UNCHANGED result /\ names[published[w]] # NoFile
    BY <1>14, <2>1 DEF CheckSize
  <2>2. CASE Raise(w, "cleanup") /\ names[published[w]] = NoFile
    BY <1>14, <2>2 DEF CheckSize
  <2> QED
    BY <1>14, <2>1, <2>2 DEF CheckSize
<1>15. ASSUME NEW w \in Writers, OpenPartial(w) PROVE OwnTemps'
  BY <1>15 DEF OpenPartial
<1>16. ASSUME NEW w \in Writers, ExportRefused(w) PROVE OwnTemps'
  <2>1. CASE Goto(w, "end")
    BY <1>16, <2>1 DEF ExportRefused
  <2>2. CASE Goto(w, "cleanup")
    BY <1>16, <2>2 DEF ExportRefused
  <2> QED
    BY <1>16, <2>1, <2>2 DEF ExportRefused
<1>17. ASSUME NEW w \in Writers, PublishExport(w) PROVE OwnTemps'
  <2>1. CASE partial[target[w]] # NoFile
    BY <1>17, <2>1 DEF PublishExport
  <2>2. CASE partial[target[w]] = NoFile
    BY <1>17, <2>2 DEF PublishExport
  <2> QED
    BY <1>17, <2>1, <2>2 DEF PublishExport
<1>18. ASSUME NEW w \in Writers, Rollback(w) PROVE OwnTemps'
  <2>1. CASE Goto(w, "cleanup") /\ UNCHANGED result
    BY <1>18, <2>1 DEF Rollback
  <2>2. CASE Raise(w, "cleanup")
    BY <1>18, <2>2 DEF Rollback
  <2> QED
    BY <1>18, <2>1, <2>2 DEF Rollback
<1>19. ASSUME NEW w \in Writers, WriteTable(w) PROVE OwnTemps'
  BY <1>19 DEF WriteTable
<1>20. ASSUME NEW w \in Writers, WriteFails(w) PROVE OwnTemps'
  BY <1>20 DEF WriteFails
<1>21. ASSUME NEW w \in Writers, Cleanup(w) PROVE OwnTemps'
  <2>1. CASE /\ temps' = [temps EXCEPT ![w] = @ \cap {"container"}]
             /\ partial' = IF kind = "jsonl" /\ published[w] = NoFile
                             THEN [partial EXCEPT ![target[w]] = NoFile] ELSE partial
             /\ stuck' = stuck
    BY <1>21, <2>1 DEF Cleanup
  <2>2. CASE stuck' = stuck \cup {w} /\ UNCHANGED <<temps, partial>>
    BY <1>21, <2>2 DEF Cleanup
  <2> QED
    BY <1>21, <2>1, <2>2 DEF Cleanup
<1>22. ASSUME NEW w \in Writers, Killed(w) PROVE OwnTemps'
  BY <1>22 DEF Killed
<1>23. ASSUME NEW p \in Paths, FileRemoved(p) PROVE OwnTemps'
  BY <1>23 DEF FileRemoved
<1> QED
  BY <1>1, <1>2, <1>3, <1>4, <1>5, <1>6, <1>7, <1>8, <1>9, <1>10, <1>11, <1>12, <1>13,
     <1>14, <1>15, <1>16, <1>17, <1>18, <1>19, <1>20, <1>21, <1>22, <1>23
  DEF Next, Writer, Dump, Export

(* The .tmp that exports share goes with one of them: by its rename, or by *)
(* its clean-up, and the clean-up of one of the others does no harm.       *)
LEMMA SharedTempsStep ==
  ASSUME Types, Course, DumpFiles, ExportFiles, SharedTemps, Next
  PROVE  SharedTemps'
<1> USE DEF Types, Course, DumpFiles, ExportFiles, SharedTemps, Started,
           Careful, Raise, Goto, directory, command_line,
           command, environment
<1>1. ASSUME NEW w \in Writers, TryNextName(w) PROVE SharedTemps'
  BY <1>1 DEF TryNextName
<1>2. ASSUME NEW w \in Writers, ChooseName(w) PROVE SharedTemps'
  <2> SUFFICES ASSUME stuck' = {}, \A v \in Writers : result'[v] # "killed",
                      NEW p \in Paths, partial'[p] # NoFile
               PROVE  \E v \in Writers : /\ target'[v] = p
                                         /\ \/ pc'[v] = "write"
                                            \/ pc'[v] = "cleanup" /\ published'[v] = NoFile
    OBVIOUS
  <2>1. /\ partial[p] # NoFile /\ stuck = {} /\ \A v \in Writers : result[v] # "killed"
        /\ pc[w] = "resolve" /\ pc' = [pc EXCEPT ![w] = "prepare"]
        /\ UNCHANGED <<target, published>>
    BY <1>2 DEF ChooseName
  <2> HIDE DEF Types, Course, DumpFiles, ExportFiles, Careful
  <2>9. PICK v \in Writers : /\ target[v] = p
                             /\ \/ pc[v] = "write"
                                \/ pc[v] = "cleanup" /\ published[v] = NoFile
    BY <2>1 DEF SharedTemps
  <2> HIDE DEF SharedTemps
  <2> QED
    BY <2>1, <2>9
<1>3. ASSUME NEW w \in Writers, StartClient(w) PROVE SharedTemps'
  <2>1. CASE /\ Goto(w, "write") /\ UNCHANGED result
             /\ temps' = [temps EXCEPT ![w] =
                   (IF kind = "mysql" THEN {"sql"} ELSE {})
                     \cup (IF asked[w].client = "container" THEN {"container"} ELSE {})]
    BY <1>3, <2>1 DEF StartClient
  <2>2. CASE Raise(w, "cleanup") /\ UNCHANGED temps
    BY <1>3, <2>2 DEF StartClient
  <2> QED
    BY <1>3, <2>1, <2>2 DEF StartClient
<1>4. ASSUME NEW w \in Writers, ClientEnds(w) PROVE SharedTemps'
  BY <1>4 DEF ClientEnds
<1>5. ASSUME NEW w \in Writers, CopyOut(w) PROVE SharedTemps'
  <2>1. CASE /\ kind = "mysql" \/ data[w] # <<>>
             /\ Goto(w, "uncontain") /\ UNCHANGED result
             /\ temps' = [temps EXCEPT ![w] = @ \cup {"sql"}]
    BY <1>5, <2>1 DEF CopyOut
  <2>2. CASE /\ Raise(w, "uncontain")
             /\ temps' = temps
    BY <1>5, <2>2 DEF CopyOut
  <2>3. CASE /\ Raise(w, "uncontain")
             /\ temps' = [temps EXCEPT ![w] = @ \cup {"sql"}]
    BY <1>5, <2>3 DEF CopyOut
  <2> QED
    BY <1>5, <2>1, <2>2, <2>3 DEF CopyOut
<1>6. ASSUME NEW w \in Writers, RemoveContainerFile(w) PROVE SharedTemps'
  <2>1. CASE result[w] = "failed" /\ Goto(w, "cleanup") /\ UNCHANGED result
    BY <1>6, <2>1 DEF RemoveContainerFile
  <2>2. CASE result[w] # "failed" /\ Goto(w, "check") /\ UNCHANGED result
    BY <1>6, <2>2 DEF RemoveContainerFile
  <2>3. CASE w \in stuck' /\ Raise(w, "cleanup")
    BY <1>6, <2>3 DEF RemoveContainerFile
  <2> QED
    BY <1>6, <2>1, <2>2, <2>3 DEF RemoveContainerFile
<1>7. ASSUME NEW w \in Writers, CheckDump(w) PROVE SharedTemps'
  <2>1. CASE /\ "sql" \in temps[w] /\ data[w] # <<>> /\ UNCHANGED result
             /\ Goto(w, IF archive THEN "compress" ELSE "publish")
    BY <1>7, <2>1 DEF CheckDump
  <2>2. CASE Raise(w, "cleanup")
    BY <1>7, <2>2 DEF CheckDump
  <2> QED
    BY <1>7, <2>1, <2>2 DEF CheckDump
<1>8. ASSUME NEW w \in Writers, Compress(w) PROVE SharedTemps'
  <2>1. CASE Goto(w, "publish") /\ UNCHANGED result
    BY <1>8, <2>1 DEF Compress
  <2>2. CASE Raise(w, "cleanup")
    BY <1>8, <2>2 DEF Compress
  <2> QED
    BY <1>8, <2>1, <2>2 DEF Compress
<1>9. ASSUME NEW w \in Writers, Replace(w) PROVE SharedTemps'
  BY <1>9 DEF Replace
<1>10. ASSUME NEW w \in Writers, Link(w) PROVE SharedTemps'
  BY <1>10 DEF Link
<1>11. ASSUME NEW w \in Writers, LinkNextName(w) PROVE SharedTemps'
  BY <1>11 DEF LinkNextName
<1>12. ASSUME NEW w \in Writers, PublishFails(w) PROVE SharedTemps'
  BY <1>12 DEF PublishFails
<1>13. ASSUME NEW w \in Writers, UnlinkSource(w) PROVE SharedTemps'
  <2>1. CASE /\ Goto(w, "size") /\ UNCHANGED result
             /\ temps' = [temps EXCEPT ![w] = @ \ {Source(w)}]
    BY <1>13, <2>1 DEF UnlinkSource
  <2>2. CASE Raise(w, "cleanup") /\ UNCHANGED temps
    BY <1>13, <2>2 DEF UnlinkSource
  <2> QED
    BY <1>13, <2>1, <2>2 DEF UnlinkSource
<1>14. ASSUME NEW w \in Writers, CheckSize(w) PROVE SharedTemps'
  <2>1. CASE Goto(w, "cleanup") /\ UNCHANGED result /\ names[published[w]] # NoFile
    BY <1>14, <2>1 DEF CheckSize
  <2>2. CASE Raise(w, "cleanup") /\ names[published[w]] = NoFile
    BY <1>14, <2>2 DEF CheckSize
  <2> QED
    BY <1>14, <2>1, <2>2 DEF CheckSize
<1>15. ASSUME NEW w \in Writers, OpenPartial(w) PROVE SharedTemps'
  BY <1>15 DEF OpenPartial
<1>16. ASSUME NEW w \in Writers, ExportRefused(w) PROVE SharedTemps'
  <2> SUFFICES ASSUME stuck' = {}, \A v \in Writers : result'[v] # "killed",
                      NEW p \in Paths, partial'[p] # NoFile
               PROVE  \E v \in Writers : /\ target'[v] = p
                                         /\ \/ pc'[v] = "write"
                                            \/ pc'[v] = "cleanup" /\ published'[v] = NoFile
    OBVIOUS
  <2>1. /\ partial[p] # NoFile /\ stuck = {} /\ pc[w] = "prepare"
        /\ pc' = [pc EXCEPT ![w] = "end"] \/ pc' = [pc EXCEPT ![w] = "cleanup"]
        /\ result' = [result EXCEPT ![w] = "failed"]
        /\ UNCHANGED <<target, published>>
    BY <1>16 DEF ExportRefused
  <2>2. \A v \in Writers : result[v] # "killed"
    BY <2>1
  <2> HIDE DEF Types, Course, DumpFiles, ExportFiles, Careful
  <2>3. PICK v \in Writers : /\ target[v] = p
                             /\ \/ pc[v] = "write"
                                \/ pc[v] = "cleanup" /\ published[v] = NoFile
    BY <2>1, <2>2
  <2> HIDE DEF SharedTemps
  <2>4. v # w
    BY <2>1, <2>3
  <2>5. pc'[v] = pc[v]
    BY <2>1, <2>4 DEF Types
  <2> QED
    BY <2>1, <2>3, <2>5
<1>17. ASSUME NEW w \in Writers, PublishExport(w) PROVE SharedTemps'
  <2> SUFFICES ASSUME stuck' = {}, \A v \in Writers : result'[v] # "killed",
                      NEW p \in Paths, partial'[p] # NoFile
               PROVE  \E v \in Writers : /\ target'[v] = p
                                         /\ \/ pc'[v] = "write"
                                            \/ pc'[v] = "cleanup" /\ published'[v] = NoFile
    OBVIOUS
  <2>1. /\ partial[p] # NoFile /\ stuck = {} /\ \A v \in Writers : result[v] # "killed"
        /\ target[w] = Base /\ p = Base /\ pc[w] = "write"
        /\ UNCHANGED target
    <3>1. /\ UNCHANGED <<stuck, target>>
          /\ pc[w] = "write" /\ kind = "jsonl" /\ target[w] = Base
          /\ \A v \in Writers : v # w => result'[v] = result[v]
          /\ \A q \in Paths : partial'[q] # NoFile => partial[q] # NoFile
      BY <1>17 DEF PublishExport
    <3>2. result[w] # "killed" /\ p = Base
      BY <3>1
    <3> HIDE DEF Types, Course, DumpFiles, ExportFiles, SharedTemps, Careful
    <3> QED
      BY <3>1, <3>2
  <2>2. partial'[Base] = NoFile
    BY <1>17, <2>1 DEF PublishExport
  <2> HIDE DEF Types, Course, DumpFiles, ExportFiles, Careful
  <2>9. PICK v \in Writers : /\ target[v] = p
                             /\ \/ pc[v] = "write"
                                \/ pc[v] = "cleanup" /\ published[v] = NoFile
    BY <2>1 DEF SharedTemps
  <2> HIDE DEF SharedTemps
  <2> QED
    BY <2>1, <2>2
<1>18. ASSUME NEW w \in Writers, Rollback(w) PROVE SharedTemps'
  <2> SUFFICES ASSUME stuck' = {}, \A v \in Writers : result'[v] # "killed",
                      NEW p \in Paths, partial'[p] # NoFile
               PROVE  \E v \in Writers : /\ target'[v] = p
                                         /\ \/ pc'[v] = "write"
                                            \/ pc'[v] = "cleanup" /\ published'[v] = NoFile
    OBVIOUS
  <2>1. /\ partial[p] # NoFile /\ stuck = {} /\ \A v \in Writers : result[v] # "killed"
        /\ pc[w] = "rollback" /\ \A v \in Writers : v # w => pc'[v] = pc[v]
        /\ UNCHANGED <<target, published>>
    <3>1. /\ UNCHANGED <<partial, stuck, target, published>> /\ pc[w] = "rollback"
          /\ pc' = [pc EXCEPT ![w] = "cleanup"]
          /\ \A v \in Writers : v # w => result'[v] = result[v]
      BY <1>18 DEF Rollback
    <3>2. result[w] # "killed"
      BY <3>1
    <3> HIDE DEF Types, Course, DumpFiles, ExportFiles, SharedTemps, Careful
    <3> QED
      BY <3>1, <3>2
  <2> HIDE DEF Types, Course, DumpFiles, ExportFiles, Careful
  <2>9. PICK v \in Writers : /\ target[v] = p
                             /\ \/ pc[v] = "write"
                                \/ pc[v] = "cleanup" /\ published[v] = NoFile
    BY <2>1 DEF SharedTemps
  <2> HIDE DEF SharedTemps
  <2> QED
    BY <2>1, <2>9
<1>19. ASSUME NEW w \in Writers, WriteTable(w) PROVE SharedTemps'
  BY <1>19 DEF WriteTable
<1>20. ASSUME NEW w \in Writers, WriteFails(w) PROVE SharedTemps'
  <2> SUFFICES ASSUME stuck' = {}, \A v \in Writers : result'[v] # "killed",
                      NEW p \in Paths, partial'[p] # NoFile
               PROVE  \E v \in Writers : /\ target'[v] = p
                                         /\ \/ pc'[v] = "write"
                                            \/ pc'[v] = "cleanup" /\ published'[v] = NoFile
    OBVIOUS
  <2>1. /\ partial[p] # NoFile /\ stuck = {} /\ \A v \in Writers : result[v] # "killed"
        /\ pc[w] = "write" /\ published[w] = NoFile
        /\ UNCHANGED <<target, published>>
    <3>1. UNCHANGED <<partial, stuck>> /\ \A v \in Writers : v # w => result'[v] = result[v]
      BY <1>20 DEF WriteFails
    <3>2. /\ pc[w] = "write" /\ published[w] = NoFile /\ result[w] = "none"
          /\ UNCHANGED <<target, published>>
      <4>1. result[w] \in {"none", "done", "failed", "killed"}
        OBVIOUS
      <4> QED
        BY <1>20, <4>1 DEF WriteFails
    <3> HIDE DEF Types, Course, DumpFiles, ExportFiles, SharedTemps, Careful
    <3> QED
      BY <3>1, <3>2
  <2>2. kind = "jsonl" /\ temps[w] = {}
    BY <2>1
  <2>3. pc' = [pc EXCEPT ![w] = "cleanup"]
    BY <1>20, <2>2 DEF WriteFails
  <2> HIDE DEF Types, Course, DumpFiles, ExportFiles, Careful
  <2>9. PICK v \in Writers : /\ target[v] = p
                             /\ \/ pc[v] = "write"
                                \/ pc[v] = "cleanup" /\ published[v] = NoFile
    BY <2>1 DEF SharedTemps
  <2> HIDE DEF SharedTemps
  <2> QED
    BY <2>1, <2>3, <2>9
<1>21. ASSUME NEW w \in Writers, Cleanup(w) PROVE SharedTemps'
  <2> SUFFICES ASSUME stuck' = {}, \A v \in Writers : result'[v] # "killed",
                      NEW p \in Paths, partial'[p] # NoFile
               PROVE  \E v \in Writers : /\ target'[v] = p
                                         /\ \/ pc'[v] = "write"
                                            \/ pc'[v] = "cleanup" /\ published'[v] = NoFile
    OBVIOUS
  <2>1. /\ partial[p] # NoFile /\ stuck = {} /\ \A v \in Writers : result[v] # "killed"
        /\ pc[w] = "cleanup" /\ pc' = [pc EXCEPT ![w] = "end"]
        /\ UNCHANGED <<target, published>>
        /\ partial' = IF kind = "jsonl" /\ published[w] = NoFile
                        THEN [partial EXCEPT ![target[w]] = NoFile] ELSE partial
    <3>1. /\ pc[w] = "cleanup" /\ pc' = [pc EXCEPT ![w] = "end"]
          /\ UNCHANGED <<target, published>>
          /\ \A v \in Writers : v # w => result'[v] = result[v]
          /\ partial' = IF kind = "jsonl" /\ published[w] = NoFile
                          THEN [partial EXCEPT ![target[w]] = NoFile] ELSE partial
          /\ stuck' = stuck
      BY <1>21 DEF Cleanup
    <3>2. result[w] # "killed"
      BY <3>1
    <3>3. partial[p] # NoFile
      BY <3>1
    <3> HIDE DEF Types, Course, DumpFiles, ExportFiles, SharedTemps, Careful
    <3> QED
      BY <3>1, <3>2, <3>3
  <2>2. kind = "jsonl"
    BY <2>1
  <2> HIDE DEF Types, Course, DumpFiles, ExportFiles, Careful
  <2>9. PICK v \in Writers : /\ target[v] = p
                             /\ \/ pc[v] = "write"
                                \/ pc[v] = "cleanup" /\ published[v] = NoFile
    BY <2>1 DEF SharedTemps
  <2> HIDE DEF SharedTemps
  <2>3. v # w
    BY <2>1, <2>2, <2>9 DEF Types
  <2> QED
    BY <2>1, <2>3, <2>9
<1>22. ASSUME NEW w \in Writers, Killed(w) PROVE SharedTemps'
  BY <1>22 DEF Killed
<1>23. ASSUME NEW p \in Paths, FileRemoved(p) PROVE SharedTemps'
  BY <1>23 DEF FileRemoved
<1> QED
  BY <1>1, <1>2, <1>3, <1>4, <1>5, <1>6, <1>7, <1>8, <1>9, <1>10, <1>11, <1>12, <1>13,
     <1>14, <1>15, <1>16, <1>17, <1>18, <1>19, <1>20, <1>21, <1>22, <1>23
  DEF Next, Writer, Dump, Export

(* The commands start with nothing done, nothing open, and no temporary    *)
(* file.                                                                   *)
LEMMA InitLemma == Init => FInv
<1> SUFFICES ASSUME Init PROVE FInv
  OBVIOUS
<1> USE DEF Init
<1>1. Types
  <2>1. kind \in {"mysql", "postgres", "jsonl"} /\ archive \in BOOLEAN
    OBVIOUS
  <2>2. \A o \in Options(kind) :
          o \in [named : BOOLEAN, client : {"local", "container"}]
    BY <2>1 DEF Options
  <2>3. names \in [Paths -> Inodes \cup {NoFile}]
    BY DEF Inodes
  <2>4. data \in [Inodes -> Seq(Inodes)]
    <3>1. <<>> \in Seq(Inodes)
      OBVIOUS
    <3> QED
      BY <3>1
  <2> QED
    BY <2>1, <2>2, <2>3, <2>4, BaseLemma DEF Types, Places
<1>2. Course
  BY DEF Course, Started
<1>3. DumpFiles
  <2>1. \A w \in Writers : data[w] = <<>>
    BY DEF Inodes
  <2>2. \A w \in Writers, p \in Paths : names[p] # w
    OBVIOUS
  <2> QED
    BY <2>1, <2>2 DEF DumpFiles
<1>4. ExportFiles
  BY BaseLemma DEF ExportFiles
<1>5. OwnTemps /\ SharedTemps
  BY DEF OwnTemps, SharedTemps
<1> QED
  BY <1>1, <1>2, <1>3, <1>4, <1>5 DEF FInv

(* Every step keeps the invariant, and so does a step that changes nothing. *)
LEMMA StepLemma == FInv /\ [Next]_vars => FInv'
<1>1. ASSUME FInv, Next PROVE FInv'
  <2>1. Types' /\ Course' /\ DumpFiles' /\ ExportFiles'
    BY <1>1, TypesStep, CourseStep, DumpStep, ExportStep DEF FInv
  <2>2. OwnTemps' /\ SharedTemps'
    BY <1>1, OwnTempsStep, SharedTempsStep DEF FInv
  <2> QED
    BY <2>1, <2>2 DEF FInv
<1>2. ASSUME FInv, UNCHANGED vars PROVE FInv'
  <2> USE <1>2 DEF FInv, vars, directory, command_line, command, environment
  <2>1. Types' /\ OwnTemps' /\ SharedTemps'
    BY DEF Types, OwnTemps, SharedTemps
  <2>2. Course' /\ DumpFiles' /\ ExportFiles'
    BY DEF Course, DumpFiles, ExportFiles, Started, Careful
  <2> QED
    BY <2>1, <2>2
<1> QED
  BY <1>1, <1>2

(* The invariant holds in every reachable state.                           *)
THEOREM Invariance == Spec => []FInv
BY InitLemma, StepLemma, PTL DEF Spec

-----------------------------------------------------------------------------
\* What follows from it.

(* When all commands have ended by themselves, and every unlink did its    *)
(* work, no temporary file is left: the finally clauses of dump_database,  *)
(* dump_with_mapped_container and dump_with_docker, and the except clauses *)
(* of open_document_writer, reach every file on every path.                *)
THEOREM NothingIsLeft == Spec => []NoLeftovers
<1>1. FInv => NoLeftovers
  <2> SUFFICES ASSUME FInv, stuck = {}, \A w \in Writers : pc[w] = "end" /\ result[w] # "killed"
               PROVE  (\A w \in Writers : temps[w] = {}) /\ \A p \in Paths : partial[p] = NoFile
    BY DEF NoLeftovers
  <2>1. \A w \in Writers : temps[w] = {}
    BY DEF FInv, OwnTemps
  <2>2. \A p \in Paths : partial[p] = NoFile
    BY DEF FInv, SharedTemps
  <2> QED
    BY <2>1, <2>2
<1> QED
  BY <1>1, Invariance, PTL

-----------------------------------------------------------------------------
\* The refinement of Publication.  A step of a command is a step of the promise,
\* or it changes nothing that the promise speaks of.

PromiseFixed == UNCHANGED command_line /\ met' = met

(* A name shows nothing, an old file, a document or something torn; which  *)
(* of the last two is a matter of the file, not of the name.               *)
LEMMA ShowsLemma ==
  ASSUME Types, NEW p \in Paths
  PROVE  /\ names[p] = NoFile <=> Shows(p) = "none"
         /\ names[p] = Old <=> Shows(p) = "old"
         /\ names[p] \in Writers <=> Shows(p) \in Writers \cup {"torn"}
<1>1. names[p] \in Writers \cup {Old, NoFile}
  BY DEF Types, Inodes
<1>2. CASE names[p] \in Writers
  <2>1. ASSUME Whole(names[p]) PROVE data[names[p]][1] \in Writers
    <3>1. PICK w \in Writers : \A k \in 1 .. Tables : data[names[p]][k] = w
      BY <2>1 DEF Whole
    <3>2. 1 \in 1 .. Tables
      OBVIOUS
    <3> QED
      BY <3>1, <3>2
  <2> QED
    BY <1>2, <2>1 DEF Shows
<1>3. CASE names[p] \in {Old, NoFile}
  BY <1>3 DEF Shows
<1> QED
  BY <1>1, <1>2, <1>3

(* After a step, a document that one command wrote to the end is shown as  *)
(* its own, and a command's file as somebody's document or torn.           *)
LEMMA NextShowsLemma ==
  ASSUME Types', NEW p \in Paths, names'[p] \in Writers
  PROVE  /\ Shows(p)' \in Writers \cup {"torn"}
         /\ \A w \in Writers :
              /\ Len(data'[names'[p]]) = Tables
              /\ \A k \in 1 .. Tables : data'[names'[p]][k] = w
              => Shows(p)' = w
<1>1. 1 \in 1 .. Tables
  OBVIOUS
<1>2. ASSUME Whole(names[p])' PROVE data'[names'[p]][1] \in Writers
  <2>1. PICK w \in Writers : \A k \in 1 .. Tables : data'[names'[p]][k] = w
    BY <1>2 DEF Whole
  <2> QED
    BY <1>1, <2>1
<1>3. ASSUME NEW w \in Writers, Len(data'[names'[p]]) = Tables,
             \A k \in 1 .. Tables : data'[names'[p]][k] = w
      PROVE  Whole(names[p])' /\ data'[names'[p]][1] = w
  <2>1. Whole(names[p])'
    BY <1>3 DEF Whole
  <2> QED
    BY <1>1, <1>3, <2>1
<1> QED
  BY <1>2, <1>3 DEF Shows

(* A name shows what it showed while its file is neither written to nor    *)
(* replaced.                                                               *)
LEMMA SameShowsLemma ==
  ASSUME NEW p \in Paths, names'[p] = names[p],
         names[p] \in {NoFile, Old} \/ data'[names[p]] = data[names[p]]
  PROVE  Shows(p)' = Shows(p)
BY DEF Shows, Whole

(* The status of a command that neither publishes nor ends.                *)
LEMMA SameStatusLemma ==
  ASSUME NEW w \in Writers, published'[w] = published[w],
         pc'[w] = "end" <=> pc[w] = "end",
         pc[w] = "end" => result'[w] = result[w]
  PROVE  Status(w)' = Status(w)
BY DEF Status

(* Nothing that the promise speaks of changes.                             *)
LEMMA StutterLemma ==
  ASSUME PromiseFixed, \A p \in Paths : Shows(p)' = Shows(p),
         \A w \in Writers : Status(w)' = Status(w)
  PROVE  UNCHANGED Promise!pvars
BY DEF PromiseFixed, command_line, Careful, Promise!pvars, Promise!fixed

(* A publication of a document of one's own, and of a shared one.          *)
LEMMA PublishLemma ==
  ASSUME NEW w \in Writers, NEW p \in Paths, PromiseFixed,
         Status(w) = "working", Status(w)' = "published",
         \A v \in Writers \ {w} : Status(v)' = Status(v),
         \A q \in Paths \ {p} : Shows(q)' = Shows(q),
         \/ Shows(p)' = w /\ (Careful(w) => Shows(p) = "none")
         \/ Shows(p)' \in Writers \cup {"torn"} /\ p \in met
  PROVE  Promise!Next
<1>1. UNCHANGED <<met, Promise!fixed>>
  BY DEF PromiseFixed, command_line, Careful, Promise!fixed
<1>2. [v \in Writers |-> Status(v)]' = [[v \in Writers |-> Status(v)] EXCEPT ![w] = "published"]
  OBVIOUS
<1>3. [q \in Paths |-> Shows(q)]' = [[q \in Paths |-> Shows(q)] EXCEPT ![p] = Shows(p)']
  OBVIOUS
<1>4. CASE Shows(p)' = w /\ (Careful(w) => Shows(p) = "none")
  <2>1. Promise!Publish(w, p)
    BY <1>1, <1>2, <1>3, <1>4 DEF Promise!Publish
  <2> QED
    BY <2>1 DEF Promise!Next
<1>5. CASE Shows(p)' \in Writers \cup {"torn"} /\ p \in met
  <2>1. Promise!PublishShared(w, p)
    BY <1>1, <1>2, <1>3, <1>5 DEF Promise!PublishShared
  <2> QED
    BY <2>1 DEF Promise!Next
<1> QED
  BY <1>4, <1>5

(* A command ends.                                                         *)
LEMMA EndLemma ==
  ASSUME NEW w \in Writers, PromiseFixed,
         \A v \in Writers \ {w} : Status(v)' = Status(v),
         \A q \in Paths : Shows(q)' = Shows(q),
         \/ Status(w) = "published" /\ Status(w)' = "done"
         \/ Status(w) = "working" /\ Status(w)' = "failed"
         \/ /\ Status(w) = "published" /\ Status(w)' = "failed"
            /\ Careful(w) \/ kind = "jsonl" \/ \A q \in Paths : Shows(q) # w
         \/ Status(w) \in {"working", "published"} /\ Status(w)' = "killed"
  PROVE  Promise!Next
<1>1. /\ UNCHANGED <<met, Promise!fixed>>
      /\ [q \in Paths |-> Shows(q)]' = [q \in Paths |-> Shows(q)]
  BY DEF PromiseFixed, command_line, Careful, Promise!fixed
<1>2. [v \in Writers |-> Status(v)]' = [[v \in Writers |-> Status(v)] EXCEPT ![w] = Status(w)']
  OBVIOUS
<1>3. Promise!Report(w) \/ Promise!Fail(w) \/ Promise!Stop(w)
  BY <1>1, <1>2 DEF Promise!Report, Promise!Fail, Promise!Stop
<1> QED
  BY <1>3 DEF Promise!Next

(* A name changes by somebody else's hand.                                 *)
LEMMA NameLemma ==
  ASSUME NEW p \in Paths, PromiseFixed,
         \A v \in Writers : Status(v)' = Status(v),
         \A q \in Paths \ {p} : Shows(q)' = Shows(q),
         \/ Shows(p)' = "none"
         \/ /\ p \in met /\ Shows(p) \in Writers \cup {"torn"}
            /\ Shows(p)' \in Writers \cup {"torn"}
  PROVE  Promise!Next
<1>1. /\ UNCHANGED <<met, Promise!fixed>>
      /\ [v \in Writers |-> Status(v)]' = [v \in Writers |-> Status(v)]
  BY DEF PromiseFixed, command_line, Careful, Promise!fixed
<1>2. [q \in Paths |-> Shows(q)]' = [[q \in Paths |-> Shows(q)] EXCEPT ![p] = Shows(p)']
  OBVIOUS
<1>3. Promise!Remove(p) \/ Promise!Interfere(p)
  BY <1>1, <1>2 DEF Promise!Remove, Promise!Interfere
<1> QED
  BY <1>3 DEF Promise!Next

\* No name changes, nothing is written, no command publishes or ends.
Quiet ==
  /\ PromiseFixed /\ UNCHANGED <<names, data, published>>
  /\ \A v \in Writers : /\ pc'[v] = "end" <=> pc[v] = "end"
                        /\ pc[v] = "end" => result'[v] = result[v]

(* Such a step is a stutter.                                               *)
LEMMA QuietLemma ==
  ASSUME Quiet
  PROVE  UNCHANGED Promise!pvars
<1>1. \A p \in Paths : Shows(p)' = Shows(p)
  BY SameShowsLemma DEF Quiet
<1>2. \A v \in Writers : Status(v)' = Status(v)
  BY SameStatusLemma DEF Quiet
<1> QED
  BY <1>1, <1>2, StutterLemma DEF Quiet

(* Choosing a name, running the client, copying, compressing, and every    *)
(* failure on the way to the finally clauses are such steps.               *)
LEMMA PreparationLemma ==
  ASSUME Types, NEW w \in Writers,
         \/ TryNextName(w) \/ ChooseName(w) \/ StartClient(w) \/ ClientEnds(w)
         \/ CopyOut(w) \/ RemoveContainerFile(w) \/ CheckDump(w) \/ Compress(w)
         \/ LinkNextName(w) \/ PublishFails(w) \/ UnlinkSource(w) \/ CheckSize(w)
         \/ Rollback(w) \/ WriteFails(w)
  PROVE  Quiet
<1> USE DEF Types, Quiet, PromiseFixed, Raise, Goto, directory, command_line,
           environment
<1>1. CASE TryNextName(w)
  BY <1>1 DEF TryNextName
<1>2. CASE ChooseName(w)
  BY <1>2 DEF ChooseName
<1>3. CASE StartClient(w)
  <2>1. CASE /\ Goto(w, "write") /\ UNCHANGED result
             /\ temps' = [temps EXCEPT ![w] =
                   (IF kind = "mysql" THEN {"sql"} ELSE {})
                     \cup (IF asked[w].client = "container" THEN {"container"} ELSE {})]
    BY <1>3, <2>1 DEF StartClient
  <2>2. CASE Raise(w, "cleanup") /\ UNCHANGED temps
    BY <1>3, <2>2 DEF StartClient
  <2> QED
    BY <1>3, <2>1, <2>2 DEF StartClient
<1>4. CASE ClientEnds(w)
  BY <1>4 DEF ClientEnds
<1>5. CASE CopyOut(w)
  <2>1. CASE /\ kind = "mysql" \/ data[w] # <<>>
             /\ Goto(w, "uncontain") /\ UNCHANGED result
             /\ temps' = [temps EXCEPT ![w] = @ \cup {"sql"}]
    BY <1>5, <2>1 DEF CopyOut
  <2>2. CASE /\ Raise(w, "uncontain")
             /\ temps' = temps
    BY <1>5, <2>2 DEF CopyOut
  <2>3. CASE /\ Raise(w, "uncontain")
             /\ temps' = [temps EXCEPT ![w] = @ \cup {"sql"}]
    BY <1>5, <2>3 DEF CopyOut
  <2> QED
    BY <1>5, <2>1, <2>2, <2>3 DEF CopyOut
<1>6. CASE RemoveContainerFile(w)
  <2>1. CASE result[w] = "failed"
    BY <1>6, <2>1 DEF RemoveContainerFile
  <2>2. CASE result[w] # "failed"
    BY <1>6, <2>2 DEF RemoveContainerFile
  <2> QED
    BY <1>6, <2>1, <2>2 DEF RemoveContainerFile
<1>7. CASE CheckDump(w)
  <2>1. CASE /\ "sql" \in temps[w] /\ data[w] # <<>> /\ UNCHANGED result
             /\ Goto(w, IF archive THEN "compress" ELSE "publish")
    BY <1>7, <2>1 DEF CheckDump
  <2>2. CASE Raise(w, "cleanup")
    BY <1>7, <2>2 DEF CheckDump
  <2> QED
    BY <1>7, <2>1, <2>2 DEF CheckDump
<1>8. CASE Compress(w)
  <2>1. CASE Goto(w, "publish") /\ UNCHANGED result
    BY <1>8, <2>1 DEF Compress
  <2>2. CASE Raise(w, "cleanup")
    BY <1>8, <2>2 DEF Compress
  <2> QED
    BY <1>8, <2>1, <2>2 DEF Compress
<1>9. CASE LinkNextName(w)
  BY <1>9 DEF LinkNextName
<1>10. CASE PublishFails(w)
  BY <1>10 DEF PublishFails
<1>11. CASE UnlinkSource(w)
  <2>1. CASE /\ Goto(w, "size") /\ UNCHANGED result
             /\ temps' = [temps EXCEPT ![w] = @ \ {Source(w)}]
    BY <1>11, <2>1 DEF UnlinkSource
  <2>2. CASE Raise(w, "cleanup") /\ UNCHANGED temps
    BY <1>11, <2>2 DEF UnlinkSource
  <2> QED
    BY <1>11, <2>1, <2>2 DEF UnlinkSource
<1>12. CASE CheckSize(w)
  <2>1. CASE Goto(w, "cleanup") /\ UNCHANGED result /\ names[published[w]] # NoFile
    BY <1>12, <2>1 DEF CheckSize
  <2>2. CASE Raise(w, "cleanup") /\ names[published[w]] = NoFile
    BY <1>12, <2>2 DEF CheckSize
  <2> QED
    BY <1>12, <2>1, <2>2 DEF CheckSize
<1>13. CASE Rollback(w)
  <2>1. CASE Goto(w, "cleanup") /\ UNCHANGED result
    BY <1>13, <2>1 DEF Rollback
  <2>2. CASE Raise(w, "cleanup")
    BY <1>13, <2>2 DEF Rollback
  <2> QED
    BY <1>13, <2>1, <2>2 DEF Rollback
<1>14. CASE WriteFails(w)
  BY <1>14 DEF WriteFails
<1> QED
  BY <1>1, <1>2, <1>3, <1>4, <1>5, <1>6, <1>7, <1>8, <1>9, <1>10, <1>11, <1>12, <1>13, <1>14

(* os.replace, or os.link to a name that is free, shows the dump at its    *)
(* name, and the dump is whole.                                            *)
LEMMA DumpPublishes ==
  ASSUME FInv, NEW w \in Writers, Replace(w) \/ Link(w)
  PROVE  Promise!Next
<1>1. PICK p \in Paths : p = target[w]
  BY DEF FInv, Types
<1>2. /\ pc[w] = "publish" /\ kind # "jsonl" /\ published[w] = NoFile
      /\ Careful(w) => names[p] = NoFile
  <2>1. pc[w] = "publish" /\ (Careful(w) => names[p] = NoFile)
    BY <1>1 DEF Replace, Link
  <2>2. kind # "jsonl" /\ published[w] = NoFile
    BY <2>1 DEF FInv, Course
  <2> QED
    BY <2>1, <2>2
<1>3. /\ PromiseFixed /\ data' = data
      /\ names' = [names EXCEPT ![p] = w]
      /\ published' = [published EXCEPT ![w] = p]
      /\ \E l \in {"size", "cleanup", "unlink"} : pc' = [pc EXCEPT ![w] = l]
      /\ result' = result
  BY <1>1 DEF Replace, Link, Goto, PromiseFixed, environment
<1>4. Len(data[w]) = Tables /\ \A k \in 1 .. Tables : data[w][k] = w
  BY <1>2 DEF FInv, DumpFiles
<1>5. Types /\ Types'
  BY TypesStep DEF FInv, Next, Writer, Dump
<1>6. /\ names'[p] = w /\ \A q \in Paths \ {p} : names'[q] = names[q]
      /\ published'[w] = p
      /\ \A v \in Writers \ {w} : published'[v] = published[v] /\ pc'[v] = pc[v]
      /\ pc'[w] # "end"
  BY <1>3, <1>5 DEF Types
<1>7. Shows(p)' = w /\ \A q \in Paths \ {p} : Shows(q)' = Shows(q)
  <2>1. Shows(p)' = w
    BY <1>3, <1>4, <1>5, <1>6, NextShowsLemma
  <2>2. \A q \in Paths \ {p} : Shows(q)' = Shows(q)
    BY <1>3, <1>6, SameShowsLemma
  <2> QED
    BY <2>1, <2>2
<1>8. \A v \in Writers \ {w} : Status(v)' = Status(v)
  BY <1>3, <1>6, SameStatusLemma
<1>9. Status(w) = "working" /\ Status(w)' = "published"
  BY <1>2, <1>6 DEF Status
<1>10. Careful(w) => Shows(p) = "none"
  BY <1>2 DEF Shows
<1> QED
  BY <1>3, <1>7, <1>8, <1>9, <1>10, PublishLemma

(* An export shows its document, or what it and others wrote to one .tmp.  *)
LEMMA ExportPublishes ==
  ASSUME FInv, NEW w \in Writers, PublishExport(w)
  PROVE  [Promise!Next]_(Promise!pvars)
<1>1. /\ pc[w] = "write" /\ kind = "jsonl" /\ target[w] = Base /\ Base \in Paths
      /\ published[w] = NoFile /\ written[w] = Tables
      /\ PromiseFixed /\ data' = data /\ ~Careful(w)
  BY BaseLemma DEF PublishExport, FInv, Course, ExportFiles, PromiseFixed, environment, Careful
<1>2. CASE partial[Base] = NoFile
  <2>1. Quiet
    <3>1. /\ UNCHANGED <<names, published>> /\ pc' = [pc EXCEPT ![w] = "cleanup"]
          /\ result' = [result EXCEPT ![w] = "failed"]
      BY <1>1, <1>2 DEF PublishExport, Raise, Goto
    <3> QED
      BY <1>1, <3>1 DEF Quiet, FInv, Types
  <2> QED
    BY <2>1, QuietLemma
<1>3. CASE partial[Base] # NoFile
  <2>1. /\ names' = [names EXCEPT ![Base] = partial[Base]]
        /\ published' = [published EXCEPT ![w] = Base]
        /\ pc' = [pc EXCEPT ![w] = "rollback"] /\ result' = result
    BY <1>1, <1>3 DEF PublishExport, Goto
  <2>2. /\ names'[Base] = partial[Base] /\ partial[Base] \in Writers
        /\ \A q \in Paths \ {Base} : names'[q] = names[q]
        /\ published'[w] = Base /\ pc'[w] = "rollback"
        /\ \A v \in Writers \ {w} : published'[v] = published[v] /\ pc'[v] = pc[v]
    BY <1>1, <1>3, <2>1 DEF FInv, Types
  <2>3. Types'
    BY TypesStep DEF FInv, Next, Writer, Export
  <2>4. Shows(Base)' \in Writers \cup {"torn"}
    BY <1>1, <2>2, <2>3, NextShowsLemma
  <2>5. ASSUME Base \notin met PROVE Shows(Base)' = w
    <3>1. /\ partial[Base] = handle[w] /\ Len(data[partial[Base]]) = Tables
          /\ \A k \in 1 .. Tables : data[partial[Base]][k] = w
      BY <1>1, <1>3, <2>5 DEF FInv, ExportFiles
    <3> QED
      BY <1>1, <2>2, <2>3, <3>1, NextShowsLemma
  <2>6. \A q \in Paths \ {Base} : Shows(q)' = Shows(q)
    BY <1>1, <2>2, SameShowsLemma
  <2>7. \A v \in Writers \ {w} : Status(v)' = Status(v)
    BY <2>1, <2>2, SameStatusLemma
  <2>8. Status(w) = "working" /\ Status(w)' = "published"
    <3>1. published'[w] # NoFile
      BY <1>1, <2>2
    <3> QED
      BY <1>1, <2>2, <3>1 DEF Status
  <2>9. Promise!Next
    BY <1>1, <2>4, <2>5, <2>6, <2>7, <2>8, PublishLemma
  <2> QED
    BY <2>9
<1> QED
  BY <1>2, <1>3

(* A table goes to a file under no name, unless exports have met on it.    *)
LEMMA WriteRefines ==
  ASSUME FInv, NEW w \in Writers, WriteTable(w)
  PROVE  [Promise!Next]_(Promise!pvars)
<1>1. /\ pc[w] = "write" /\ PromiseFixed
      /\ UNCHANGED <<names, pc, published, result>>
      /\ \A i \in Inodes : i # handle[w] => data'[i] = data[i]
  BY DEF WriteTable, PromiseFixed, environment, FInv, Types
<1>2. \A v \in Writers : Status(v)' = Status(v)
  BY <1>1, SameStatusLemma
<1>3. \A p \in Paths : names[p] # handle[w] => Shows(p)' = Shows(p)
  <2>1. \A p \in Paths : names[p] \in {NoFile, Old} \/ names[p] \in Inodes
    BY DEF FInv, Types, Inodes
  <2> QED
    BY <1>1, <2>1, SameShowsLemma
<1>4. CASE \A p \in Paths : names[p] # handle[w]
  BY <1>1, <1>2, <1>3, <1>4, StutterLemma
<1>5. ASSUME NEW p \in Paths, names[p] = handle[w]
      PROVE  Promise!Next
  <2>1. kind = "jsonl"
    <3>1. published[w] = NoFile
      BY <1>1 DEF FInv, Course
    <3> QED
      BY <1>5, <3>1 DEF FInv, DumpFiles
  <2>2. p = Base /\ names[p] \in Writers
    BY <1>5, <2>1 DEF FInv, ExportFiles, Types
  <2>3. Base \in met
    BY <1>1, <1>5, <2>1, <2>2 DEF FInv, ExportFiles
  <2>4. \A q \in Paths \ {p} : Shows(q)' = Shows(q)
    <3>1. \A q \in Paths \ {p} : names[q] = NoFile
      BY <2>1, <2>2 DEF FInv, ExportFiles
    <3> QED
      BY <1>1, <3>1, SameShowsLemma
  <2>5. Types /\ Types'
    BY TypesStep DEF FInv, Next, Writer
  <2>6. Shows(p) \in Writers \cup {"torn"} /\ Shows(p)' \in Writers \cup {"torn"}
    BY <1>1, <2>2, <2>5, ShowsLemma, NextShowsLemma
  <2> QED
    BY <1>1, <1>2, <2>2, <2>3, <2>4, <2>6, NameLemma
<1> QED
  BY <1>4, <1>5

(* A .tmp that is opened, and cut to nothing, is under no name; the export *)
(* that had it open has been met.                                          *)
LEMMA OpenRefines ==
  ASSUME FInv, NEW w \in Writers, OpenPartial(w)
  PROVE  [Promise!Next]_(Promise!pvars)
<1> DEFINE inode == IF partial[Base] = NoFile THEN w ELSE partial[Base]
<1>1. /\ kind = "jsonl" /\ pc[w] = "prepare" /\ target[w] = Base /\ Base \in Paths
      /\ UNCHANGED <<names, published, result, command_line>>
      /\ pc' = [pc EXCEPT ![w] = "write"]
      /\ met' \in {met, met \cup {Base}}
  BY BaseLemma DEF OpenPartial, Goto, FInv, ExportFiles
<1>2. \A i \in Inodes : i # inode => data'[i] = data[i]
  BY <1>1 DEF OpenPartial, FInv, Types
<1>3. \A p \in Paths : names[p] # inode
  <2>1. inode \in Writers /\ inode # names[Base]
    BY <1>1 DEF FInv, Types, ExportFiles, Started
  <2> HIDE DEF inode
  <2> QED
    BY <1>1, <2>1 DEF FInv, ExportFiles
<1> HIDE DEF inode
<1>4. \A p \in Paths : Shows(p)' = Shows(p)
  <2>1. \A p \in Paths : names[p] \in {NoFile, Old} \/ names[p] \in Inodes
    BY DEF FInv, Types, Inodes
  <2> QED
    BY <1>1, <1>2, <1>3, <2>1, SameShowsLemma
<1>5. \A v \in Writers : Status(v)' = Status(v)
  <2>1. \A v \in Writers : pc'[v] = "end" <=> pc[v] = "end"
    BY <1>1 DEF FInv, Types
  <2> QED
    BY <1>1, <2>1, SameStatusLemma
<1>6. CASE met' = met
  BY <1>1, <1>4, <1>5, <1>6, StutterLemma DEF PromiseFixed
<1>7. CASE met' = met \cup {Base}
  <2>1. Promise!Meet(Base)
    BY <1>1, <1>4, <1>5, <1>7 DEF Promise!Meet, Promise!fixed, command_line, Careful
  <2> QED
    BY <1>1, <2>1 DEF Promise!Next
<1> QED
  BY <1>1, <1>6, <1>7

(* Whoever ends says what it did, or was killed.                           *)
LEMMA EndRefines ==
  ASSUME FInv, NEW w \in Writers, ExportRefused(w) \/ Cleanup(w) \/ Killed(w)
  PROVE  [Promise!Next]_(Promise!pvars)
<1>1. PromiseFixed /\ UNCHANGED <<names, data, published>>
  BY DEF ExportRefused, Cleanup, Killed, PromiseFixed, directory, environment
<1>2. /\ \A v \in Writers \ {w} : pc'[v] = pc[v] /\ result'[v] = result[v]
      /\ pc[w] # "end" /\ pc'[w] \in {"cleanup", "end"}
  BY DEF ExportRefused, Cleanup, Killed, Active, Goto, FInv, Types
<1>3. \A q \in Paths : Shows(q)' = Shows(q)
  BY <1>1, SameShowsLemma
<1>4. \A v \in Writers \ {w} : Status(v)' = Status(v)
  BY <1>1, <1>2, SameStatusLemma
<1>5. CASE pc'[w] = "cleanup"
  <2>1. Quiet
    BY <1>1, <1>2, <1>5 DEF Quiet
  <2> QED
    BY <2>1, QuietLemma
<1>6. CASE pc'[w] = "end"
  <2>1. Status(w)' = result'[w] /\ Status(w) \in {"working", "published"}
    BY <1>2, <1>6 DEF Status
  <2>2. CASE Killed(w)
    <3>1. result'[w] = "killed"
      BY <2>2 DEF Killed, FInv, Types
    <3> QED
      BY <1>1, <1>3, <1>4, <2>1, <3>1, EndLemma
  <2>3. CASE ExportRefused(w)
    <3>1. result'[w] = "failed" /\ Status(w) = "working"
      BY <2>3 DEF ExportRefused, Status, FInv, Types, Course, Started
    <3> QED
      BY <1>1, <1>3, <1>4, <2>1, <3>1, EndLemma
  <2>4. CASE Cleanup(w)
    <3>1. /\ pc[w] = "cleanup" /\ result[w] \in {"none", "failed"}
          /\ result'[w] = IF result[w] = "none" THEN "done" ELSE result[w]
      <4>1. pc[w] = "cleanup" /\ result' = [result EXCEPT ![w] = IF @ = "none" THEN "done" ELSE @]
        BY <2>4 DEF Cleanup, Goto
      <4>2. result[w] \in {"none", "done", "failed", "killed"} /\ result[w] \notin {"done", "killed"}
        BY <4>1 DEF FInv, Types, Course
      <4> QED
        BY <4>1, <4>2 DEF FInv, Types
    <3>2. CASE result[w] = "none"
      <4>1. Status(w) = "published"
        BY <3>1, <3>2 DEF FInv, Course, Status
      <4> QED
        BY <1>1, <1>3, <1>4, <2>1, <3>1, <3>2, <4>1, EndLemma
    <3>3. CASE result[w] = "failed"
      <4>1. Careful(w) \/ kind = "jsonl" \/ \A q \in Paths : Shows(q) # w
        <5>1. SUFFICES ASSUME kind # "jsonl", ~Careful(w), NEW q \in Paths, Shows(q) = w
                       PROVE  FALSE
          OBVIOUS
        <5>2. names[q] # w
          BY <3>1, <3>3, <5>1 DEF FInv, DumpFiles
        <5>3. names[q] \in Writers /\ Whole(names[q]) /\ data[names[q]][1] = w
          BY <5>1 DEF Shows, FInv, Types, Inodes
        <5>4. Len(data[names[q]]) = Tables
          BY <5>3 DEF Whole
        <5>5. 1 \in 1 .. Tables
          OBVIOUS
        <5>6. data[names[q]][1] = names[q]
          BY <5>1, <5>3, <5>4, <5>5 DEF FInv, DumpFiles
        <5> QED
          BY <5>2, <5>3, <5>6
      <4> QED
        BY <1>1, <1>3, <1>4, <2>1, <3>1, <3>3, <4>1, EndLemma
    <3> QED
      BY <3>1, <3>2, <3>3
  <2> QED
    BY <2>2, <2>3, <2>4
<1> QED
  BY <1>2, <1>5, <1>6

(* Another program removes a file.                                         *)
LEMMA EnvironmentRefines ==
  ASSUME FInv, NEW p \in Paths, FileRemoved(p)
  PROVE  Promise!Next
<1>1. /\ PromiseFixed /\ UNCHANGED <<data, pc, result, published>>
      /\ names'[p] = NoFile /\ \A q \in Paths \ {p} : names'[q] = names[q]
  BY DEF FileRemoved, PromiseFixed, command, FInv, Types
<1>2. Shows(p)' = "none" /\ \A q \in Paths \ {p} : Shows(q)' = Shows(q)
  <2>1. Shows(p)' = "none"
    BY <1>1 DEF Shows
  <2> QED
    BY <1>1, <2>1, SameShowsLemma
<1>3. \A v \in Writers : Status(v)' = Status(v)
  BY <1>1, SameStatusLemma
<1> QED
  BY <1>1, <1>2, <1>3, NameLemma

(* Dumps and exports implement Publication: however many commands share a  *)
(* name, it goes in one step from one whole document to another; a default *)
(* name is never taken from an existing file; success is reported after a  *)
(* publication only, and failure after one only by a command that had      *)
(* something left to do -- publish_dump, dump_database and                 *)
(* open_document_writer.  Exports that met on one .tmp are excepted.       *)
THEOREM Implements == Spec => ImplementsPublication
<1>1. Init => Promise!Init
  <2> SUFFICES ASSUME Init PROVE Promise!Init
    OBVIOUS
  <2>1. \A p \in Paths : Shows(p) \in {"none", "old"}
    BY DEF Init, Shows
  <2>2. \A w \in Writers : Status(w) = "working"
    BY DEF Init, Status
  <2> QED
    BY <2>1, <2>2 DEF Init, Promise!Init
<1>2. FInv /\ [Next]_vars => [Promise!Next]_(Promise!pvars)
  <2> SUFFICES ASSUME FInv, [Next]_vars PROVE [Promise!Next]_(Promise!pvars)
    OBVIOUS
  <2>1. ASSUME NEW w \in Writers,
               \/ TryNextName(w) \/ ChooseName(w) \/ StartClient(w) \/ ClientEnds(w)
               \/ CopyOut(w) \/ RemoveContainerFile(w) \/ CheckDump(w) \/ Compress(w)
               \/ LinkNextName(w) \/ PublishFails(w) \/ UnlinkSource(w) \/ CheckSize(w)
               \/ Rollback(w) \/ WriteFails(w)
        PROVE  [Promise!Next]_(Promise!pvars)
    BY <2>1, PreparationLemma, QuietLemma DEF FInv
  <2>2. ASSUME NEW w \in Writers, Replace(w) \/ Link(w)
        PROVE  [Promise!Next]_(Promise!pvars)
    BY <2>2, DumpPublishes
  <2>3. ASSUME NEW w \in Writers,
               PublishExport(w) \/ WriteTable(w) \/ OpenPartial(w)
                 \/ ExportRefused(w) \/ Cleanup(w) \/ Killed(w)
        PROVE  [Promise!Next]_(Promise!pvars)
    BY <2>3, ExportPublishes, WriteRefines, OpenRefines, EndRefines
  <2>4. CASE \E p \in Paths : FileRemoved(p)
    BY <2>4, EnvironmentRefines
  <2>5. CASE UNCHANGED vars
    <3>1. Quiet
      BY <2>5 DEF vars, Quiet, PromiseFixed, directory, command, environment
    <3> QED
      BY <3>1, QuietLemma
  <2> QED
    BY <2>1, <2>2, <2>3, <2>4, <2>5 DEF Next, Writer, Dump, Export
<1> QED
  BY <1>1, <1>2, Invariance, PTL DEF Spec, ImplementsPublication, Promise!Spec
===============================================================================
