------------------------------ MODULE CommandPipe ------------------------------
(***************************************************************************)
(* A native client fed from a file: _run_with_streamed_input of            *)
(* src/dbtalk/mysql/client.py.  The main thread starts the client and      *)
(* waits for it; a thread feeds the file to its standard input, one thread *)
(* each drains its standard output and error; all pipes are bounded.       *)
(*                                                                         *)
(* The chunks of the file are numbered: the feeder has read the first      *)
(* `position`, put `written` into the pipe, the client took `taken`.       *)
(***************************************************************************)
EXTENDS Naturals, Sequences

CONSTANTS
  Chunks,         \* what a read of the file returns
  Quit,           \* a chunk that makes the client end by itself, with code 0
  Documents,      \* the files to consider
  Capacity,       \* of a pipe, in chunks or messages
  MaxOutput       \* bound: messages of the client

Streams == {"stdout", "stderr"}
NoStream == "none"

ASSUME ChunksAssumption == Quit \in Chunks /\ Documents \subseteq Seq(Chunks)
ASSUME CapacityAssumption == Capacity \in Nat \ {0} /\ MaxOutput \in Nat

VARIABLES
  doc,            \* the file the feeder has open
  feeder,         \* the feeding thread
  feederError,    \* feeder_error is not empty
  position, written, taken,
  client,         \* "none", "running", "exited"
  code,           \* its return code: 0, or 1 for any other
  owes,           \* the stream it has a message for
  output,         \* [Streams -> messages in the pipe]
  emitted,        \* messages so far
  reader,         \* [Streams -> state of the draining thread]
  main            \* the main thread

threads == <<feeder, feederError, position>>
pipes == <<doc, threads, written, taken, client, code, owes, output, emitted, reader, main>>

PipeInit ==
  /\ doc = <<>>
  /\ feeder = "opening" /\ feederError = FALSE
  /\ position = 0 /\ written = 0 /\ taken = 0
  /\ client = "none" /\ code = 0 /\ owes = NoStream
  /\ output = [s \in Streams |-> 0] /\ emitted = 0
  /\ reader = [s \in Streams |-> "reading"]
  /\ main = "idle"

\* Popen and the start of the threads, or the OSError of Popen.
StartClient ==
  /\ main = "idle"
  /\ \/ main' = "waiting" /\ client' = "running"
     \/ main' = "failed" /\ UNCHANGED client
  /\ UNCHANGED <<doc, threads, written, taken, code, owes, output, emitted, reader>>

-------------------------------------------------------------------------------
(* The feeding thread: feed_input.                                         *)

Open(content) ==
  /\ client # "none" /\ feeder = "opening"
  /\ doc' = content
  /\ feeder' = "reading"
  /\ UNCHANGED <<feederError, position, written, taken, client, code, owes, output,
                 emitted, reader, main>>

\* The file cannot be opened or read.
FeederFails ==
  /\ client # "none" /\ feeder \in {"opening", "reading"}
  /\ feeder' = "closing" /\ feederError' = TRUE
  /\ UNCHANGED <<doc, position, written, taken, client, code, owes, output, emitted, reader, main>>

ReadInput ==
  /\ feeder = "reading"
  /\ IF position < Len(doc) THEN feeder' = "writing" /\ position' = position + 1
                            ELSE feeder' = "closing" /\ UNCHANGED position
  /\ UNCHANGED <<doc, feederError, written, taken, client, code, owes, output, emitted, reader, main>>

WriteInput ==
  /\ feeder = "writing" /\ client = "running"
  /\ written - taken < Capacity
  /\ written' = written + 1
  /\ feeder' = "reading"
  /\ UNCHANGED <<doc, feederError, position, taken, client, code, owes, output, emitted, reader, main>>

\* BrokenPipeError is an OSError, as those of the file are.
BrokenPipe ==
  /\ feeder = "writing" /\ client = "exited"
  /\ feeder' = "closing" /\ feederError' = TRUE
  /\ UNCHANGED <<doc, position, written, taken, client, code, owes, output, emitted, reader, main>>

CloseInput ==
  /\ feeder = "closing"
  /\ feeder' = "closed"
  /\ UNCHANGED <<doc, feederError, position, written, taken, client, code, owes, output,
                 emitted, reader, main>>

Feeder == FeederFails \/ ReadInput \/ WriteInput \/ BrokenPipe \/ CloseInput

-------------------------------------------------------------------------------
(* The draining threads: collect.                                          *)

\* Faulty variant: the threads start when the client has ended.
DrainAfterwards(s) ==
  /\ main # "waiting"
  /\ reader[s] = "reading" /\ output[s] > 0
  /\ output' = [output EXCEPT ![s] = @ - 1]
  /\ UNCHANGED <<doc, threads, written, taken, client, code, owes, emitted, reader, main>>

Drain(s) ==
  /\ reader[s] = "reading" /\ output[s] > 0
  /\ output' = [output EXCEPT ![s] = @ - 1]
  /\ UNCHANGED <<doc, threads, written, taken, client, code, owes, emitted, reader, main>>

DrainEnds(s) ==
  /\ reader[s] = "reading" /\ output[s] = 0 /\ client = "exited"
  /\ reader' = [reader EXCEPT ![s] = "done"]
  /\ UNCHANGED <<doc, threads, written, taken, client, code, owes, output, emitted, main>>

Reader(s) == Drain(s) \/ DrainEnds(s)

-------------------------------------------------------------------------------
(* The client program.                                                     *)

Active == client = "running" /\ owes = NoStream
AtEnd == feeder = "closed" /\ taken = written
NextChunk == doc[taken + 1]

\* It reads and executes what is next in its input.
Take ==
  /\ Active /\ taken < written
  /\ NextChunk # Quit
  /\ taken' = taken + 1
  /\ UNCHANGED <<doc, threads, written, client, code, owes, output, emitted, reader, main>>

TakeQuit ==
  /\ Active /\ taken < written
  /\ NextChunk = Quit
  /\ taken' = taken + 1
  /\ client' = "exited" /\ code' = 0
  /\ UNCHANGED <<doc, threads, written, owes, output, emitted, reader, main>>

\* It has something to say, and goes on when the pipe has room for it.
HasMessage ==
  /\ Active /\ emitted < MaxOutput
  /\ owes' \in Streams
  /\ emitted' = emitted + 1
  /\ UNCHANGED <<doc, threads, written, taken, client, code, output, reader, main>>

Emit ==
  /\ client = "running" /\ owes # NoStream
  /\ output[owes] < Capacity
  /\ output' = [output EXCEPT ![owes] = @ + 1]
  /\ owes' = NoStream
  /\ UNCHANGED <<doc, threads, written, taken, client, code, emitted, reader, main>>

ExitAtEnd ==
  /\ Active /\ AtEnd
  /\ client' = "exited" /\ code' = 0
  /\ UNCHANGED <<doc, threads, written, taken, owes, output, emitted, reader, main>>

\* A statement fails, the server goes away, the client is killed.
Abort ==
  /\ client = "running"
  /\ client' = "exited" /\ code' = 1
  /\ UNCHANGED <<doc, threads, written, taken, owes, output, emitted, reader, main>>

-------------------------------------------------------------------------------
(* The main thread.                                                        *)

WaitClient ==
  /\ main = "waiting" /\ client = "exited"
  /\ main' = "joinFeeder"
  /\ UNCHANGED <<doc, threads, written, taken, client, code, owes, output, emitted, reader>>

JoinFeeder ==
  /\ main = "joinFeeder" /\ feeder = "closed"
  /\ main' = "joinReaders"
  /\ UNCHANGED <<doc, threads, written, taken, client, code, owes, output, emitted, reader>>

\* Faulty variant: the return code alone decides.
JoinReadersByCode ==
  /\ main = "joinReaders" /\ \A s \in Streams : reader[s] = "done"
  /\ main' = IF code = 0 THEN "success" ELSE "failed"
  /\ UNCHANGED <<doc, threads, written, taken, client, code, owes, output, emitted, reader>>

\* Faulty variant: the return code is not looked at.
JoinReadersAnyCode ==
  /\ main = "joinReaders" /\ \A s \in Streams : reader[s] = "done"
  /\ main' = IF ~feederError THEN "success" ELSE "failed"
  /\ UNCHANGED <<doc, threads, written, taken, client, code, owes, output, emitted, reader>>

\* The joins, the result, and ensure_command_succeeded of it.
JoinReaders ==
  /\ main = "joinReaders" /\ \A s \in Streams : reader[s] = "done"
  /\ main' = IF code = 0 /\ ~feederError THEN "success" ELSE "failed"
  /\ UNCHANGED <<doc, threads, written, taken, client, code, owes, output, emitted, reader>>

Main == StartClient \/ WaitClient \/ JoinFeeder \/ JoinReaders

PipeNext ==
  \/ Main \/ Feeder
  \/ \E content \in Documents : Open(content)
  \/ \E s \in Streams : Reader(s)
  \/ Take \/ TakeQuit \/ HasMessage \/ Emit \/ ExitAtEnd \/ Abort

PipeSpec == PipeInit /\ [][PipeNext]_pipes

-------------------------------------------------------------------------------
PipeTypeOK ==
  /\ doc \in Seq(Chunks)
  /\ feeder \in {"opening", "reading", "writing", "closing", "closed"}
  /\ feederError \in BOOLEAN
  /\ position \in 0 .. Len(doc) /\ written \in 0 .. position /\ taken \in 0 .. written
  /\ written - taken <= Capacity
  /\ client \in {"none", "running", "exited"} /\ code \in {0, 1}
  /\ owes \in Streams \cup {NoStream}
  /\ output \in [Streams -> 0 .. Capacity] /\ emitted \in 0 .. MaxOutput
  /\ reader \in [Streams -> {"reading", "done"}]
  /\ main \in {"idle", "waiting", "joinFeeder", "joinReaders", "success", "failed"}

(* A command that succeeds has given the client the whole file: it took    *)
(* every chunk, or ended by itself where the file told it to, and then     *)
(* nothing was left that could not be written.                             *)
SuccessMeansRead ==
  main = "success" =>
    /\ ~feederError /\ written = Len(doc)
    /\ taken = Len(doc) \/ (taken > 0 /\ doc[taken] = Quit)
===============================================================================
