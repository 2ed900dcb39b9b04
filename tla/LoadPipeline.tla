---------------------------- MODULE LoadPipeline ----------------------------
(***************************************************************************)
(* How a batch of files is downloaded, parsed and committed.               *)
(*                                                                         *)
(* downloadAll opens the files of a load with a bounded pool and sends     *)
(* the open bodies through a channel.  loadPipeline receives them, starts  *)
(* a reader per body (PrepareFile), and commits the oldest file once       *)
(* maxInFlightFiles are streaming, then what is left at the end.  A reader *)
(* scans a chunk, parses it while it holds the program's one parse slot,   *)
(* and hands it to the commit through a channel of its own.  CommitFile    *)
(* keeps the wiretap's write lock while it waits for its file's chunks.    *)
(*                                                                         *)
(* Several loads may run at once: the scheduler's and the window's.        *)
(* Assumed of the network: OpenObject and a read of a body end sometime,   *)
(* with data or with an error; nothing in the program has a timeout.       *)
(***************************************************************************)
EXTENDS Integers, Sequences, FiniteSets

CONSTANTS Loads,        \* calls of loadPipeline on one wiretap
          Files,        \* the files they load, each in one batch
          Batch,        \* Batch[l]: the names l was given, in order
          Size,         \* Size[f]: chunks of ingestChunkLines lines in f
          MaxDownloads, \* maxConcurrentDownloads
          MaxInFlight,  \* maxInFlightFiles
          Depth,        \* pendingChunkDepth
          MaxFaults,    \* bounds the errors of opening, reading and committing
          None

FilesOf(l) == {Batch[l][i] : i \in 1..Len(Batch[l])}

ASSUME BatchAssumption ==
  /\ Batch \in [Loads -> Seq(Files)]
  /\ \A f \in Files : \E l \in Loads : f \in FilesOf(l)
  /\ \A l \in Loads : Cardinality(FilesOf(l)) = Len(Batch[l])
  /\ \A l, k \in Loads : l # k => FilesOf(l) \cap FilesOf(k) = {}
ASSUME SizeAssumption  == Size \in [Files -> Nat]
ASSUME LimitAssumption == {MaxDownloads, MaxInFlight, Depth} \subseteq Nat \ {0}
ASSUME FaultAssumption == MaxFaults \in Nat
ASSUME NoneAssumption  == None \notin Loads \cup Files \cup {"ok", "failed"}

VARIABLES
  fetch,     \* the pool's goroutine for a file
  refused,   \* files OpenObject returned an error for
  results,   \* downloadAll's channel
  main, queue, \* loadPipeline: what it is doing, and its files in flight
  writer,    \* the load that holds the wiretap's write lock
  reader,    \* where a file's reader is
  scanned,   \* chunks it has read
  chunks,    \* parsed chunks in its channel
  readErr,   \* files whose reader stopped with an error
  slot,      \* who holds parseSlot
  cancelled, \* files whose context was cancelled
  closed,    \* files whose body was closed
  appended,  \* chunks of a file in the database
  outcome,   \* what onResult was told
  faults

pool   == <<fetch, refused>>
stream == <<reader, scanned, readErr, slot>>
commit == <<cancelled, closed, appended, outcome>>
vars   == <<pool, results, main, queue, writer, stream, chunks, commit, faults>>

FetchLabels  == {"waiting", "opening", "holding", "handed"}
MainLabels   == {"receive", "begin", "take", "append", "close", "done"}
ReaderLabels == {"none", "scan", "await", "parse", "send", "ended"}
Outcomes     == {"ok", "failed"}

TypeOK ==
  /\ fetch \in [Files -> FetchLabels]
  /\ results \in [Loads -> Seq(Files)] /\ queue \in [Loads -> Seq(Files)]
  /\ main \in [Loads -> MainLabels]
  /\ writer \in Loads \cup {None} /\ slot \in Files \cup {None}
  /\ reader \in [Files -> ReaderLabels]
  /\ scanned \in [Files -> Nat] /\ appended \in [Files -> Nat]
  /\ chunks \in [Files -> 0..Depth]
  /\ refused \subseteq Files /\ readErr \subseteq Files
  /\ cancelled \subseteq Files /\ closed \subseteq Files
  /\ outcome \in [Files -> Outcomes \cup {None}]
  /\ faults \in 0..MaxFaults

Init ==
  /\ fetch = [f \in Files |-> "waiting"]
  /\ results = [l \in Loads |-> <<>>] /\ queue = [l \in Loads |-> <<>>]
  /\ main = [l \in Loads |-> "receive"]
  /\ writer = None /\ slot = None
  /\ reader = [f \in Files |-> "none"]
  /\ scanned = [f \in Files |-> 0] /\ appended = [f \in Files |-> 0]
  /\ chunks = [f \in Files |-> 0]
  /\ refused = {} /\ readErr = {} /\ cancelled = {} /\ closed = {}
  /\ outcome = [f \in Files |-> None]
  /\ faults = 0

Fault == faults < MaxFaults /\ faults' = faults + 1

(***************************************************************************)
(* downloadAll.                                                            *)
(***************************************************************************)
Running(l) == {f \in FilesOf(l) : fetch[f] \in {"opening", "holding"}}

\* g.Go, in the order of the names, blocks while the pool is full.
Spawn(l) ==
  /\ Cardinality(Running(l)) < MaxDownloads
  /\ \E i \in 1..Len(Batch[l]) :
       /\ fetch[Batch[l][i]] = "waiting"
       /\ \A j \in 1..(i - 1) : fetch[Batch[l][j]] # "waiting"
       /\ fetch' = [fetch EXCEPT ![Batch[l][i]] = "opening"]
  /\ UNCHANGED <<refused, results, main, queue, writer, stream, chunks, commit, faults>>

\* OpenObject returns a body, or an error.
Open(f) ==
  /\ fetch[f] = "opening"
  /\ fetch' = [fetch EXCEPT ![f] = "holding"]
  /\ \/ UNCHANGED <<refused, faults>>
     \/ refused' = refused \cup {f} /\ Fault
  /\ UNCHANGED <<results, main, queue, writer, stream, chunks, commit>>

\* The send to the results channel, which gives the pool's place back.
Hand(l, f) ==
  /\ fetch[f] = "holding" /\ Len(results[l]) < MaxDownloads
  /\ fetch' = [fetch EXCEPT ![f] = "handed"]
  /\ results' = [results EXCEPT ![l] = Append(@, f)]
  /\ UNCHANGED <<refused, main, queue, writer, stream, chunks, commit, faults>>

ResultsClosed(l) == results[l] = <<>> /\ \A f \in FilesOf(l) : fetch[f] = "handed"

(***************************************************************************)
(* loadPipeline.                                                           *)
(***************************************************************************)
\* Variant: an off-by-one in the limit of files in flight.
AfterPrepareLate(l, q) == IF Len(q) > MaxInFlight THEN "begin" ELSE "receive"

AfterPrepare(l, q) == IF Len(q) = MaxInFlight THEN "begin" ELSE "receive"

\* The next result: a failed download is reported, a body gets its reader.
Receive(l) ==
  /\ main[l] = "receive" /\ results[l] # <<>>
  /\ LET f == Head(results[l]) IN
       \/ /\ f \in refused
          /\ outcome' = [outcome EXCEPT ![f] = "failed"]
          /\ UNCHANGED <<main, queue, reader>>
       \/ /\ f \notin refused
          /\ reader' = [reader EXCEPT ![f] = "scan"]
          /\ queue' = [queue EXCEPT ![l] = Append(@, f)]
          /\ main' = [main EXCEPT ![l] = AfterPrepare(l, queue'[l])]
          /\ UNCHANGED outcome
  /\ results' = [results EXCEPT ![l] = Tail(@)]
  /\ UNCHANGED <<pool, writer, scanned, readErr, slot, chunks, cancelled, closed, appended, faults>>

\* The channel is closed: the files in flight are committed one after another.
Drain(l) ==
  /\ main[l] = "receive" /\ ResultsClosed(l)
  /\ main' = [main EXCEPT ![l] = IF queue[l] = <<>> THEN "done" ELSE "begin"]
  /\ UNCHANGED <<pool, results, queue, writer, stream, chunks, commit, faults>>

(***************************************************************************)
(* CommitFile, of the file at the head of the queue.                       *)
(***************************************************************************)
\* The write lock, and the deletes of what an earlier attempt left.
Begin(l) ==
  /\ main[l] = "begin" /\ writer = None
  /\ writer' = l
  /\ main' = [main EXCEPT ![l] = "take"]
  /\ UNCHANGED <<pool, results, queue, stream, chunks, commit, faults>>

\* A chunk is received, and is still in memory until it is appended.
Take(l) ==
  /\ main[l] = "take" /\ chunks[Head(queue[l])] > 0
  /\ chunks' = [chunks EXCEPT ![Head(queue[l])] = @ - 1]
  /\ main' = [main EXCEPT ![l] = "append"]
  /\ UNCHANGED <<pool, results, queue, writer, stream, commit, faults>>

AppendChunk(l) ==
  /\ main[l] = "append"
  /\ appended' = [appended EXCEPT ![Head(queue[l])] = @ + 1]
  /\ main' = [main EXCEPT ![l] = "take"]
  /\ UNCHANGED <<pool, results, queue, writer, stream, chunks, cancelled, closed, outcome, faults>>

\* Variant: the return after a failed append misses the unlock.
ReturnLocked(l, result) ==
  /\ outcome' = [outcome EXCEPT ![Head(queue[l])] = result]
  /\ cancelled' = IF result = "ok" THEN cancelled ELSE cancelled \cup {Head(queue[l])}
  /\ writer' = IF writer = l /\ main[l] # "append" THEN None ELSE writer
  /\ main' = [main EXCEPT ![l] = "close"]
  /\ UNCHANGED <<pool, results, queue, stream, chunks, closed, appended>>

\* CommitFile returns: on an error the file's context is cancelled.
Return(l, result) ==
  /\ outcome' = [outcome EXCEPT ![Head(queue[l])] = result]
  /\ cancelled' = IF result = "ok" THEN cancelled ELSE cancelled \cup {Head(queue[l])}
  /\ writer' = IF writer = l THEN None ELSE writer
  /\ main' = [main EXCEPT ![l] = "close"]
  /\ UNCHANGED <<pool, results, queue, stream, chunks, closed, appended>>

StreamEnded(l) == chunks[Head(queue[l])] = 0 /\ reader[Head(queue[l])] = "ended"

\* Variant: the closed channel is taken for the end of the file.
EndOfStreamUnchecked(l) ==
  /\ main[l] = "take" /\ StreamEnded(l)
  /\ Return(l, "ok")
  /\ UNCHANGED faults

\* The channel is closed and drained: the file is marked, unless its reader
\* stopped with an error.
EndOfStream(l) ==
  /\ main[l] = "take" /\ StreamEnded(l)
  /\ Return(l, IF Head(queue[l]) \in readErr THEN "failed" ELSE "ok")
  /\ UNCHANGED faults

\* Opening the handle, a delete, an append or the mark fails.  A commit that
\* waits for a chunk cannot fail.
CommitFails(l) ==
  /\ \/ main[l] \in {"begin", "append"}
     \/ main[l] = "take" /\ StreamEnded(l)
  /\ Fault
  /\ Return(l, "failed")

\* The body is closed, and the pipeline goes on to the next file.
CloseBody(l) ==
  /\ main[l] = "close"
  /\ closed' = closed \cup {Head(queue[l])}
  /\ queue' = [queue EXCEPT ![l] = Tail(@)]
  /\ main' = [main EXCEPT ![l] = "receive"]
  /\ UNCHANGED <<pool, results, writer, stream, chunks, cancelled, appended, outcome, faults>>

(***************************************************************************)
(* PendingFile.read.                                                       *)
(***************************************************************************)
\* The scanner fills a chunk.  A closed body may still be in its buffer.
Scan(f) ==
  /\ reader[f] = "scan" /\ scanned[f] < Size[f]
  /\ scanned' = [scanned EXCEPT ![f] = @ + 1]
  /\ reader' = [reader EXCEPT ![f] = "await"]
  /\ UNCHANGED <<pool, results, main, queue, writer, readErr, slot, chunks, commit, faults>>

\* The end of the body: done and the channel are closed.
ReachEnd(f) ==
  /\ reader[f] = "scan" /\ scanned[f] = Size[f]
  /\ reader' = [reader EXCEPT ![f] = "ended"]
  /\ UNCHANGED <<pool, results, main, queue, writer, scanned, readErr, slot, chunks, commit, faults>>

\* The connection breaks, a line is too long, or the body was closed.
ReadFails(f) ==
  /\ reader[f] = "scan"
  /\ IF f \in closed THEN UNCHANGED faults ELSE Fault
  /\ readErr' = readErr \cup {f}
  /\ reader' = [reader EXCEPT ![f] = "ended"]
  /\ UNCHANGED <<pool, results, main, queue, writer, scanned, slot, chunks, commit>>

TakeSlot(f) ==
  /\ reader[f] = "await" /\ slot = None
  /\ slot' = f
  /\ reader' = [reader EXCEPT ![f] = "parse"]
  /\ UNCHANGED <<pool, results, main, queue, writer, scanned, readErr, chunks, commit, faults>>

\* Variant: the parse slot is kept until the chunk has been handed over.
ParseKeepSlot(f) ==
  /\ reader[f] = "parse" /\ chunks[f] < Depth
  /\ slot' = None
  /\ reader' = [reader EXCEPT ![f] = "send"]
  /\ UNCHANGED <<pool, results, main, queue, writer, scanned, readErr, chunks, commit, faults>>

Parse(f) ==
  /\ reader[f] = "parse"
  /\ slot' = None
  /\ reader' = [reader EXCEPT ![f] = "send"]
  /\ UNCHANGED <<pool, results, main, queue, writer, scanned, readErr, chunks, commit, faults>>

Send(f) ==
  /\ reader[f] = "send" /\ chunks[f] < Depth
  /\ chunks' = [chunks EXCEPT ![f] = @ + 1]
  /\ reader' = [reader EXCEPT ![f] = "scan"]
  /\ UNCHANGED <<pool, results, main, queue, writer, scanned, readErr, slot, commit, faults>>

\* Variant: the reader waits for room in its channel first.
GiveUpWithRoom(f) ==
  /\ reader[f] = "send" /\ f \in cancelled /\ chunks[f] < Depth
  /\ readErr' = readErr \cup {f}
  /\ reader' = [reader EXCEPT ![f] = "ended"]
  /\ UNCHANGED <<pool, results, main, queue, writer, scanned, slot, chunks, commit, faults>>

\* The commit was given up: select also watches the file's context.
GiveUp(f) ==
  /\ reader[f] = "send" /\ f \in cancelled
  /\ readErr' = readErr \cup {f}
  /\ reader' = [reader EXCEPT ![f] = "ended"]
  /\ UNCHANGED <<pool, results, main, queue, writer, scanned, slot, chunks, commit, faults>>

(***************************************************************************)
(* The specification.                                                      *)
(***************************************************************************)
Fetch(f)  == Open(f) \/ \E l \in Loads : f \in FilesOf(l) /\ Hand(l, f)
Advance(l) ==
  \/ Spawn(l) \/ Receive(l) \/ Drain(l)
Commit(l) ==
  \/ Begin(l) \/ Take(l) \/ AppendChunk(l) \/ EndOfStream(l) \/ CommitFails(l) \/ CloseBody(l)
Read(f) ==
  \/ Scan(f) \/ ReachEnd(f) \/ ReadFails(f) \/ TakeSlot(f) \/ Parse(f) \/ Send(f) \/ GiveUp(f)

Next == (\E l \in Loads : Advance(l) \/ Commit(l)) \/ (\E f \in Files : Fetch(f) \/ Read(f))

Spec == Init /\ [][Next]_vars

\* Each goroutine goes on; sync.Mutex and channels starve nobody.
Fairness ==
  /\ \A l \in Loads : WF_vars(Spawn(l)) /\ WF_vars(Receive(l) \/ Drain(l)) /\ SF_vars(Commit(l))
  /\ \A f \in Files : WF_vars(Fetch(f)) /\ SF_vars(Read(f))

FairSpec == Spec /\ Fairness

(***************************************************************************)
(* Properties.                                                             *)
(***************************************************************************)
\* The file's chunk that the commit has taken and not appended yet.
InHand(f) == \E l \in Loads : main[l] = "append" /\ Head(queue[l]) = f

\* The write lock and the parse slot are held just where they are used.
LocksHeld ==
  /\ \A l \in Loads : writer = l <=> main[l] \in {"take", "append"}
  /\ \A f \in Files : slot = f <=> reader[f] = "parse"

\* A file is still to be fetched, once in the results channel, once in the queue,
\* or reported.
Busy == {"begin", "take", "append", "close"}
ResultsHeld(l) ==
  \A i \in 1..Len(results[l]) :
    /\ results[l][i] \in FilesOf(l) /\ fetch[results[l][i]] = "handed"
    /\ reader[results[l][i]] = "none" /\ outcome[results[l][i]] = None
    /\ \A j \in 1..Len(results[l]) : results[l][i] = results[l][j] => i = j
QueueHeld(l) ==
  /\ main[l] \in Busy => queue[l] # <<>>
  /\ \A i \in 1..Len(queue[l]) :
       /\ queue[l][i] \in FilesOf(l) /\ reader[queue[l][i]] # "none"
       /\ outcome[queue[l][i]] = None <=> ~(i = 1 /\ main[l] = "close")
       /\ \A j \in 1..Len(queue[l]) : queue[l][i] = queue[l][j] => i = j
InOrder ==
  /\ \A f \in Files : fetch[f] # "handed" => reader[f] = "none" /\ outcome[f] = None
  /\ \A l \in Loads : ResultsHeld(l) /\ QueueHeld(l)

\* Every chunk a reader has read is in one place until its file is reported, and
\* a reader gives one up only then.
ChunksOf(f) ==
  /\ scanned[f] <= Size[f]
  /\ reader[f] = "ended" /\ f \notin readErr => scanned[f] = Size[f]
  /\ f \in cancelled => outcome[f] # None
  /\ outcome[f] = None =>
       scanned[f] = appended[f] + chunks[f]
                    + (IF reader[f] \in {"await", "parse", "send"} THEN 1 ELSE 0)
                    + (IF InHand(f) THEN 1 ELSE 0)
ChunksHeld == \A f \in Files : ChunksOf(f)

\* Of a file that is neither reported nor being committed nothing is in the database.
Writing(l)    == main[l] \in {"take", "append"}
UnbegunEmpty == \A f \in Files : outcome[f] = None /\ appended[f] > 0 =>
                                  \E l \in Loads : Writing(l) /\ Head(queue[l]) = f

\* A load has no more files in flight than it may, nor any outside its queue.
InFlight(l) ==
  /\ Len(queue[l]) <= MaxInFlight
  /\ main[l] \in {"receive", "done"} => Len(queue[l]) < MaxInFlight
  /\ \A f \in FilesOf(l) : reader[f] # "none" /\ outcome[f] = None =>
                            \E i \in 1..Len(queue[l]) : queue[l][i] = f
FlightBounded ==
  /\ \A l \in Loads : InFlight(l)
  /\ \A f \in Files : reader[f] = "none" => chunks[f] = 0

\* The inductive invariant behind LoadedMeansComplete and BoundedMemory: files and
\* chunks are where the channels and goroutines have them, each once, and the locks
\* are held in their sections.
PipelineInv == TypeOK /\ LocksHeld /\ InOrder /\ ChunksHeld /\ FlightBounded /\ UnbegunEmpty

\* A file is reported as loaded only with all of its chunks in the database,
\* though a reader that broke off closes its channel like one that finished.
LoadedMeansComplete == \A f \in Files : outcome[f] = "ok" => appended[f] = Size[f]

\* Parsed chunks a file keeps in memory: in its channel, and with its reader.
Parsed(f) == chunks[f] + IF reader[f] \in {"parse", "send"} THEN 1 ELSE 0

\* What the comment on maxInFlightFiles promises, whatever the number of files and
\* their size: the files in flight hold no more than pendingChunkDepth + 1
\* parsed chunks each, and the commit one.
BoundedMemory ==
  \A l \in Loads :
    LET inFlight == {f \in FilesOf(l) : outcome[f] = None}
        held     == UNION {{f} \X (1..Parsed(f)) : f \in inFlight}
    IN Cardinality(held) + (IF main[l] = "append" THEN 1 ELSE 0) <= MaxInFlight * (Depth + 1) + 1

\* To the database and to onResult the pools, channels and readers do not show:
\* files are written one by one, each from its start to no more than its end, and
\* reported once (CommitFile, loadPipeline).
Serial == INSTANCE SerialLoad WITH
            File <- Files, Nil <- None, report <- outcome, written <- appended,
            writing <- IF writer = None THEN None ELSE Head(queue[writer])
Implements == Serial!Spec

\* Every load ends, and with it onResult has had every file: no reader, commit
\* and download wait for each other in a circle over the parse slot, the write
\* lock and the three channels.
EveryFileReported ==
  \A l \in Loads : <>[](main[l] = "done" /\ \A f \in FilesOf(l) : outcome[f] # None)

\* Nothing outlives a load: of every file that was opened the reader ends and
\* the body is closed, also when its commit failed, and the lock and slot are free.
NothingLeaks ==
  <>[](/\ writer = None /\ slot = None
       /\ \A f \in Files \ refused : f \in closed /\ reader[f] = "ended")
=============================================================================
