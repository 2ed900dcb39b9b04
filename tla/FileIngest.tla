----------------------------- MODULE FileIngest -----------------------------
(***************************************************************************)
(* What loading files leaves in one wiretap's database.                    *)
(*                                                                         *)
(* A load asks whether the file is marked as loaded, downloads it, and     *)
(* commits it under the write lock: delete the file's rows, delete its     *)
(* mark, append its chunks, mark it.  Each of these is a transaction of    *)
(* its own.  The scheduler and the window load at the same time, a         *)
(* statement or the download may fail, and the program may die anywhere.   *)
(* Retention deletes rows between commits.  Compaction copies rows and     *)
(* marks as they are under the same lock, and is a stuttering step here.   *)
(***************************************************************************)
EXTENDS Integers

CONSTANTS Files,     \* object names under the wiretap's prefix
          NChunks,   \* chunks of ingestChunkLines lines in a file
          Loaders,   \* goroutines that load: the scheduler and calls from the window
          Scheduler, \* the one that comes back on every poll
          MaxFaults, \* bounds failed statements, failed downloads and crashes
          None

Chunks == 1..NChunks

ASSUME ChunksAssumption  == NChunks \in Nat \ {0}
ASSUME LoadersAssumption == Scheduler \in Loaders /\ None \notin Loaders \cup Files
ASSUME FaultsAssumption  == MaxFaults \in Nat

VARIABLES
  rows,     \* committed copies of each chunk of each file in the table
  marked,   \* the files in _meta_ingested_files
  expired,  \* history: chunks retention has deleted since they were appended
  torn,     \* history: files whose commit stopped between its two deletes
  lock,     \* who holds the wiretap's write lock
  pc, cur,  \* where each loader is, with which file
  next,     \* the chunk it appends next
  faults

durable == <<rows, marked, expired, torn>>
vars == <<durable, lock, pc, cur, next, faults>>

Labels == {"idle", "download", "clear", "unmark", "append"}

TypeOK ==
  /\ rows \in [Files -> [Chunks -> Nat]]
  /\ marked \subseteq Files /\ torn \subseteq Files
  /\ expired \in [Files -> SUBSET Chunks]
  /\ lock \in Loaders \cup {None}
  /\ pc \in [Loaders -> Labels]
  /\ cur \in [Loaders -> Files \cup {None}]
  /\ next \in [Loaders -> 1..(NChunks + 1)]
  /\ faults \in 0..MaxFaults

Init ==
  /\ rows = [f \in Files |-> [i \in Chunks |-> 0]]
  /\ expired = [f \in Files |-> {}]
  /\ marked = {} /\ torn = {}
  /\ lock = None
  /\ pc = [l \in Loaders |-> "idle"]
  /\ cur = [l \in Loaders |-> None]
  /\ next = [l \in Loaders |-> 1]
  /\ faults = 0

At(l, s)   == pc[l] = s
Goto(l, s) == pc' = [pc EXCEPT ![l] = s]

\* Variant: a return that misses the unlock.
LeaveLocked(l) ==
  /\ Goto(l, "idle")
  /\ cur' = [cur EXCEPT ![l] = None]
  /\ next' = [next EXCEPT ![l] = 1]
  /\ UNCHANGED lock

\* The commit returns: its deferred unlock, and the loader moves on.
Leave(l) ==
  /\ Goto(l, "idle")
  /\ cur' = [cur EXCEPT ![l] = None]
  /\ next' = [next EXCEPT ![l] = 1]
  /\ lock' = IF lock = l THEN None ELSE lock

\* IsFileLoaded, before the download: a marked file is skipped.
Check(l, f) ==
  /\ At(l, "idle") /\ f \notin marked
  /\ Goto(l, "download")
  /\ cur' = [cur EXCEPT ![l] = f]
  /\ UNCHANGED <<durable, lock, next, faults>>

\* Variant: CommitFile does not take the write lock before it starts.
LockNoWait(l) ==
  /\ At(l, "download")
  /\ lock' = l
  /\ Goto(l, "clear")
  /\ UNCHANGED <<durable, cur, next, faults>>

\* CommitFile gets the write lock.
Lock(l) ==
  /\ At(l, "download") /\ lock = None
  /\ lock' = l
  /\ Goto(l, "clear")
  /\ UNCHANGED <<durable, cur, next, faults>>

\* Variant: rows an earlier attempt left are not cleared, on the grounds that
\* the file is not marked.
DeleteRowsOfMarked(l) ==
  /\ At(l, "clear")
  /\ IF cur[l] \in marked
     THEN rows' = [rows EXCEPT ![cur[l]] = [i \in Chunks |-> 0]]
     ELSE UNCHANGED rows
  /\ expired' = [expired EXCEPT ![cur[l]] = {}]
  /\ Goto(l, "unmark")
  /\ UNCHANGED <<marked, torn, lock, cur, next, faults>>

\* DELETE FROM the table WHERE source_file = the file.
DeleteRows(l) ==
  /\ At(l, "clear")
  /\ rows' = [rows EXCEPT ![cur[l]] = [i \in Chunks |-> 0]]
  /\ expired' = [expired EXCEPT ![cur[l]] = {}]
  /\ Goto(l, "unmark")
  /\ UNCHANGED <<marked, torn, lock, cur, next, faults>>

\* DELETE FROM _meta_ingested_files.
DeleteMark(l) ==
  /\ At(l, "unmark")
  /\ marked' = marked \ {cur[l]}
  /\ torn' = torn \ {cur[l]}
  /\ Goto(l, "append")
  /\ UNCHANGED <<rows, expired, lock, cur, next, faults>>

\* appendChunk: one transaction.
Append(l) ==
  /\ At(l, "append") /\ next[l] <= NChunks
  /\ rows' = [rows EXCEPT ![cur[l]][next[l]] = @ + 1]
  /\ next' = [next EXCEPT ![l] = @ + 1]
  /\ UNCHANGED <<marked, expired, torn, lock, pc, cur, faults>>

\* The channel is closed and the reader ended without an error.
Mark(l) ==
  /\ At(l, "append") /\ next[l] = NChunks + 1
  /\ marked' = marked \cup {cur[l]}
  /\ Leave(l)
  /\ UNCHANGED <<rows, expired, torn, faults>>

\* What is left when a load stops between DeleteRows and DeleteMark.
Tear(S) == torn' = torn \cup {cur[l] : l \in {k \in S : At(k, "unmark")}}

\* The download, or any statement, fails: an open transaction is rolled back.
Fail(l) ==
  /\ ~At(l, "idle") /\ faults < MaxFaults
  /\ Tear({l}) /\ Leave(l)
  /\ faults' = faults + 1
  /\ UNCHANGED <<rows, marked, expired>>

\* The program dies and is started again: committed transactions remain.
Crash ==
  /\ faults < MaxFaults
  /\ \E l \in Loaders : ~At(l, "idle")
  /\ Tear(Loaders)
  /\ lock' = None
  /\ pc' = [l \in Loaders |-> "idle"]
  /\ cur' = [l \in Loaders |-> None]
  /\ next' = [l \in Loaders |-> 1]
  /\ faults' = faults + 1
  /\ UNCHANGED <<rows, marked, expired>>

\* One DELETE of rows before some time.
DeleteOld ==
  /\ \E old \in [Files -> SUBSET Chunks] :
       /\ \A f \in Files : \A i \in old[f] : rows[f][i] > 0
       /\ rows' = [f \in Files |-> [i \in Chunks |-> IF i \in old[f] THEN 0 ELSE rows[f][i]]]
       /\ expired' = [f \in Files |-> expired[f] \cup old[f]]
  /\ UNCHANGED <<marked, torn, lock, pc, cur, next, faults>>

\* Variant: the age limit does not take the write lock, and meets files half loaded.
RetainUnlocked == DeleteOld

\* deleteOlderThanLocked: under the write lock.
Retain == lock = None /\ DeleteOld

Commit(l) ==
  \/ Lock(l) \/ DeleteRows(l) \/ DeleteMark(l) \/ Append(l) \/ Mark(l)

Next ==
  \/ \E l \in Loaders : Commit(l) \/ Fail(l) \/ \E f \in Files : Check(l, f)
  \/ Crash \/ Retain

Spec == Init /\ [][Next]_vars

\* The scheduler visits every file that is not marked on every poll, a commit
\* that is under way goes on, and writeMu is starvation free.
Fairness ==
  /\ \A l \in Loaders : SF_vars(Commit(l))
  /\ \A f \in Files : SF_vars(Check(Scheduler, f))

FairSpec == Spec /\ Fairness

(***************************************************************************)
(* Properties.                                                             *)
(***************************************************************************)
Committing(f) == \E l \in Loaders : cur[l] = f /\ lock = l

\* A search never finds a line twice, however often and by how many loaders its
\* file is loaded, and whatever an attempt that died left behind (CommitFile).
NoDuplicateRows == \A f \in Files, i \in Chunks : rows[f][i] <= 1

Complete(f) == \A i \in Chunks : rows[f][i] = 1 \/ i \in expired[f]

\* What the mark promises: IsFileLoaded "reports whether a completed CommitFile
\* has marked" the file, so all its lines are there or expired by retention.
MarkedMeansComplete == \A f \in marked : Complete(f) \/ Committing(f)

\* The promise holds but for a file that one loader had marked when the commit
\* of another stopped right between its two deletes.
MarkedUnlessTorn == \A f \in marked \ torn : Complete(f) \/ Committing(f)

\* The inductive invariant behind the above.  Under the lock a commit knows what
\* the table holds of its file: all it has appended, once, and nothing else.
LoadersHold ==
  \A l \in Loaders :
    /\ lock = l <=> pc[l] \in {"clear", "unmark", "append"}
    /\ cur[l] = None <=> At(l, "idle")
    /\ ~At(l, "append") => next[l] = 1
    /\ At(l, "append") => cur[l] \notin marked \cup torn
    /\ At(l, "unmark") => \A i \in Chunks : rows[cur[l]][i] = 0
    /\ At(l, "append") => \A i \in Chunks : rows[cur[l]][i] = IF i < next[l] THEN 1 ELSE 0

MarksHold ==
  \A f \in marked \ torn : Complete(f) \/ \E l \in Loaders : At(l, "unmark") /\ cur[l] = f

IngestInv == TypeOK /\ LoadersHold /\ NoDuplicateRows /\ MarksHold

\* Chunk by chunk, and through failures and crashes, a load comes to one step that
\* puts a file into the table.  A reload takes it out when it deletes the rows,
\* although the mark outlives them, by one step or by the crash after it.
Whole  == marked \ (torn \cup {cur[l] : l \in {k \in Loaders : At(k, "unmark")}})
Copies == [f \in Files |-> [i \in Chunks |-> IF f \in Whole THEN rows[f][i] ELSE 0]]
Promise == INSTANCE WholeFiles WITH
             File <- Files, Chunk <- Chunks, whole <- Whole, copies <- Copies
Implements == Promise!Spec

\* Failed and interrupted loads are made up for: a file that is not marked gets
\* marked.  It need not stay so: a loader that checked it during another's commit
\* loads it once more, and two loaders can keep doing that to each other.
EventuallyLoaded == \A f \in Files : f \notin marked ~> f \in marked
=============================================================================
