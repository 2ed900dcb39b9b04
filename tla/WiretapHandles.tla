--------------------------- MODULE WiretapHandles ---------------------------
(***************************************************************************)
(* The open DuckDB instances of one wiretap and the locks around them.     *)
(*                                                                         *)
(* DB.handles maps a wiretap's id to its handle: an instance (h.sql), a    *)
(* write lock (h.writeMu) and a reader/writer lock (h.mu) that guards the  *)
(* validity of h.sql.  Goroutines (calls from the window, the scheduler's  *)
(* tick) search, load, alter, compact, create and delete the wiretap;      *)
(* CloseIdle and Close shut instances that are, or may be, in use.         *)
(*                                                                         *)
(* Wiretaps share nothing but DB.mu, so one id is enough.  A critical      *)
(* section of DB.mu is one step, except openHandle's: os.Remove of another *)
(* goroutine does not take DB.mu and may run between Stat and open.        *)
(***************************************************************************)
EXTENDS FiniteSets

CONSTANTS Procs,        \* goroutines
          Handles,      \* identities of wiretapHandle objects, reused when garbage
          Ops,          \* which operations the goroutines run
          Invalidation, \* whether DuckDB may raise "database has been invalidated"
          None

WriteOps == {"write", "alter", "compact"}      \* callers of lockWrite
OpKinds  == WriteOps \cup {"read", "create", "delete", "sweep", "shutdown"}

ASSUME NoneAssumption  == None \notin Procs \cup Handles \cup OpKinds
ASSUME OpsAssumption   == Ops \subseteq OpKinds
ASSUME FaultAssumption == Invalidation \in BOOLEAN

VARIABLES
  row,      \* the catalog has the wiretap's row
  file,     \* there is a file at wiretapPath(id)
  live,     \* the handles whose instance is open on the file now at that path
  closed,   \* the handles whose h.sql is closed
  invalid,  \* the handles whose instance DuckDB has invalidated
  map,      \* DB.handles[id], or None
  writeMu,  \* who holds h.writeMu
  readers,  \* who holds h.mu shared
  writer,   \* who holds h.mu exclusively
  pc, op,   \* where each goroutine is, in which operation
  hnd,      \* the handle it got from DB.handle
  down      \* Close has run

disk  == <<row, file, live>>
inst  == <<closed, invalid>>
locks == <<writeMu, readers, writer>>
vars  == <<disk, inst, map, locks, pc, op, hnd, down>>

Labels == {"idle", "start", "opening", "creating", "writeMu", "mu", "pinned",
           "busy", "drain", "closing", "renaming", "reopening", "relock",
           "relockFail", "swapped", "swapFailed", "deleteRow", "lookup",
           "dropping", "removing", "heal"}

TypeOK ==
  /\ row \in BOOLEAN /\ file \in BOOLEAN /\ down \in BOOLEAN
  /\ live \subseteq Handles /\ closed \subseteq Handles /\ invalid \subseteq Handles
  /\ map \in Handles \cup {None}
  /\ writeMu \in [Handles -> Procs \cup {None}]
  /\ readers \in [Handles -> SUBSET Procs]
  /\ writer \in [Handles -> Procs \cup {None}]
  /\ pc \in [Procs -> Labels]
  /\ op \in [Procs -> OpKinds \cup {None}]
  /\ hnd \in [Procs -> Handles \cup {None}]

Init ==
  /\ row = TRUE /\ file = TRUE /\ down = FALSE
  /\ live = {} /\ closed = Handles /\ invalid = {} /\ map = None
  /\ writeMu = [h \in Handles |-> None]
  /\ readers = [h \in Handles |-> {}]
  /\ writer = [h \in Handles |-> None]
  /\ pc = [p \in Procs |-> "idle"]
  /\ op = [p \in Procs |-> None]
  /\ hnd = [p \in Procs |-> None]

(***************************************************************************)
(* Pieces of steps.                                                        *)
(***************************************************************************)
At(p, l)   == pc[p] = l
Goto(p, l) == pc' = [pc EXCEPT ![p] = l]
Holds(p, h) == hnd' = [hnd EXCEPT ![p] = h]

\* The operation returns to its caller.
Return(p) ==
  /\ Goto(p, "idle")
  /\ Holds(p, None)
  /\ op' = [op EXCEPT ![p] = None]

\* Variant: openHandle lets DB.mu go between its look at the map and the open.
DbMuFreeEarly == TRUE

\* openHandle keeps DB.mu from Stat to the handle's entry in the map.
DbMuFree == \A q \in Procs : ~At(q, "opening")

\* closeHandle(id), under DB.mu: whichever handle the map has now.
CloseMapped ==
  /\ closed' = closed \cup ({map} \ {None})
  /\ live' = live \ {map}
  /\ map' = None

\* RLock waits for the exclusive holder and for one already blocked in Lock.
MuShareable(h) ==
  /\ writer[h] = None
  /\ \A q \in Procs : ~(At(q, "drain") /\ hnd[q] = h)

\* Variant: removeWiretapFiles returns without h.mu.Unlock.
ReleaseNotMu(p) ==
  /\ writeMu' = [h \in Handles |-> IF writeMu[h] = p THEN None ELSE writeMu[h]]
  /\ readers' = [h \in Handles |-> readers[h] \ {p}]
  /\ UNCHANGED writer

\* The deferred unlocks, of whichever locks the operation holds.
Release(p) ==
  /\ writeMu' = [h \in Handles |-> IF writeMu[h] = p THEN None ELSE writeMu[h]]
  /\ readers' = [h \in Handles |-> readers[h] \ {p}]
  /\ writer'  = [h \in Handles |-> IF writer[h] = p THEN None ELSE writer[h]]

(***************************************************************************)
(* Getting a handle: DB.handle and createHandle.                           *)
(***************************************************************************)

Enter(p, o, l) ==
  /\ At(p, "idle") /\ ~down
  /\ op' = [op EXCEPT ![p] = o]
  /\ Goto(p, l)
  /\ UNCHANGED <<file, live, inst, map, locks, hnd, down>>

\* The caller read the wiretap from the catalog (GetWiretap, ListWiretaps).
Start(p, o) == row /\ Enter(p, o, "start") /\ UNCHANGED row

\* CreateWiretap found no such row and inserted it.
StartCreate(p) == ~row /\ Enter(p, "create", "start") /\ row' = TRUE

StartDelete(p) == row /\ Enter(p, "delete", "deleteRow") /\ UNCHANGED row

\* DeleteWiretap deletes the row first, or finds that another call has, and stops at
\* an error.  CreateWiretap, when it cleans up, deletes it last and ignores the error.
DeleteRow(p) ==
  /\ At(p, "deleteRow")
  /\ \/ op[p] = "delete" /\ row' = FALSE /\ Goto(p, "lookup") /\ UNCHANGED <<op, hnd>>
     \/ op[p] = "delete" /\ UNCHANGED row /\ Return(p)
     \/ op[p] = "create" /\ row' \in {row, FALSE} /\ Return(p)
  /\ UNCHANGED <<file, live, inst, map, locks, down>>

\* Variant: UpdateWiretap takes lockRead.
AfterHandleAlterReads(o) == IF o \in WriteOps \ {"alter"} THEN "writeMu"
                            ELSE IF o = "create" THEN "creating" ELSE "mu"

AfterHandle(o) == IF o \in WriteOps THEN "writeMu"
                  ELSE IF o = "read" THEN "mu" ELSE "creating"

FindHandle(p) ==
  /\ At(p, "start") /\ DbMuFree /\ map # None
  /\ Holds(p, map) /\ Goto(p, AfterHandle(op[p]))
  /\ UNCHANGED <<disk, inst, map, locks, op, down>>

NoFile(p) ==
  /\ At(p, "start") /\ DbMuFree /\ map = None
  /\ op[p] # "create" /\ ~file
  /\ Return(p)
  /\ UNCHANGED <<disk, inst, map, locks, down>>

BeginOpen(p) ==
  /\ At(p, "start") /\ DbMuFree /\ map = None
  /\ op[p] = "create" \/ file
  /\ Goto(p, "opening")
  /\ UNCHANGED <<disk, inst, map, locks, op, hnd, down>>

\* openDuckDB creates the file when the path has none.
OpenFile(p) ==
  /\ At(p, "opening")
  /\ \E h \in Handles :
       /\ \A q \in Procs : hnd[q] # h
       /\ closed' = closed \ {h} /\ invalid' = invalid \ {h}
       /\ live' = live \cup {h}
       /\ map' = h /\ Holds(p, h)
  /\ file' = TRUE
  /\ Goto(p, AfterHandle(op[p]))
  /\ UNCHANGED <<row, locks, op, down>>

\* The open, or the bookkeeping DDL after it, fails; CreateWiretap cleans up.
OpenFails(p) ==
  /\ At(p, "opening")
  /\ file' \in {file, TRUE}
  /\ IF op[p] = "create" THEN Goto(p, "lookup") /\ UNCHANGED <<op, hnd>>
                         ELSE Return(p)
  /\ UNCHANGED <<row, live, inst, map, locks, down>>

(***************************************************************************)
(* lockWrite and lockRead, then the operation's statements.                *)
(***************************************************************************)
LockWriteMu(p) ==
  /\ At(p, "writeMu") /\ writeMu[hnd[p]] = None
  /\ writeMu' = [writeMu EXCEPT ![hnd[p]] = p]
  /\ Goto(p, IF op[p] \in WriteOps THEN "mu" ELSE "drain")
  /\ UNCHANGED <<disk, inst, map, readers, writer, op, hnd, down>>

LockMu(p) ==
  /\ At(p, "mu") /\ MuShareable(hnd[p])
  /\ readers' = [readers EXCEPT ![hnd[p]] = @ \cup {p}]
  /\ Goto(p, "pinned")
  /\ UNCHANGED <<disk, inst, map, writeMu, writer, op, hnd, down>>

\* The first statement gets a connection, unless the instance is closed.
Begin(p) ==
  /\ At(p, "pinned") /\ hnd[p] \notin closed
  /\ Goto(p, "busy")
  /\ UNCHANGED <<disk, inst, map, locks, op, hnd, down>>

\* Variant: the unlock is not deferred, so the early return misses it.
BeginClosedKeepsLocks(p) ==
  /\ At(p, "pinned") /\ hnd[p] \in closed
  /\ Return(p)
  /\ UNCHANGED <<disk, inst, map, locks, down>>

BeginClosed(p) ==
  /\ At(p, "pinned") /\ hnd[p] \in closed
  /\ Release(p) /\ Return(p)
  /\ UNCHANGED <<disk, inst, map, down>>

\* The statements are over, or one of them failed for a reason of its own.
Finish(p) ==
  /\ At(p, "busy") /\ (hnd[p] \in invalid => hnd[p] \in closed)
  /\ Release(p) /\ Return(p)
  /\ UNCHANGED <<disk, inst, map, down>>

\* heal is deferred before the unlock, so it runs after it.  UpdateWiretap leaves
\* the invalidated instance to others.
FinishInvalid(p) ==
  /\ At(p, "busy") /\ hnd[p] \in invalid
  /\ Release(p)
  /\ \/ op[p] = "alter" /\ Return(p)
     \/ op[p] # "alter" /\ Goto(p, "heal") /\ Holds(p, None) /\ UNCHANGED op
  /\ UNCHANGED <<disk, inst, map, down>>

Heal(p) ==
  /\ At(p, "heal") /\ DbMuFree
  /\ CloseMapped /\ Return(p)
  /\ UNCHANGED <<row, file, invalid, locks, down>>

\* createWiretapTable takes no lock; when it fails CreateWiretap cleans up.
Created(p) ==
  /\ At(p, "creating") /\ hnd[p] \notin closed \cup invalid
  /\ Return(p)
  /\ UNCHANGED <<disk, inst, map, locks, down>>

CreateFails(p) ==
  /\ At(p, "creating")
  /\ Goto(p, "lookup") /\ Holds(p, None)
  /\ UNCHANGED <<disk, inst, map, locks, op, down>>

(***************************************************************************)
(* The exclusive sections: compactLocked's swap and removeWiretapFiles.    *)
(***************************************************************************)

\* The copy is complete: mu.RUnlock, then mu.Lock starts to wait.
Copied(p) ==
  /\ At(p, "busy") /\ op[p] = "compact" /\ hnd[p] \notin closed \cup invalid
  /\ readers' = [readers EXCEPT ![hnd[p]] = @ \ {p}]
  /\ Goto(p, "drain")
  /\ UNCHANGED <<disk, inst, map, writeMu, writer, op, hnd, down>>

\* Variant: the swap relies on writeMu alone and does not wait for readers.
LockMuNoWait(p) ==
  /\ At(p, "drain")
  /\ writer' = [writer EXCEPT ![hnd[p]] = p]
  /\ Goto(p, IF op[p] = "compact" THEN "closing" ELSE "dropping")
  /\ UNCHANGED <<disk, inst, map, writeMu, readers, op, hnd, down>>

LockMuExclusive(p) ==
  /\ At(p, "drain") /\ writer[hnd[p]] = None /\ readers[hnd[p]] = {}
  /\ writer' = [writer EXCEPT ![hnd[p]] = p]
  /\ Goto(p, IF op[p] = "compact" THEN "closing" ELSE "dropping")
  /\ UNCHANGED <<disk, inst, map, writeMu, readers, op, hnd, down>>

UnlockMu(p) == writer' = [writer EXCEPT ![hnd[p]] = None]

\* swapWiretapFile fails at any of its steps: close, rename, reopen.
SwapFails(p) ==
  /\ UnlockMu(p) /\ Goto(p, "relockFail")
  /\ UNCHANGED <<invalid, row, file, map, writeMu, readers, op, hnd, down>>

SwapClose(p) ==
  /\ At(p, "closing")
  /\ closed' = closed \cup {hnd[p]} /\ live' = live \ {hnd[p]}
  /\ \/ /\ Goto(p, "renaming")
        /\ UNCHANGED <<invalid, row, file, map, locks, op, hnd, down>>
     \/ SwapFails(p)

\* The path now names the compacted copy, which no instance has open.
SwapRename(p) ==
  /\ At(p, "renaming")
  /\ file' = TRUE /\ live' = {}
  /\ Goto(p, "reopening")
  /\ UNCHANGED <<row, inst, map, locks, op, hnd, down>>

SwapReopen(p) ==
  /\ At(p, "reopening")
  /\ closed' = closed \ {hnd[p]} /\ invalid' = invalid \ {hnd[p]}
  /\ live' = live \cup {hnd[p]} /\ file' = TRUE
  /\ UnlockMu(p) /\ Goto(p, "relock")
  /\ UNCHANGED <<row, map, writeMu, readers, op, hnd, down>>

SwapStuck(p) ==
  /\ pc[p] \in {"renaming", "reopening"}
  /\ SwapFails(p)
  /\ UNCHANGED <<closed, live>>

Relock(p) ==
  /\ pc[p] \in {"relock", "relockFail"} /\ MuShareable(hnd[p])
  /\ readers' = [readers EXCEPT ![hnd[p]] = @ \cup {p}]
  /\ Goto(p, IF At(p, "relock") THEN "swapped" ELSE "swapFailed")
  /\ UNCHANGED <<disk, inst, map, writeMu, writer, op, hnd, down>>

CompactDone(p) ==
  /\ At(p, "swapped")
  /\ Release(p) /\ Return(p)
  /\ UNCHANGED <<disk, inst, map, down>>

\* ApplyRetention goes on under the same locks: another pass of deletes.  What a
\* further compaction does, the first did.
NextPass(p) ==
  /\ At(p, "swapped")
  /\ Goto(p, "pinned")
  /\ op' = [op EXCEPT ![p] = "write"]
  /\ UNCHANGED <<disk, inst, map, locks, hnd, down>>

\* Variant: a failed swap leaves the closed handle in the map.
CompactFailsServed(p) ==
  /\ At(p, "swapFailed") /\ DbMuFree
  /\ Release(p) /\ Return(p)
  /\ UNCHANGED <<disk, inst, map, down>>

CompactFails(p) ==
  /\ At(p, "swapFailed") /\ DbMuFree
  /\ CloseMapped /\ Release(p) /\ Return(p)
  /\ UNCHANGED <<row, file, invalid, down>>

\* removeWiretapFiles looks the handle up and lets DB.mu go.
Lookup(p) ==
  /\ At(p, "lookup") /\ DbMuFree
  /\ Holds(p, map)
  /\ Goto(p, IF map = None THEN "dropping" ELSE "writeMu")
  /\ UNCHANGED <<disk, inst, map, locks, op, down>>

Drop(p) ==
  /\ At(p, "dropping") /\ DbMuFree
  /\ CloseMapped /\ Goto(p, "removing")
  /\ UNCHANGED <<row, file, invalid, locks, op, hnd, down>>

\* The files go, or an error leaves them; a failed CreateWiretap goes on to its row.
Remove(p) ==
  /\ At(p, "removing")
  /\ \/ file' = FALSE /\ live' = {}
     \/ UNCHANGED <<file, live>>
  /\ Release(p)
  /\ \/ op[p] = "delete" /\ Return(p)
     \/ op[p] = "create" /\ Goto(p, "deleteRow") /\ Holds(p, None) /\ UNCHANGED op
  /\ UNCHANGED <<row, inst, map, down>>

(***************************************************************************)
(* CloseIdle, Close, and DuckDB's fatal error.                             *)
(***************************************************************************)
\* Variant: CloseIdle tries only writeMu, so it does not see a search.
CloseIdleUnderReaders ==
  /\ "sweep" \in Ops
  /\ DbMuFree /\ map # None
  /\ writeMu[map] = None
  /\ CloseMapped
  /\ UNCHANGED <<row, file, invalid, locks, pc, op, hnd, down>>

\* Both TryLocks succeed, so nobody waits for, or holds, either lock.  lastUsed is
\* left out: idleHandleTTL may pass between any two steps.
CloseIdle ==
  /\ "sweep" \in Ops
  /\ DbMuFree /\ map # None
  /\ writeMu[map] = None
  /\ MuShareable(map) /\ readers[map] = {}
  /\ CloseMapped
  /\ UNCHANGED <<row, file, invalid, locks, pc, op, hnd, down>>

\* Shutdown does not wait for calls in progress; no new call reads the catalog.
Close ==
  /\ "shutdown" \in Ops /\ ~down /\ DbMuFree
  /\ CloseMapped /\ down' = TRUE
  /\ UNCHANGED <<row, file, invalid, locks, pc, op, hnd>>

Invalidate(h) ==
  /\ Invalidation /\ h \notin closed \cup invalid
  /\ \E p \in Procs : At(p, "busy") /\ hnd[p] = h
  /\ invalid' = invalid \cup {h}
  /\ UNCHANGED <<disk, closed, map, locks, pc, op, hnd, down>>

Continue(p) ==
  \/ FindHandle(p) \/ NoFile(p) \/ BeginOpen(p) \/ OpenFile(p) \/ OpenFails(p)
  \/ LockWriteMu(p) \/ LockMu(p) \/ Begin(p) \/ BeginClosed(p)
  \/ Finish(p) \/ FinishInvalid(p) \/ Heal(p) \/ Created(p) \/ CreateFails(p)
  \/ Copied(p) \/ LockMuExclusive(p) \/ SwapClose(p) \/ SwapRename(p)
  \/ SwapReopen(p) \/ SwapStuck(p) \/ Relock(p) \/ CompactDone(p) \/ NextPass(p)
  \/ CompactFails(p) \/ DeleteRow(p) \/ Lookup(p) \/ Drop(p) \/ Remove(p)

Next ==
  \/ \E p \in Procs : Continue(p)
  \/ \E p \in Procs, o \in Ops \cap (WriteOps \cup {"read"}) : Start(p, o)
  \/ \E p \in Procs : \/ "create" \in Ops /\ StartCreate(p)
                      \/ "delete" \in Ops /\ StartDelete(p)
  \/ CloseIdle \/ Close
  \/ \E h \in Handles : Invalidate(h)

Spec == Init /\ [][Next]_vars

\* Statements end and Go's locks are starvation free: a goroutine that keeps
\* getting the chance to go on with its operation does.
FairSpec == Spec /\ \A p \in Procs : SF_vars(Continue(p))

(***************************************************************************)
(* Properties.                                                             *)
(***************************************************************************)
Uses(p, h)  == hnd[p] = h /\ pc[p] \in {"pinned", "busy"}
Swaps(p, h) == hnd[p] = h /\ pc[p] \in {"closing", "renaming", "reopening"}
InCompact   == {"closing", "renaming", "reopening", "relock", "relockFail", "swapped", "swapFailed"}
Wipes(p, h) == hnd[p] = h /\ pc[p] \in {"dropping", "removing"}

\* While a compaction swaps a handle's file, or a removal that found the handle
\* closes and deletes it, no other operation is between the lock and the unlock
\* of that handle (compactLocked, removeWiretapFiles): whatever is opened,
\* closed, invalidated or deleted around it.
ExclusiveAlone ==
  \A p, q \in Procs, h \in Handles :
    p # q /\ (Swaps(p, h) \/ Wipes(p, h)) => ~(Uses(q, h) \/ Swaps(q, h) \/ Wipes(q, h))

\* DuckDB wants one instance per file: besides the handle in the map no handle
\* has an open instance (openHandle, CloseIdle, swapWiretapFile).
OneInstance == \A h \in Handles \ closed : h = map

\* The handle in the map is open on the file at the wiretap's path, not closed and
\* not on a file since replaced, except while a compaction works on it.
ServedCurrent ==
  map # None => map \in live \/ \E p \in Procs : hnd[p] = map /\ pc[p] \in InCompact

\* An operation whose statements are running has an open instance under it.
BusyOpen == \A p \in Procs : At(p, "busy") => hnd[p] \notin closed

\* On an invalidated instance every statement fails.
Writing(p) == At(p, "busy") /\ op[p] \in WriteOps /\ hnd[p] \notin invalid

\* At most one load, retention, alteration or compaction works on the
\* wiretap's file, through whichever handles (writeMu's comment in db.go).
OneWriter == \A p, q \in Procs : Writing(p) /\ Writing(q) => p = q

\* Every operation that started ends: no lock is leaked, and no two operations
\* wait for each other.
EveryOpEnds == \A p \in Procs : ~At(p, "idle") ~> At(p, "idle")

\* The inductive invariants behind the above: a goroutine holds exactly the locks
\* its place in the code implies, and a handle's exclusive lock excludes readers.
HasHandle == {"creating", "writeMu", "mu", "pinned", "busy", "drain", "closing",
              "renaming", "reopening", "relock", "relockFail", "swapped", "swapFailed"}
MayHandle  == HasHandle \cup {"dropping", "removing"}
SharesMu   == {"pinned", "busy", "swapped", "swapFailed"}
ExcludesMu == {"closing", "renaming", "reopening", "dropping", "removing"}
HoldsWriteMu(p) ==
  \/ pc[p] \in InCompact \cup {"drain", "dropping", "removing"}
  \/ pc[p] \in {"mu", "pinned", "busy"} /\ op[p] \in WriteOps

LockState ==
  /\ \A p \in Procs : /\ pc[p] \in HasHandle => hnd[p] # None
                      /\ hnd[p] # None => pc[p] \in MayHandle
  /\ \A p \in Procs, h \in Handles :
       /\ writeMu[h] = p <=> hnd[p] = h /\ HoldsWriteMu(p)
       /\ p \in readers[h] <=> hnd[p] = h /\ pc[p] \in SharesMu
       /\ writer[h] = p <=> hnd[p] = h /\ pc[p] \in ExcludesMu
  /\ \A h \in Handles : writer[h] # None => readers[h] = {}

LockDiscipline == TypeOK /\ LockState

\* On a wiretap nobody creates or deletes, with a healthy DuckDB: an operation
\* past its first statement works on the mapped handle, which only a failing
\* swap leaves closed in the map.
OnlyShared == /\ Ops \subseteq WriteOps \cup {"read", "sweep"}
              /\ ~Invalidation
SharedDiscipline ==
  /\ LockDiscipline
  /\ file /\ invalid = {} /\ row
  /\ \A p \in Procs :
       /\ op[p] \in WriteOps \cup {"read", None} /\ (op[p] = None <=> At(p, "idle"))
       /\ pc[p] \notin {"deleteRow", "lookup", "dropping", "removing", "creating", "heal"}
       /\ pc[p] \in {"drain"} \cup InCompact => op[p] = "compact"
       /\ pc[p] \in {"writeMu", "drain"} \cup InCompact => op[p] \in WriteOps
       /\ At(p, "opening") => map = None /\ \A q \in Procs : At(q, "opening") => q = p
       /\ pc[p] \in InCompact \cup {"busy", "drain"} => hnd[p] = map
       /\ pc[p] \in {"busy", "drain", "closing", "relock", "swapped"} => hnd[p] \notin closed
       /\ pc[p] \in {"renaming", "reopening", "relockFail", "swapFailed"} => hnd[p] \in closed
  /\ \A h \in Handles : h \in live <=> h \notin closed
  /\ OneInstance /\ ServedCurrent

\* Under the same assumption the handles, their locks and what closes and opens them
\* do not show: to those whose statements run, the wiretap is one file with many
\* readers, one writer, and a swap that comes between searches (compactLocked).
Searching == {p \in Procs : At(p, "busy") /\ op[p] = "read"}
Changing  == {p \in Procs : \/ At(p, "busy") /\ op[p] \in WriteOps
                            \/ pc[p] \in {"drain"} \cup InCompact}
Replacing == {p \in Procs : pc[p] \in {"closing", "renaming", "reopening"}}

File == INSTANCE SharedFile WITH User <- Procs, searching <- Searching,
                                 changing <- Changing, replacing <- Replacing
Implements == File!Spec
=============================================================================
