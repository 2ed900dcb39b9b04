----------------------------- MODULE DiskLayout -----------------------------
(***************************************************************************)
(* The files under the program's directory: the catalog, one file per      *)
(* wiretap, and the write-ahead log DuckDB keeps beside an open file.      *)
(*                                                                         *)
(* A start finishes a swap of the catalog that was cut short, opens the    *)
(* catalog and, if it is a database of the old layout with the wiretaps'   *)
(* tables in it, copies each into a file of its own and puts a small       *)
(* catalog in its place.  A running program loads, expires, updates and    *)
(* compacts.  It may die between any two steps, and is started again.      *)
(*                                                                         *)
(* DuckDB as the code uses it: a transaction is in the log when it has     *)
(* committed, a log is folded into its own file by a checkpoint, a DETACH  *)
(* or a Close that reports no error, and a log beside a new file goes      *)
(* away.  A file's version stands for its identity: the log of another     *)
(* file does not apply.                                                    *)
(***************************************************************************)
EXTENDS Naturals, FiniteSets, FiniteSetsExt

CONSTANTS Wiretap, Load,
          MaxChanges, \* bounds updates of rows and expiries together
          MaxFaults,  \* bounds crashes and steps that fail
          None

ASSUME BoundAssumption == MaxChanges \in Nat /\ MaxFaults \in Nat

VARIABLES
  cat,    \* the database and the log at "live", ".new" and ".legacy"
  wt,     \* per wiretap those at "live" and ".compact"
  pc,     \* where a start is; "running" when it is over, "down" without a program
  copy,   \* per wiretap where a copy of it, and the swap after it, is
  todo,   \* the wiretaps migrateLegacyLayout has still to export
  expired, \* history: per wiretap the loads whose rows retention has deleted
  faults

disk == <<cat, wt>>
vars == <<disk, pc, copy, todo, expired, faults>>

Data    == [rows : SUBSET Load, marks : SUBSET Load]
Empty   == [rows |-> {}, marks |-> {}]
Catalog == [legacy : BOOLEAN, listed : SUBSET Wiretap,
            settings : [Wiretap -> Nat], tables : [Wiretap -> Data]]
NewCatalog == [legacy |-> FALSE, listed |-> {},
               settings |-> [w \in Wiretap |-> 0], tables |-> [w \in Wiretap |-> Empty]]

Versions     == 0..4
File(D)      == [version : Versions, data : D]
Slots(D)     == [db : File(D) \cup {None}, wal : File(D) \cup {None}]
Nothing      == [db |-> None, wal |-> None]
Starting     == {"recover", "open", "export", "close", "remove", "create", "insert",
                 "fold", "backup", "backupWal", "swap", "reopen"}
CopySteps    == {"idle", "create", "rows", "detach", "close", "wal", "freshWal",
                 "rename"}

ASSUME NoneAssumption == None \notin File(Catalog) /\ None \notin File(Data)

TypeOK ==
  /\ cat \in [{"live", "new", "backup"} -> Slots(Catalog)]
  /\ wt \in [Wiretap -> [{"live", "compact"} -> Slots(Data)]]
  /\ pc \in Starting \cup {"down", "running"}
  /\ copy \in [Wiretap -> CopySteps]
  /\ todo \subseteq Wiretap /\ expired \in [Wiretap -> SUBSET Load] /\ faults \in 0..MaxFaults

\* What an open instance, or the next open, shows of a file and its log.
Shown(s) == IF s.wal = None THEN s.db.data ELSE s.wal.data

\* The effects on a file: a committed transaction, a fold of its log, a new file.
Commit(s, d)     == [s EXCEPT !.wal = [version |-> s.db.version, data |-> d]]
Fold(s)          == IF s.wal = None THEN s
                    ELSE [db |-> [s.db EXCEPT !.data = s.wal.data], wal |-> None]
Fresh(v, d)      == [db |-> [version |-> v, data |-> d], wal |-> None]
VersionsOf(w)    == {f.version : f \in {wt[w][p][k] : p \in {"live", "compact"}, k \in {"db", "wal"}} \ {None}}
NewVersion(w)    == CHOOSE v \in Versions : v \notin VersionsOf(w)

\* A first start over either layout; the old program may have left a log.
Init ==
  /\ \E t \in [Wiretap -> {Empty} \cup {[rows |-> {l}, marks |-> {l}] : l \in Load}], old, log \in BOOLEAN :
       LET c == [NewCatalog EXCEPT !.listed = Wiretap, !.legacy = old, !.tables = IF old THEN t ELSE @]
       IN  /\ cat = [p \in {"live", "new", "backup"} |->
                       IF p # "live" THEN Nothing
                       ELSE IF log THEN Commit(Fresh(0, NewCatalog), c) ELSE Fresh(0, c)]
           /\ wt = [w \in Wiretap |-> [p \in {"live", "compact"} |->
                       IF p = "live" /\ ~old THEN Fresh(0, t[w]) ELSE Nothing]]
  /\ pc = "down" /\ copy = [w \in Wiretap |-> "idle"]
  /\ todo = {} /\ expired = [w \in Wiretap |-> {}] /\ faults = 0

Goto(l)       == pc' = l
SetCopy(w, s) == copy' = [copy EXCEPT ![w] = s]
Fault         == faults < MaxFaults /\ faults' = faults + 1 /\ UNCHANGED expired

-----------------------------------------------------------------------------
(* A start: OpenAt. *)

Start == pc = "down" /\ Goto("recover") /\ UNCHANGED <<disk, copy, todo, expired, faults>>

\* Variant: it does not look whether there is a catalog.
RecoverAlways ==
  /\ pc = "recover" /\ Goto("open")
  /\ cat' = IF cat["new"].db = None THEN cat
            ELSE [cat EXCEPT !["live"].db = cat["new"].db, !["new"].db = None]
  /\ UNCHANGED <<wt, copy, todo, expired, faults>>

\* recoverInterruptedCatalogSwap: only when there is no catalog, and a new one.
Recover ==
  /\ pc = "recover" /\ Goto("open")
  /\ cat' = IF cat["live"].db # None \/ cat["new"].db = None THEN cat
            ELSE [cat EXCEPT !["live"].db = cat["new"].db, !["new"].db = None]
  /\ UNCHANGED <<wt, copy, todo, expired, faults>>

\* openCatalog makes a catalog where there is none; then hasLegacyTables decides.
OpenCatalog ==
  /\ pc = "open"
  /\ IF cat["live"].db = None
     THEN cat' = [cat EXCEPT !["live"] = Fresh(0, NewCatalog)] /\ Goto("running") /\ UNCHANGED todo
     ELSE LET c == Shown(cat["live"])
          IN  /\ Goto(IF c.legacy THEN "export" ELSE "running")
              /\ todo' = IF c.legacy THEN c.listed ELSE {}
              /\ UNCHANGED cat
  /\ UNCHANGED <<wt, copy, expired, faults>>

\* An error on the way: db.Close() folds the logs of what is open, and Open fails.
StartFails ==
  /\ pc \in Starting /\ Fault
  /\ Goto("down") /\ todo' = {}
  /\ copy' = [w \in Wiretap |-> "idle"]
  /\ cat' = [p \in DOMAIN cat |->
               IF \/ p = "live" /\ pc = "export"
                  \/ p = "new" /\ pc \in {"insert", "fold"}
               THEN Fold(cat[p]) ELSE cat[p]]
  /\ wt' = [w \in Wiretap |-> [wt[w] EXCEPT !["live"] =
              IF copy[w] \in {"rows", "detach"} THEN Fold(@) ELSE @]]

-----------------------------------------------------------------------------
(* A copy of one wiretap's rows and marks into a new file: copyWiretapTo,   *)
(* out of the old database for a start, out of its own file for compaction. *)

Exporting == pc = "export"
Dest      == IF Exporting THEN "live" ELSE "compact"
Source(w) == IF Exporting THEN Shown(cat["live"]).tables[w] ELSE Shown(wt[w]["live"])

\* What an interrupted copy left is removed, with its log.
BeginCopy(w) ==
  /\ copy[w] = "idle"
  /\ Exporting => w \in todo /\ \A v \in Wiretap : copy[v] = "idle"
  /\ pc = "running" => wt[w]["live"].db # None
  /\ pc \in {"export", "running"}
  /\ wt' = [wt EXCEPT ![w][Dest] = Nothing]
  /\ SetCopy(w, "create")
  /\ UNCHANGED <<cat, pc, todo, expired, faults>>

\* ATTACH and the two CREATE TABLEs; a table that is there already is an error.
CreateDest(w) ==
  /\ copy[w] = "create"
  /\ IF wt[w][Dest].db = None
     THEN wt' = [wt EXCEPT ![w][Dest] = Fresh(NewVersion(w), Empty)] /\ SetCopy(w, "rows") /\ UNCHANGED pc
     ELSE UNCHANGED wt /\ SetCopy(w, "idle") /\ Goto(IF Exporting THEN "down" ELSE pc)
  /\ UNCHANGED <<cat, todo, expired, faults>>

\* Each span of rows is inserted and checkpointed.
CopySpan(w, l) ==
  /\ copy[w] = "rows"
  /\ l \in Source(w).rows \ Shown(wt[w][Dest]).rows
  /\ wt' = [wt EXCEPT ![w][Dest].db.data.rows = @ \cup {l}]
  /\ UNCHANGED <<cat, pc, copy, todo, expired, faults>>

\* The marks follow in one statement, which is left in the log.
CopyMarks(w) ==
  /\ copy[w] = "rows"
  /\ Source(w).rows \subseteq Shown(wt[w][Dest]).rows
  /\ wt' = [wt EXCEPT ![w][Dest] = Commit(@, Source(w))]
  /\ SetCopy(w, "detach")
  /\ UNCHANGED <<cat, pc, todo, expired, faults>>

Copied(w) == /\ SetCopy(w, IF Exporting THEN "idle" ELSE "close")
             /\ todo' = todo \ {w}
             /\ UNCHANGED <<cat, pc>>

Detach(w) ==
  /\ copy[w] = "detach" /\ Copied(w)
  /\ wt' = [wt EXCEPT ![w][Dest] = Fold(@)]
  /\ UNCHANGED <<expired, faults>>

\* The error of the deferred DETACH is ignored; a further ATTACH of the name fails.
DetachFails(w) ==
  /\ copy[w] = "detach" /\ Fault /\ (Exporting => todo = {w})
  /\ Copied(w) /\ UNCHANGED wt

CopyFails(w) ==
  /\ pc = "running" /\ copy[w] \in {"create", "rows"} /\ Fault
  /\ SetCopy(w, "idle")
  /\ UNCHANGED <<disk, pc, todo>>

-----------------------------------------------------------------------------
(* rebuildCatalog: a new catalog is filled beside the old one, and then     *)
(* takes its place in two renames.                                          *)

\* Variant: it goes on before every wiretap has been exported.
CloseLegacyEarly ==
  /\ pc = "export" /\ \A w \in Wiretap : copy[w] = "idle"
  /\ cat' = [cat EXCEPT !["live"] = Fold(@)]
  /\ wt' = [w \in Wiretap |-> [wt[w] EXCEPT !["live"] = Fold(@)]]
  /\ Goto("remove") /\ todo' = {}
  /\ UNCHANGED <<copy, expired, faults>>

\* Closing the old database folds what a DETACH has left.
CloseLegacy ==
  /\ pc = "export" /\ todo = {} /\ \A w \in Wiretap : copy[w] = "idle"
  /\ cat' = [cat EXCEPT !["live"] = Fold(@)]
  /\ wt' = [w \in Wiretap |-> [wt[w] EXCEPT !["live"] = Fold(@)]]
  /\ Goto("remove")
  /\ UNCHANGED <<copy, todo, expired, faults>>

\* Variant: what an interrupted rebuild left stays.
RemoveNewKept ==
  /\ pc = "remove" /\ Goto("create")
  /\ UNCHANGED <<disk, copy, todo, expired, faults>>

RemoveNew ==
  /\ pc = "remove" /\ cat' = [cat EXCEPT !["new"] = Nothing] /\ Goto("create")
  /\ UNCHANGED <<wt, copy, todo, expired, faults>>

\* openDuckDB and migrateCatalog, which leaves an existing table alone.
CreateNew ==
  /\ pc = "create" /\ Goto("insert")
  /\ cat' = IF cat["new"].db # None THEN cat ELSE [cat EXCEPT !["new"] = Fresh(1, NewCatalog)]
  /\ UNCHANGED <<wt, copy, todo, expired, faults>>

\* One INSERT … SELECT; a row that is there already violates the primary key.
InsertRows ==
  /\ pc = "insert"
  /\ LET old == Shown(cat["live"])  new == Shown(cat["new"])
     IN  IF new.listed \cap old.listed = {}
         THEN /\ cat' = [cat EXCEPT !["new"] =
                           Commit(@, [new EXCEPT !.listed = @ \cup old.listed, !.settings = old.settings])]
              /\ Goto("fold")
         ELSE Goto("down") /\ UNCHANGED cat
  /\ UNCHANGED <<wt, copy, todo, expired, faults>>

CloseNew ==
  /\ pc = "fold" /\ cat' = [cat EXCEPT !["new"] = Fold(@)] /\ Goto("backup")
  /\ UNCHANGED <<wt, copy, todo, expired, faults>>

RenameLegacy ==
  /\ pc = "backup" /\ Goto("backupWal")
  /\ cat' = [cat EXCEPT !["backup"].db = cat["live"].db, !["live"].db = None]
  /\ UNCHANGED <<wt, copy, todo, expired, faults>>

RenameLegacyWal ==
  /\ pc = "backupWal" /\ Goto("swap")
  /\ cat' = IF cat["live"].wal = None THEN cat
            ELSE [cat EXCEPT !["backup"].wal = cat["live"].wal, !["live"].wal = None]
  /\ UNCHANGED <<wt, copy, todo, expired, faults>>

RenameNew ==
  /\ pc = "swap" /\ Goto("reopen")
  /\ cat' = [cat EXCEPT !["live"].db = cat["new"].db, !["new"].db = None]
  /\ UNCHANGED <<wt, copy, todo, expired, faults>>

Reopen == pc = "reopen" /\ Goto("running") /\ UNCHANGED <<disk, copy, todo, expired, faults>>

-----------------------------------------------------------------------------
(* The end of a compaction: swapWiretapFile. *)

\* Variant: the copy is not folded before its log is removed.
CloseForSwapOne(w) ==
  /\ copy[w] = "close"
  /\ wt' = [wt EXCEPT ![w]["live"] = Fold(@)]
  /\ SetCopy(w, "wal")
  /\ UNCHANGED <<cat, pc, todo, expired, faults>>

\* Closing the instance folds its log, and the copy's if the DETACH did not.
CloseForSwap(w) ==
  /\ copy[w] = "close"
  /\ wt' = [wt EXCEPT ![w] = [p \in {"live", "compact"} |-> Fold(wt[w][p])]]
  /\ SetCopy(w, "wal")
  /\ UNCHANGED <<cat, pc, todo, expired, faults>>

RemoveWal(w) ==
  /\ copy[w] = "wal" /\ SetCopy(w, "freshWal")
  /\ wt' = [wt EXCEPT ![w]["live"].wal = None]
  /\ UNCHANGED <<cat, pc, todo, expired, faults>>

RemoveFreshWal(w) ==
  /\ copy[w] = "freshWal" /\ SetCopy(w, "rename")
  /\ wt' = [wt EXCEPT ![w]["compact"].wal = None]
  /\ UNCHANGED <<cat, pc, todo, expired, faults>>

\* Whether the reopen succeeds or not, the next call finds the new file.
RenameFresh(w) ==
  /\ copy[w] = "rename" /\ SetCopy(w, "idle")
  /\ wt' = [wt EXCEPT ![w]["live"].db = wt[w]["compact"].db, ![w]["compact"].db = None]
  /\ UNCHANGED <<cat, pc, todo, expired, faults>>

\* A Close or a rename that reports an error: the original is kept.
SwapFails(w) ==
  /\ copy[w] \in {"close", "rename"} /\ Fault
  /\ SetCopy(w, "idle")
  /\ UNCHANGED <<disk, pc, todo>>

-----------------------------------------------------------------------------
(* The running program's transactions, under the wiretap's write lock. *)

Listed(w) == cat["live"].db # None /\ w \in Shown(cat["live"]).listed
Writable(w) == pc = "running" /\ Listed(w) /\ copy[w] = "idle" /\ wt[w]["live"].db # None

Changes == MapThenSumSet(LAMBDA w : Shown(cat["live"]).settings[w] + Cardinality(expired[w]), Wiretap)

Write(w, d) == /\ wt' = [wt EXCEPT ![w]["live"] = Commit(@, d)]
               /\ UNCHANGED <<cat, pc, copy, todo, faults>>

Ingest(w, l) ==
  /\ Writable(w)
  /\ LET d == Shown(wt[w]["live"])
     IN  /\ l \notin d.marks
           /\ Write(w, [rows |-> d.rows \cup {l}, marks |-> d.marks \cup {l}])
  /\ UNCHANGED expired

Expire(w, l) ==
  /\ Writable(w)
  /\ LET d == Shown(wt[w]["live"]) IN l \in d.rows /\ Changes < MaxChanges /\ Write(w, [d EXCEPT !.rows = @ \ {l}])
  /\ expired' = [expired EXCEPT ![w] = @ \cup {l}]

UpdateRow(w) ==
  /\ pc = "running" /\ Listed(w)
  /\ LET c == Shown(cat["live"])
     IN  /\ Changes < MaxChanges
         /\ cat' = [cat EXCEPT !["live"] = Commit(@, [c EXCEPT !.settings[w] = @ + 1])]
  /\ UNCHANGED <<wt, pc, copy, todo, expired, faults>>

\* A checkpoint of DuckDB's own, or an instance that is closed and opened again.
Checkpoint(w) ==
  /\ pc = "running" /\ copy[w] \notin {"wal", "freshWal", "rename"}
  /\ wt[w]["live"].wal # None
  /\ wt' = [wt EXCEPT ![w]["live"] = Fold(@)]
  /\ UNCHANGED <<cat, pc, copy, todo, expired, faults>>

CheckpointCatalog ==
  /\ pc = "running" /\ cat["live"].wal # None
  /\ cat' = [cat EXCEPT !["live"] = Fold(@)]
  /\ UNCHANGED <<wt, pc, copy, todo, expired, faults>>

\* The program dies, or is closed: the files stay as they are.
Crash ==
  /\ pc # "down" /\ Fault
  /\ Goto("down") /\ todo' = {} /\ copy' = [w \in Wiretap |-> "idle"]
  /\ UNCHANGED disk

-----------------------------------------------------------------------------
Copying(w) == BeginCopy(w) \/ CreateDest(w) \/ (\E l \in Load : CopySpan(w, l)) \/ CopyMarks(w) \/ Detach(w) \/ DetachFails(w)
Rebuild == \/ CloseLegacy \/ RemoveNew \/ CreateNew \/ InsertRows \/ CloseNew
           \/ RenameLegacy \/ RenameLegacyWal \/ RenameNew \/ Reopen
Startup == Start \/ Recover \/ OpenCatalog \/ Rebuild
Swap(w) == CloseForSwap(w) \/ RemoveWal(w) \/ RemoveFreshWal(w) \/ RenameFresh(w)
Running(w) == \/ UpdateRow(w) \/ Checkpoint(w) \/ CopyFails(w) \/ SwapFails(w)
              \/ \E l \in Load : Ingest(w, l) \/ Expire(w, l)

Next == \/ Startup \/ StartFails \/ Crash \/ CheckpointCatalog
        \/ \E w \in Wiretap : Copying(w) \/ Swap(w) \/ Running(w)

\* A start goes on until it is over, and a program that ended is started again.
Fairness == WF_vars(Startup \/ \E w \in Wiretap : Exporting /\ Copying(w))
Spec     == Init /\ [][Next]_vars /\ Fairness

-----------------------------------------------------------------------------
\* What the next start would find in the directory as it is now.
Found == IF cat["live"].db # None THEN Shown(cat["live"])
         ELSE IF cat["new"].db # None THEN Shown(cat["new"]) ELSE NewCatalog
Rows(w) == IF Found.legacy THEN Found.tables[w]
           ELSE IF wt[w]["live"].db = None THEN Empty ELSE Shown(wt[w]["live"])

Stored(w) == [settings |-> IF w \in Found.listed THEN Found.settings[w] ELSE None,
              rows |-> Rows(w).rows, expired |-> expired[w], marks |-> Rows(w).marks]

Store == INSTANCE DurableStore WITH store <- [w \in Wiretap |-> Stored(w)]

(* A crash at any step, a compaction and the split of the old database      *)
(* leave every wiretap's settings, rows and marks as they are: a start      *)
(* would find them again (OpenAt, migrateLegacyLayout, compactLocked).      *)
Implements == Store!Spec

(* A log that the next open would replay belongs to the file beside it:     *)
(* no swap leaves the log of the file it replaced (swapWiretapFile,         *)
(* rebuildCatalog).                                                         *)
Matched(s) == s.wal # None => s.db # None /\ s.wal.version = s.db.version
LogsMatch  == /\ Matched(cat["live"]) /\ Matched(cat["new"])
              /\ \A w \in Wiretap : Matched(wt[w]["live"])

(* The small catalog takes the old database's place only when every         *)
(* wiretap it lists has a file, and the old database is kept whole          *)
(* (rebuildCatalog, legacyBackupPath).                                      *)
SplitComplete ==
  /\ ~Found.legacy => \A w \in Found.listed : wt[w]["live"].db # None
  /\ cat["backup"].db # None =>
       /\ cat["backup"].wal = None
       /\ cat["backup"].db.data.legacy /\ cat["backup"].db.data.listed = Wiretap

(* What the next start has to find while a start is on its way (OpenAt,     *)
(* rebuildCatalog): the old catalog until the new one is whole, then the    *)
(* new one, at one path or the other.                                       *)
Splitting == {"remove", "create", "insert", "fold", "backup"}

CatalogHolds ==
  /\ Found.listed = Wiretap /\ cat["backup"].wal = None
  /\ pc \in Splitting \cup {"export"} => Found.legacy
  /\ pc \in Splitting => cat["live"].wal = None
  /\ pc = "create" => cat["new"] = Nothing
  /\ pc = "insert" => cat["new"] = Fresh(1, NewCatalog)
  /\ pc \in {"fold", "backup"} =>
       /\ cat["new"].db # None
       /\ Shown(cat["new"]) = [NewCatalog EXCEPT !.listed = Wiretap, !.settings = Found.settings]
  /\ pc = "backup" => cat["new"].wal = None
  /\ pc \in {"backupWal", "swap"} => cat["live"].db = None
  /\ pc \in {"reopen", "running"} => ~Found.legacy
  /\ cat["live"].db = None =>
       /\ pc \in {"down", "recover", "backupWal", "swap"}
       /\ cat["live"].wal = None /\ cat["new"].wal = None
       /\ cat["new"].db # None /\ ~cat["new"].db.data.legacy

(* A wiretap that the start is done with has its rows in its own file.      *)
Exported(w) == wt[w]["live"].db # None /\ Shown(wt[w]["live"]) = Found.tables[w]
SplitHolds  == /\ pc \in Splitting => \A w \in Wiretap : Exported(w)
               /\ pc = "export" => \A w \in Wiretap \ todo : Exported(w)

(* Between its steps a copy is empty, a part of its source, or all of it,   *)
(* and the source stays as it is (copyWiretapTo, swapWiretapFile).          *)
CopyHeld(w) ==
  /\ copy[w] # "idle" => pc \in {"export", "running"}
  /\ Exporting /\ copy[w] # "idle" =>
       /\ copy[w] \in {"create", "rows", "detach"} /\ w \in todo
       /\ \A v \in Wiretap : copy[v] # "idle" => v = w
  /\ copy[w] = "create" => wt[w][Dest] = Nothing
  /\ copy[w] = "rows" => /\ wt[w][Dest].db # None /\ wt[w][Dest].wal = None
                         /\ wt[w][Dest].db.data.rows \subseteq Source(w).rows
                         /\ wt[w][Dest].db.data.marks = {}
  /\ copy[w] \in {"detach", "close"} => /\ wt[w][Dest].db # None /\ Matched(wt[w][Dest])
                                        /\ Shown(wt[w][Dest]) = Source(w)
  /\ copy[w] \in {"wal", "freshWal", "rename"} =>
       /\ wt[w]["live"].wal = None /\ wt[w]["compact"].wal = None
       /\ wt[w]["compact"].db # None /\ wt[w]["compact"].db.data = wt[w]["live"].db.data
CopyHolds == \A w \in Wiretap : CopyHeld(w)

(* The inductive invariant behind these and behind Implements.              *)
DiskInv == TypeOK /\ LogsMatch /\ SplitComplete /\ CatalogHolds /\ SplitHolds /\ CopyHolds

(* However often a start was cut short, and wherever, a later one gets      *)
(* through: nothing it left behind makes OpenAt fail for ever.              *)
StartsAgain == pc = "down" ~> pc = "running"
=============================================================================
