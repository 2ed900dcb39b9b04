------------------------- MODULE DiskLayout_proofs -------------------------
(***************************************************************************)
(* Proofs about DiskLayout, for every set of wiretaps and loads, and any   *)
(* number of changes, crashes and steps that fail.                         *)
(***************************************************************************)
EXTENDS DiskLayout, TLAPS

-----------------------------------------------------------------------------
(* What the effects on a file and its log leave. *)

\* Without a file there is no log, and a next open would show nothing.
LEMMA NothingSlot ==
  ASSUME NEW D
  PROVE  Nothing \in Slots(D) /\ Matched(Nothing) /\ Nothing.db = None /\ Nothing.wal = None
BY DEF Nothing, Slots, Matched

\* What is shown of a file is of the file's kind.
LEMMA ShownTyped ==
  ASSUME NEW D, NEW s \in Slots(D), s.db # None
  PROVE  Shown(s) \in D
BY DEF Shown, Slots, File

\* A new file has no log.
LEMMA FreshSlot ==
  ASSUME NEW D, None \notin File(D), NEW v \in Versions, NEW d \in D
  PROVE  /\ Fresh(v, d) \in Slots(D) /\ Matched(Fresh(v, d)) /\ Shown(Fresh(v, d)) = d
         /\ Fresh(v, d).db # None /\ Fresh(v, d).db.data = d /\ Fresh(v, d).wal = None
BY DEF Fresh, Slots, Matched, Shown, File

\* A committed transaction is in the log of the file, and is what is shown.
LEMMA CommitSlot ==
  ASSUME NEW D, None \notin File(D), NEW s \in Slots(D), s.db # None, NEW d \in D
  PROVE  /\ Commit(s, d) \in Slots(D) /\ Matched(Commit(s, d)) /\ Shown(Commit(s, d)) = d
         /\ Commit(s, d).db = s.db /\ Commit(s, d).wal # None
BY DEF Commit, Slots, Matched, Shown, File

\* Folding a log into its file changes nothing of what is shown.
LEMMA FoldSlot ==
  ASSUME NEW D, None \notin File(D), NEW s \in Slots(D), Matched(s)
  PROVE  /\ Fold(s) \in Slots(D) /\ Matched(Fold(s)) /\ Fold(s).wal = None
         /\ Fold(s).db = None <=> s.db = None
         /\ s.db # None => Shown(Fold(s)) = Shown(s) /\ Fold(s).db.data = Shown(s)
         /\ s.wal = None => Fold(s) = s
BY DEF Fold, Slots, Matched, Shown, File

\* The contents a new file has.
LEMMA NewTyped == Empty \in Data /\ NewCatalog \in Catalog
BY DEF Empty, Data, NewCatalog, Catalog

\* No copy is under way: nothing is said of one.
LEMMA IdleCopies ==
  ASSUME \A w \in Wiretap : copy'[w] = "idle"
  PROVE  CopyHolds'
BY DEF CopyHolds, CopyHeld

-----------------------------------------------------------------------------
(* The invariant. *)

\* A first start finds either layout whole.
LEMMA InitDisk == Init => DiskInv
<1> SUFFICES ASSUME Init PROVE DiskInv
  OBVIOUS
<1> USE NoneAssumption, BoundAssumption
<1>1. PICK t \in [Wiretap -> {Empty} \cup {[rows |-> {l}, marks |-> {l}] : l \in Load}],
           old \in BOOLEAN, log \in BOOLEAN :
        LET c == [NewCatalog EXCEPT !.listed = Wiretap, !.legacy = old, !.tables = IF old THEN t ELSE @]
        IN  /\ cat = [p \in {"live", "new", "backup"} |->
                        IF p # "live" THEN Nothing
                        ELSE IF log THEN Commit(Fresh(0, NewCatalog), c) ELSE Fresh(0, c)]
            /\ wt = [w \in Wiretap |-> [p \in {"live", "compact"} |->
                        IF p = "live" /\ ~old THEN Fresh(0, t[w]) ELSE Nothing]]
  BY DEF Init
<1> DEFINE c == [NewCatalog EXCEPT !.listed = Wiretap, !.legacy = old, !.tables = IF old THEN t ELSE @]
<1>2. c \in Catalog /\ c.listed = Wiretap /\ c.legacy = old
  <2>1. t \in [Wiretap -> Data]
    BY <1>1 DEF Empty, Data
  <2> QED
    BY <2>1, NewTyped DEF NewCatalog, Catalog
<1>3. /\ cat["live"] \in Slots(Catalog) /\ cat["live"].db # None /\ Matched(cat["live"])
      /\ Shown(cat["live"]) = c
  <2>1. cat["live"] = IF log THEN Commit(Fresh(0, NewCatalog), c) ELSE Fresh(0, c)
    BY <1>1
  <2>2. 0 \in Versions
    BY DEF Versions
  <2> HIDE DEF c
  <2> QED
    BY <1>2, <2>1, <2>2, NewTyped, FreshSlot, CommitSlot
<1>4. cat["new"] = Nothing /\ cat["backup"] = Nothing /\ DOMAIN cat = {"live", "new", "backup"}
  BY <1>1
<1>5. \A w \in Wiretap :
        /\ wt[w] \in [{"live", "compact"} -> Slots(Data)]
        /\ Matched(wt[w]["live"]) /\ (~old => wt[w]["live"].db # None)
  <2> TAKE w \in Wiretap
  <2>1. t[w] \in Data
    BY <1>1 DEF Empty, Data
  <2>2. 0 \in Versions
    BY DEF Versions
  <2>3. wt[w] = [p \in {"live", "compact"} |-> IF p = "live" /\ ~old THEN Fresh(0, t[w]) ELSE Nothing]
    BY <1>1
  <2> QED
    BY <2>1, <2>2, <2>3, FreshSlot, NothingSlot
<1>6. /\ pc = "down" /\ copy = [w \in Wiretap |-> "idle"] /\ todo = {}
      /\ expired = [w \in Wiretap |-> {}] /\ faults = 0
  BY DEF Init
<1>7. Found = c
  BY <1>3 DEF Found
<1> HIDE DEF c
<1>8. TypeOK
  <2>1. cat = [p \in {"live", "new", "backup"} |-> cat[p]] /\ wt = [w \in Wiretap |-> wt[w]]
    BY <1>1
  <2> QED
    BY <1>3, <1>4, <1>5, <1>6, <2>1, NothingSlot DEF TypeOK, CopySteps
<1>9. LogsMatch
  BY <1>3, <1>4, <1>5, NothingSlot DEF LogsMatch
<1>10. SplitComplete
  BY <1>2, <1>4, <1>5, <1>7, NothingSlot DEF SplitComplete
<1>11. CatalogHolds
  BY <1>2, <1>3, <1>4, <1>6, <1>7, NothingSlot DEF CatalogHolds, Splitting
<1>12. SplitHolds /\ CopyHolds
  BY <1>6 DEF SplitHolds, CopyHolds, CopyHeld, Splitting, Exporting
<1> QED
  BY <1>8, <1>9, <1>10, <1>11, <1>12 DEF DiskInv

\* The store is as it was.
Kept == \A w \in Wiretap : Stored(w)' = Stored(w)

\* When the next start finds the same, and the same rows, the store is as it was.
LEMMA KeptRows ==
  ASSUME Found'.listed = Found.listed, Found'.settings = Found.settings, UNCHANGED expired,
         \A w \in Wiretap : Rows(w)' = Rows(w)
  PROVE  Kept
BY DEF Kept, Stored

-----------------------------------------------------------------------------
(* The steps of a start.  Only the catalog changes, and no copy is made. *)

\* A start under way that makes no copy has none unfinished.
LEMMA NoCopies ==
  ASSUME CopyHolds, pc \notin {"export", "running"}, UNCHANGED copy
  PROVE  CopyHolds'
BY DEF CopyHolds, CopyHeld

\* Renaming a finished new catalog into place, or finding nothing to finish.
LEMMA StepRecover == DiskInv /\ Recover => DiskInv' /\ Kept
<1> SUFFICES ASSUME DiskInv, Recover PROVE DiskInv' /\ Kept
  OBVIOUS
<1> USE NoneAssumption DEF DiskInv
<1>0. pc = "recover" /\ pc' = "open" /\ UNCHANGED <<wt, copy, todo, expired, faults>>
  BY DEF Recover, Goto
<1>1. CopyHolds'
  BY <1>0, NoCopies
<1>2. CASE cat["live"].db # None \/ cat["new"].db = None
  <2>1. cat' = cat /\ cat["live"].db # None
    BY <1>2 DEF Recover, CatalogHolds
  <2>2. Found' = Found
    BY <2>1 DEF Found
  <2>3. TypeOK' /\ LogsMatch'
    BY <1>0, <2>1 DEF TypeOK, LogsMatch, Starting
  <2>4. SplitComplete' /\ CatalogHolds' /\ SplitHolds'
    BY <1>0, <2>1, <2>2 DEF SplitComplete, CatalogHolds, SplitHolds, Splitting
  <2>5. Kept
    BY <1>0, <2>2, KeptRows DEF Rows
  <2> QED
    BY <1>1, <2>3, <2>4, <2>5
<1>3. CASE cat["live"].db = None /\ cat["new"].db # None
  <2>1. /\ cat'["live"] = [cat["live"] EXCEPT !.db = cat["new"].db]
        /\ cat'["new"] = [cat["new"] EXCEPT !.db = None] /\ cat'["backup"] = cat["backup"]
        /\ cat' = [p \in {"live", "new", "backup"} |-> cat'[p]]
    BY <1>3 DEF Recover, TypeOK
  <2>2. cat["live"].wal = None /\ cat["new"].wal = None
    BY <1>3 DEF CatalogHolds
  <2>3. /\ cat'["live"] \in Slots(Catalog) /\ cat'["new"] \in Slots(Catalog)
        /\ cat'["live"].db = cat["new"].db /\ cat'["live"].wal = None
        /\ cat'["new"].db = None /\ cat'["new"].wal = None
    BY <2>1, <2>2 DEF TypeOK, Slots
  <2>4. Found' = Found
    BY <1>3, <2>2, <2>3 DEF Found, Shown
  <2>5. TypeOK' /\ LogsMatch'
    BY <1>0, <2>1, <2>3 DEF TypeOK, LogsMatch, Matched, Starting
  <2>6. SplitComplete' /\ CatalogHolds' /\ SplitHolds'
    BY <1>0, <1>3, <2>1, <2>3, <2>4 DEF SplitComplete, CatalogHolds, SplitHolds, Splitting
  <2>7. Kept
    BY <1>0, <2>4, KeptRows DEF Rows
  <2> QED
    BY <1>1, <2>5, <2>6, <2>7
<1> QED
  BY <1>2, <1>3

\* Nothing on the disk changes.
LEMMA StepStart == DiskInv /\ (Start \/ OpenCatalog \/ Reopen) => DiskInv' /\ Kept
<1> SUFFICES ASSUME DiskInv, Start \/ OpenCatalog \/ Reopen PROVE DiskInv' /\ Kept
  OBVIOUS
<1> USE NoneAssumption DEF DiskInv
<1>1. UNCHANGED <<wt, copy, expired, faults>> /\ pc \notin {"export", "running"}
  BY DEF Start, OpenCatalog, Reopen, disk
<1>2. /\ cat' = cat
      /\ \/ pc = "down" /\ pc' = "recover" /\ todo' = todo
         \/ /\ pc = "open" /\ cat["live"].db # None
            /\ pc' = IF Found.legacy THEN "export" ELSE "running"
            /\ todo' = IF Found.legacy THEN Wiretap ELSE {}
         \/ pc = "reopen" /\ cat["live"].db # None /\ pc' = "running" /\ todo' = todo
  <2>1. CASE Start
    BY <2>1 DEF Start, Goto, disk
  <2>2. CASE OpenCatalog
    BY <2>2 DEF OpenCatalog, Goto, CatalogHolds, Found
  <2>3. CASE Reopen
    BY <2>3 DEF Reopen, Goto, disk, CatalogHolds
  <2> QED
    BY <2>1, <2>2, <2>3
<1>3. Found' = Found
  BY <1>2 DEF Found
<1>4. CopyHolds'
  <2>1. \A w \in Wiretap : copy'[w] = "idle"
    BY <1>1 DEF CopyHolds, CopyHeld
  <2> QED
    BY <2>1, IdleCopies
<1>5. TypeOK' /\ LogsMatch'
  BY <1>1, <1>2 DEF TypeOK, LogsMatch, Starting
<1>6. SplitComplete' /\ CatalogHolds' /\ SplitHolds'
  BY <1>1, <1>2, <1>3 DEF SplitComplete, CatalogHolds, SplitHolds, Splitting
<1>7. Kept
  BY <1>1, <1>2, <1>3, KeptRows DEF Rows
<1> QED
  BY <1>4, <1>5, <1>6, <1>7

\* The new catalog is filled beside the old one, which every start finds meanwhile.
LEMMA StepNew ==
  DiskInv /\ (RemoveNew \/ CreateNew \/ InsertRows \/ CloseNew) => DiskInv' /\ Kept
<1> SUFFICES ASSUME DiskInv, RemoveNew \/ CreateNew \/ InsertRows \/ CloseNew
             PROVE  DiskInv' /\ Kept
  OBVIOUS
<1> USE NoneAssumption DEF DiskInv
<1>1. UNCHANGED <<wt, copy, todo, expired, faults>> /\ pc \in Splitting
  BY DEF RemoveNew, CreateNew, InsertRows, CloseNew, Splitting
<1>2. /\ cat["live"].db # None /\ cat["live"].wal = None /\ Found = Shown(cat["live"])
      /\ Found \in Catalog /\ Found.listed = Wiretap /\ Found.legacy
  BY <1>1, ShownTyped DEF CatalogHolds, Found, TypeOK, Splitting
<1>3. /\ cat'["live"] = cat["live"] /\ cat'["backup"] = cat["backup"]
      /\ cat' = [p \in {"live", "new", "backup"} |-> cat'[p]]
      /\ cat'["new"] \in Slots(Catalog) /\ Matched(cat'["new"])
      /\ \/ pc' = "create" /\ cat'["new"] = Nothing
         \/ pc' = "insert" /\ cat'["new"] = Fresh(1, NewCatalog)
         \/ /\ pc' \in {"fold", "backup"} /\ cat'["new"].db # None
            /\ Shown(cat'["new"]) = [NewCatalog EXCEPT !.listed = Wiretap, !.settings = Found.settings]
            /\ pc' = "backup" => cat'["new"].wal = None
  <2>1. CASE RemoveNew
    BY <2>1, NothingSlot DEF RemoveNew, Goto, TypeOK
  <2>2. CASE CreateNew
    <3>1. 1 \in Versions /\ cat["new"] = Nothing
      BY <2>2 DEF Versions, CreateNew, CatalogHolds
    <3>2. cat' = [cat EXCEPT !["new"] = Fresh(1, NewCatalog)] /\ pc' = "insert"
      BY <2>2, <3>1, NothingSlot DEF CreateNew, Goto
    <3> QED
      BY <3>1, <3>2, NewTyped, FreshSlot DEF TypeOK
  <2>3. CASE InsertRows
    <3>1. 1 \in Versions /\ cat["new"] = Fresh(1, NewCatalog) /\ pc = "insert"
      BY <2>3 DEF Versions, InsertRows, CatalogHolds
    <3>2. Shown(cat["new"]) = NewCatalog /\ cat["new"] \in Slots(Catalog) /\ cat["new"].db # None
      BY <3>1, NewTyped, FreshSlot
    <3> DEFINE filled == [NewCatalog EXCEPT !.listed = Wiretap, !.settings = Found.settings]
    <3>3. filled \in Catalog
      BY <1>2, NewTyped DEF Catalog
    <3>4. [NewCatalog EXCEPT !.listed = @ \cup Found.listed, !.settings = Found.settings] = filled
          /\ NewCatalog.listed = {}
      BY <1>2 DEF NewCatalog
    <3>5. cat' = [cat EXCEPT !["new"] = Commit(cat["new"], filled)] /\ pc' = "fold"
      BY <1>2, <2>3, <3>2, <3>4 DEF InsertRows, Goto
    <3> HIDE DEF filled
    <3>6. /\ cat'["new"] \in Slots(Catalog) /\ Matched(cat'["new"]) /\ Shown(cat'["new"]) = filled
          /\ cat'["new"].db # None
      BY <3>2, <3>3, <3>5, CommitSlot DEF TypeOK
    <3> QED
      BY <3>5, <3>6 DEF TypeOK, filled
  <2>4. CASE CloseNew
    <3>1. cat' = [cat EXCEPT !["new"] = Fold(cat["new"])] /\ pc = "fold" /\ pc' = "backup"
      BY <2>4 DEF CloseNew, Goto
    <3>2. cat["new"] \in Slots(Catalog) /\ Matched(cat["new"]) /\ cat["new"].db # None
      BY <3>1 DEF TypeOK, LogsMatch, CatalogHolds
    <3>3. /\ cat'["new"] \in Slots(Catalog) /\ Matched(cat'["new"]) /\ cat'["new"].wal = None
          /\ Shown(cat'["new"]) = Shown(cat["new"]) /\ cat'["new"].db # None
      BY <3>1, <3>2, FoldSlot DEF TypeOK
    <3> QED
      BY <3>1, <3>3 DEF TypeOK, CatalogHolds
  <2> QED
    BY <2>1, <2>2, <2>3, <2>4
<1>4. Found' = Found
  BY <1>2, <1>3 DEF Found
<1>5. CopyHolds'
  BY <1>1, NoCopies DEF Splitting
<1>6. TypeOK' /\ LogsMatch'
  BY <1>1, <1>3 DEF TypeOK, LogsMatch, Starting
<1>7. SplitComplete'
  BY <1>1, <1>3, <1>4 DEF SplitComplete
<1>8. CatalogHolds'
  BY <1>1, <1>2, <1>3, <1>4 DEF CatalogHolds, Splitting
<1>9. SplitHolds'
  BY <1>1, <1>3, <1>4 DEF SplitHolds, Splitting, Exported
<1>10. Kept
  BY <1>1, <1>4, KeptRows DEF Rows
<1> QED
  BY <1>5, <1>6, <1>7, <1>8, <1>9, <1>10

\* From here on a start finds the new catalog, and the rows in the new files.
LEMMA StepBackup == DiskInv /\ RenameLegacy => DiskInv' /\ Kept
<1> SUFFICES ASSUME DiskInv, RenameLegacy PROVE DiskInv' /\ Kept
  OBVIOUS
<1> USE NoneAssumption DEF DiskInv
<1>1. UNCHANGED <<wt, copy, todo, expired, faults>> /\ pc = "backup" /\ pc' = "backupWal"
  BY DEF RenameLegacy, Goto
<1>2. /\ cat["live"].db # None /\ cat["live"].wal = None /\ Found = cat["live"].db.data
      /\ Found \in Catalog /\ Found.listed = Wiretap /\ Found.legacy
  BY <1>1, ShownTyped DEF CatalogHolds, Found, TypeOK, Splitting, Shown
<1>3. /\ cat["new"].db # None /\ cat["new"].wal = None
      /\ cat["new"].db.data = [NewCatalog EXCEPT !.listed = Wiretap, !.settings = Found.settings]
  BY <1>1 DEF CatalogHolds, Shown
<1>4. /\ cat'["live"] = [cat["live"] EXCEPT !.db = None] /\ cat'["new"] = cat["new"]
      /\ cat'["backup"] = [cat["backup"] EXCEPT !.db = cat["live"].db]
      /\ cat' = [p \in {"live", "new", "backup"} |-> cat'[p]]
  BY DEF RenameLegacy, TypeOK
<1>5. /\ cat'["live"] \in Slots(Catalog) /\ cat'["backup"] \in Slots(Catalog)
      /\ cat'["live"].db = None /\ cat'["live"].wal = None
      /\ cat'["backup"].db = cat["live"].db /\ cat'["backup"].wal = None
  BY <1>2, <1>4 DEF TypeOK, Slots, CatalogHolds
<1>6. Found' = cat["new"].db.data
  BY <1>3, <1>4, <1>5 DEF Found, Shown
<1>7. Found'.listed = Wiretap /\ Found'.settings = Found.settings /\ ~Found'.legacy
  BY <1>3, <1>6 DEF NewCatalog
<1>8. \A w \in Wiretap : wt[w]["live"].db # None /\ Shown(wt[w]["live"]) = Found.tables[w]
  BY <1>1 DEF SplitHolds, Exported, Splitting
<1>9. CopyHolds'
  BY <1>1, NoCopies
<1>10. TypeOK' /\ LogsMatch'
  BY <1>1, <1>4, <1>5 DEF TypeOK, LogsMatch, Starting, Matched
<1>11. SplitComplete' /\ CatalogHolds' /\ SplitHolds'
  BY <1>1, <1>2, <1>3, <1>4, <1>5, <1>6, <1>7, <1>8 DEF SplitComplete, CatalogHolds, SplitHolds, Splitting
<1>12. \A w \in Wiretap : Rows(w)' = Rows(w)
  BY <1>1, <1>2, <1>7, <1>8 DEF Rows
<1>13. Kept
  BY <1>1, <1>2, <1>7, <1>12, KeptRows
<1> QED
  BY <1>9, <1>10, <1>11, <1>13

\* The old catalog has no log, and the new one moves into its place.
LEMMA StepSwapCatalog == DiskInv /\ (RenameLegacyWal \/ RenameNew) => DiskInv' /\ Kept
<1> SUFFICES ASSUME DiskInv, RenameLegacyWal \/ RenameNew PROVE DiskInv' /\ Kept
  OBVIOUS
<1> USE NoneAssumption DEF DiskInv
<1>1. UNCHANGED <<wt, copy, todo, expired, faults>> /\ pc \in {"backupWal", "swap"}
  BY DEF RenameLegacyWal, RenameNew
<1>2. /\ cat["live"].db = None /\ cat["live"].wal = None
      /\ cat["new"].db # None /\ cat["new"].wal = None /\ Found = cat["new"].db.data
      /\ ~Found.legacy /\ Found.listed = Wiretap
  BY <1>1 DEF CatalogHolds, Found, Shown
<1>3. CopyHolds'
  BY <1>1, NoCopies
<1>4. CASE RenameLegacyWal
  <2>1. cat' = cat /\ pc = "backupWal" /\ pc' = "swap"
    BY <1>2, <1>4 DEF RenameLegacyWal, Goto
  <2>2. Found' = Found
    BY <2>1 DEF Found
  <2>3. TypeOK' /\ LogsMatch'
    BY <1>1, <2>1 DEF TypeOK, LogsMatch, Starting
  <2>4. SplitComplete' /\ CatalogHolds' /\ SplitHolds'
    BY <1>1, <2>1, <2>2 DEF SplitComplete, CatalogHolds, SplitHolds, Splitting
  <2>5. Kept
    BY <1>1, <2>2, KeptRows DEF Rows
  <2> QED
    BY <1>3, <2>3, <2>4, <2>5
<1>5. CASE RenameNew
  <2>1. /\ cat'["live"] = [cat["live"] EXCEPT !.db = cat["new"].db]
        /\ cat'["new"] = [cat["new"] EXCEPT !.db = None] /\ cat'["backup"] = cat["backup"]
        /\ cat' = [p \in {"live", "new", "backup"} |-> cat'[p]] /\ pc' = "reopen"
    BY <1>5 DEF RenameNew, Goto, TypeOK
  <2>2. /\ cat'["live"] \in Slots(Catalog) /\ cat'["new"] \in Slots(Catalog)
        /\ cat'["live"].db = cat["new"].db /\ cat'["live"].wal = None
        /\ cat'["new"].db = None /\ cat'["new"].wal = None
    BY <1>2, <2>1 DEF TypeOK, Slots
  <2>3. Found' = Found
    BY <1>2, <2>2 DEF Found, Shown
  <2>4. TypeOK' /\ LogsMatch'
    BY <1>1, <2>1, <2>2 DEF TypeOK, LogsMatch, Matched, Starting
  <2>5. SplitComplete' /\ CatalogHolds' /\ SplitHolds'
    BY <1>1, <1>2, <2>1, <2>2, <2>3 DEF SplitComplete, CatalogHolds, SplitHolds, Splitting
  <2>6. Kept
    BY <1>1, <2>3, KeptRows DEF Rows
  <2> QED
    BY <1>3, <2>4, <2>5, <2>6
<1> QED
  BY <1>4, <1>5

-----------------------------------------------------------------------------
(* A start that fails, and a crash. *)

\* The files stay as they are, and no copy is under way any more.
LEMMA StepCrash == DiskInv /\ Crash => DiskInv' /\ Kept
<1> SUFFICES ASSUME DiskInv, Crash PROVE DiskInv' /\ Kept
  OBVIOUS
<1> USE NoneAssumption, BoundAssumption DEF DiskInv
<1>1. /\ UNCHANGED <<cat, wt, expired>> /\ faults' \in 0..MaxFaults
      /\ pc' = "down" /\ todo' = {} /\ copy' = [w \in Wiretap |-> "idle"]
  BY DEF Crash, Goto, Fault, disk, TypeOK
<1>2. Found' = Found
  BY <1>1 DEF Found
<1>3. CopyHolds'
  BY <1>1, IdleCopies
<1>4. TypeOK' /\ LogsMatch'
  BY <1>1 DEF TypeOK, LogsMatch, CopySteps
<1>5. SplitComplete' /\ CatalogHolds' /\ SplitHolds'
  BY <1>1, <1>2 DEF SplitComplete, CatalogHolds, SplitHolds, Splitting
<1>6. Kept
  BY <1>1, <1>2, KeptRows DEF Rows
<1> QED
  BY <1>3, <1>4, <1>5, <1>6

\* Closing what is open folds logs, which nobody can tell from the contents.
LEMMA StepStartFails == DiskInv /\ StartFails => DiskInv' /\ Kept
<1> SUFFICES ASSUME DiskInv, StartFails PROVE DiskInv' /\ Kept
  OBVIOUS
<1> USE NoneAssumption, BoundAssumption DEF DiskInv
<1>1. /\ UNCHANGED expired /\ faults' \in 0..MaxFaults
      /\ pc \in Starting /\ pc' = "down" /\ todo' = {} /\ copy' = [w \in Wiretap |-> "idle"]
  BY DEF StartFails, Goto, Fault, TypeOK
<1>2. /\ cat' = [p \in {"live", "new", "backup"} |-> cat'[p]] /\ cat'["backup"] = cat["backup"]
      /\ cat'["live"] = IF pc = "export" THEN Fold(cat["live"]) ELSE cat["live"]
      /\ cat'["new"] = IF pc \in {"insert", "fold"} THEN Fold(cat["new"]) ELSE cat["new"]
  BY DEF StartFails, TypeOK
<1>3. \A p \in {"live", "new"} :
        /\ cat'[p] \in Slots(Catalog) /\ Matched(cat'[p]) /\ (cat'[p].db = None <=> cat[p].db = None)
        /\ cat[p].db # None => Shown(cat'[p]) = Shown(cat[p])
        /\ cat[p].wal = None => cat'[p] = cat[p]
  <2>1. \A p \in {"live", "new"} : cat[p] \in Slots(Catalog) /\ Matched(cat[p])
    BY DEF TypeOK, LogsMatch
  <2> QED
    BY <1>2, <2>1, FoldSlot
<1>4. \A w \in Wiretap :
        /\ wt'[w] \in [{"live", "compact"} -> Slots(Data)] /\ Matched(wt'[w]["live"])
        /\ wt'[w]["live"].db = None <=> wt[w]["live"].db = None
        /\ wt[w]["live"].db # None => Shown(wt'[w]["live"]) = Shown(wt[w]["live"])
  <2> TAKE w \in Wiretap
  <2>1. wt'[w] = [wt[w] EXCEPT !["live"] = IF copy[w] \in {"rows", "detach"} THEN Fold(wt[w]["live"]) ELSE wt[w]["live"]]
    BY DEF StartFails
  <2>2. /\ wt[w] \in [{"live", "compact"} -> Slots(Data)] /\ Matched(wt[w]["live"])
        /\ wt[w]["live"] \in Slots(Data)
    BY DEF TypeOK, LogsMatch
  <2> QED
    BY <2>1, <2>2, FoldSlot
<1>5. cat["live"].db = None => pc \notin {"insert", "fold", "export"}
  BY DEF CatalogHolds
<1>6. Found' = Found
  BY <1>2, <1>3, <1>5 DEF Found
<1>7. CopyHolds'
  BY <1>1, IdleCopies
<1>8. wt' = [w \in Wiretap |-> wt'[w]]
  BY DEF StartFails
<1>9. TypeOK' /\ LogsMatch'
  <2>1. cat'["backup"] \in Slots(Catalog)
    BY <1>2 DEF TypeOK
  <2>2. cat' \in [{"live", "new", "backup"} -> Slots(Catalog)]
    BY <1>2, <1>3, <2>1
  <2> QED
    BY <1>1, <1>3, <1>4, <1>8, <2>2 DEF TypeOK, LogsMatch, CopySteps
<1>10. SplitComplete'
  BY <1>2, <1>4, <1>6 DEF SplitComplete, CatalogHolds
<1>11. CatalogHolds' /\ SplitHolds'
  BY <1>1, <1>2, <1>3, <1>5, <1>6 DEF CatalogHolds, SplitHolds, Splitting
<1>12. \A w \in Wiretap : Rows(w)' = Rows(w)
  BY <1>4, <1>6 DEF Rows
<1>13. Kept
  BY <1>1, <1>6, <1>12, KeptRows
<1> QED
  BY <1>7, <1>9, <1>10, <1>11, <1>13

-----------------------------------------------------------------------------
(* The steps of a copy, of its swap and of the running program work on one  *)
(* wiretap's files and leave the catalog alone.                             *)

\* The other wiretaps are left alone.
OthersKept(w) == \A v \in Wiretap \ {w} : wt'[v] = wt[v] /\ copy'[v] = copy[v]

\* What such a step must see to.
LEMMA OneWiretap ==
  ASSUME DiskInv, TypeOK', cat' = cat, pc' = pc, pc \in {"export", "running"},
         NEW w \in Wiretap, OthersKept(w), todo' \in {todo, todo \ {w}},
         Matched(wt'[w]["live"]), ~Found.legacy => wt'[w]["live"].db # None,
         Exporting => \/ /\ copy'[w] # "idle" /\ w \in todo /\ todo' = todo
                         /\ \A v \in Wiretap \ {w} : copy[v] = "idle"
                      \/ copy'[w] = "idle" /\ Exported(w)',
         CopyHeld(w)'
  PROVE  DiskInv'
<1> USE DEF DiskInv
<1>1. Found' = Found
  BY DEF Found
<1>2. LogsMatch'
  BY DEF LogsMatch, OthersKept
<1>3. SplitComplete' /\ CatalogHolds'
  BY <1>1 DEF SplitComplete, CatalogHolds, Splitting, OthersKept
<1>4. SplitHolds'
  <2>1. pc' \notin Splitting
    BY DEF Splitting
  <2>2. ASSUME pc' = "export", NEW v \in Wiretap \ todo' PROVE Exported(v)'
    BY <1>1, <2>2 DEF SplitHolds, Exported, Exporting, OthersKept
  <2> QED
    BY <2>1, <2>2 DEF SplitHolds
<1>5. CopyHolds'
  <2> SUFFICES ASSUME NEW v \in Wiretap \ {w} PROVE CopyHeld(v)'
    BY DEF CopyHolds
  <2>1. CopyHeld(v) /\ wt'[v] = wt[v] /\ copy'[v] = copy[v]
    BY DEF CopyHolds, OthersKept
  <2>2. Exporting' = Exporting /\ Source(v)' = Source(v) /\ Dest' = Dest
    BY <2>1 DEF Exporting, Source, Dest
  <2>3. Exporting' /\ copy'[v] # "idle" =>
          /\ copy'[v] \in {"create", "rows", "detach"} /\ v \in todo'
          /\ \A u \in Wiretap : copy'[u] # "idle" => u = v
    BY <2>1, <2>2 DEF CopyHeld, OthersKept
  <2> QED
    BY <2>1, <2>2, <2>3 DEF CopyHeld
<1> QED
  BY <1>2, <1>3, <1>4, <1>5

\* The store is as it was when the wiretap's own file shows the same, or does not count yet.
LEMMA KeptOne ==
  ASSUME DiskInv, cat' = cat, expired' = expired, NEW w \in Wiretap, OthersKept(w),
         ~Found.legacy => wt'[w]["live"].db # None /\ Shown(wt'[w]["live"]) = Shown(wt[w]["live"])
  PROVE  Kept
<1>1. Found' = Found
  BY DEF Found
<1>2. ~Found.legacy => \A v \in Wiretap : wt[v]["live"].db # None
  BY DEF DiskInv, SplitComplete, CatalogHolds
<1>3. \A v \in Wiretap : Rows(v)' = Rows(v)
  BY <1>1, <1>2 DEF Rows, OthersKept
<1> QED
  BY <1>1, <1>3, KeptRows

\* What a copy reads and writes: out of the old database into the wiretap's
\* file, or out of that file into a new one.
LEMMA CopyEnds ==
  ASSUME DiskInv, NEW w \in Wiretap, pc \in {"export", "running"}
  PROVE  /\ cat["live"].db # None /\ Found = Shown(cat["live"])
         /\ Found \in Catalog /\ Found.listed = Wiretap
         /\ Exporting => Found.legacy /\ Dest = "live" /\ Source(w) = Found.tables[w]
         /\ ~Exporting => /\ ~Found.legacy /\ Dest = "compact" /\ pc = "running"
                          /\ wt[w]["live"].db # None /\ Source(w) = Shown(wt[w]["live"])
         /\ Source(w) \in Data /\ Dest \in {"live", "compact"}
         /\ wt[w] \in [{"live", "compact"} -> Slots(Data)] /\ wt[w][Dest] \in Slots(Data)
<1> USE DEF DiskInv
<1>1. cat["live"].db # None /\ cat["live"] \in Slots(Catalog)
  BY DEF CatalogHolds, TypeOK
<1>2. Found = Shown(cat["live"]) /\ Found \in Catalog /\ Found.listed = Wiretap
  BY <1>1, ShownTyped DEF Found, CatalogHolds
<1>3. wt[w] \in [{"live", "compact"} -> Slots(Data)]
  BY DEF TypeOK
<1>4. Exporting => Found.legacy /\ Dest = "live" /\ Source(w) = Found.tables[w] /\ Source(w) \in Data
  BY <1>2 DEF Exporting, Dest, Source, CatalogHolds, Catalog
<1>5. ~Exporting => /\ ~Found.legacy /\ Dest = "compact" /\ pc = "running"
                    /\ wt[w]["live"].db # None /\ Source(w) = Shown(wt[w]["live"])
                    /\ Source(w) \in Data
  BY <1>2, <1>3, ShownTyped DEF Exporting, Dest, Source, CatalogHolds, SplitComplete
<1> QED
  BY <1>1, <1>2, <1>3, <1>4, <1>5

\* A step that works on the file a copy is made into, and what it must see to.
LEMMA DestStep ==
  ASSUME DiskInv, TypeOK', cat' = cat, pc' = pc, expired' = expired, pc \in {"export", "running"},
         NEW w \in Wiretap, OthersKept(w), todo' \in {todo, todo \ {w}},
         ~Exporting => wt'[w]["live"] = wt[w]["live"],
         Matched(wt'[w][Dest]),
         copy'[w] \notin {"wal", "freshWal", "rename"},
         Exporting => \/ /\ copy'[w] \notin {"idle", "close"} /\ w \in todo /\ todo' = todo
                         /\ \A v \in Wiretap \ {w} : copy[v] = "idle"
                      \/ copy'[w] = "idle" /\ wt'[w][Dest].db # None /\ Shown(wt'[w][Dest]) = Source(w),
         copy'[w] = "create" => wt'[w][Dest] = Nothing,
         copy'[w] = "rows" => /\ wt'[w][Dest].db # None /\ wt'[w][Dest].wal = None
                              /\ wt'[w][Dest].db.data.rows \subseteq Source(w).rows
                              /\ wt'[w][Dest].db.data.marks = {},
         copy'[w] \in {"detach", "close"} =>
           wt'[w][Dest].db # None /\ Shown(wt'[w][Dest]) = Source(w)
  PROVE  DiskInv' /\ Kept
<1>1. /\ Exporting => Found.legacy /\ Dest = "live" /\ Source(w) = Found.tables[w]
      /\ ~Exporting => /\ ~Found.legacy /\ Dest = "compact"
                       /\ wt[w]["live"].db # None /\ Source(w) = Shown(wt[w]["live"])
  BY CopyEnds
<1>2. Matched(wt'[w]["live"])
  BY <1>1 DEF DiskInv, LogsMatch
<1>3. Dest' = Dest /\ Exporting' = Exporting /\ Source(w)' = Source(w) /\ Found' = Found
  BY <1>1 DEF Dest, Exporting, Source, Found
<1>4. CopyHeld(w)'
  <2>1. Exporting' /\ copy'[w] # "idle" =>
          /\ copy'[w] \in {"create", "rows", "detach"} /\ w \in todo'
          /\ \A v \in Wiretap : copy'[v] # "idle" => v = w
    BY <1>3 DEF CopySteps, TypeOK, OthersKept
  <2>2. copy'[w] = "rows" => /\ wt'[w][Dest'].db # None /\ wt'[w][Dest'].wal = None
                             /\ wt'[w][Dest'].db.data.rows \subseteq Source(w)'.rows
                             /\ wt'[w][Dest'].db.data.marks = {}
    BY <1>3
  <2>3. copy'[w] \in {"detach", "close"} =>
          wt'[w][Dest'].db # None /\ Matched(wt'[w][Dest']) /\ Shown(wt'[w][Dest']) = Source(w)'
    BY <1>3
  <2>4. copy'[w] = "create" => wt'[w][Dest'] = Nothing
    BY <1>3
  <2> QED
    BY <2>1, <2>2, <2>3, <2>4 DEF CopyHeld
<1>5. DiskInv'
  <2>1. ~Found.legacy => wt'[w]["live"].db # None
    BY <1>1
  <2>2. Exporting => \/ /\ copy'[w] # "idle" /\ w \in todo /\ todo' = todo
                        /\ \A v \in Wiretap \ {w} : copy[v] = "idle"
                     \/ copy'[w] = "idle" /\ Exported(w)'
    BY <1>1, <1>3 DEF Exported
  <2> QED
    BY <1>2, <1>4, <2>1, <2>2, OneWiretap
<1>6. Kept
  BY <1>1, KeptOne
<1> QED
  BY <1>5, <1>6

\* A new file, with what an interrupted copy left taken away first.
LEMMA StepBeginCopy == ASSUME NEW w \in Wiretap PROVE DiskInv /\ BeginCopy(w) => DiskInv' /\ Kept
<1> SUFFICES ASSUME DiskInv, BeginCopy(w) PROVE DiskInv' /\ Kept
  OBVIOUS
<1>1. /\ UNCHANGED <<cat, pc, expired, todo, faults>> /\ pc \in {"export", "running"}
      /\ wt' = [wt EXCEPT ![w][Dest] = Nothing] /\ copy' = [copy EXCEPT ![w] = "create"]
      /\ Exporting => w \in todo /\ \A v \in Wiretap : copy[v] = "idle"
  BY DEF BeginCopy, SetCopy
<1>2. /\ Nothing \in Slots(Data) /\ Matched(Nothing) /\ Dest \in {"live", "compact"}
      /\ ~Exporting => Dest = "compact"
  BY <1>1, NothingSlot, CopyEnds
<1>3. /\ wt'[w][Dest] = Nothing /\ (~Exporting => wt'[w]["live"] = wt[w]["live"])
      /\ copy'[w] = "create" /\ OthersKept(w)
  BY <1>1, <1>2 DEF DiskInv, TypeOK, OthersKept
<1>4. TypeOK'
  BY <1>1, <1>2 DEF DiskInv, TypeOK, CopySteps
<1> QED
  BY <1>1, <1>2, <1>3, <1>4, DestStep

\* The place is free, so that the file and its tables can be made.
LEMMA StepCreateDest == ASSUME NEW w \in Wiretap PROVE DiskInv /\ CreateDest(w) => DiskInv' /\ Kept
<1> SUFFICES ASSUME DiskInv, CreateDest(w) PROVE DiskInv' /\ Kept
  OBVIOUS
<1> DEFINE fresh == Fresh(NewVersion(w), Empty)
<1>1. /\ CopyHeld(w) /\ copy[w] = "create" /\ UNCHANGED <<cat, todo, expired, faults>>
      /\ pc \in {"export", "running"} /\ wt[w][Dest] = Nothing
  BY DEF CreateDest, DiskInv, CopyHolds, CopyHeld
<1>2. /\ wt' = [wt EXCEPT ![w][Dest] = fresh]
      /\ copy' = [copy EXCEPT ![w] = "rows"] /\ pc' = pc
  BY <1>1, NothingSlot DEF CreateDest, SetCopy
<1>3. NewVersion(w) \in Versions
  <2> DEFINE x1 == wt[w]["live"].db.version     x2 == wt[w]["live"].wal.version
             x3 == wt[w]["compact"].db.version  x4 == wt[w]["compact"].wal.version
  <2>1. VersionsOf(w) \subseteq {x1, x2, x3, x4}
    BY DEF VersionsOf
  <2> HIDE DEF x1, x2, x3, x4
  <2>2. 0 \in Versions /\ 1 \in Versions /\ 2 \in Versions /\ 3 \in Versions /\ 4 \in Versions
    BY DEF Versions
  <2>3. \E v \in Versions : v \notin VersionsOf(w)
    BY <2>1, <2>2
  <2> QED
    BY <2>3 DEF NewVersion
<1>4. /\ fresh \in Slots(Data) /\ Matched(fresh)
      /\ fresh.db # None /\ fresh.wal = None /\ fresh.db.data = Empty
  BY <1>3, NewTyped, FreshSlot, NoneAssumption
<1> HIDE DEF fresh
<1>5. Dest \in {"live", "compact"} /\ (~Exporting => Dest = "compact")
  BY <1>1, CopyEnds
<1>6. /\ wt'[w][Dest] = fresh /\ (~Exporting => wt'[w]["live"] = wt[w]["live"])
      /\ copy'[w] = "rows" /\ OthersKept(w)
  BY <1>1, <1>2, <1>5 DEF DiskInv, TypeOK, OthersKept
<1>7. TypeOK'
  BY <1>1, <1>2, <1>4, <1>5 DEF DiskInv, TypeOK, CopySteps
<1>8. Exporting => w \in todo /\ \A v \in Wiretap \ {w} : copy[v] = "idle"
  BY <1>1 DEF CopyHeld
<1>9. Empty.rows = {} /\ Empty.marks = {}
  BY DEF Empty
<1> QED
  BY <1>1, <1>2, <1>4, <1>6, <1>7, <1>8, <1>9, DestStep

\* A span is of rows the source has, and the destination has no log yet.
LEMMA StepCopySpan ==
  ASSUME NEW w \in Wiretap, NEW l \in Load PROVE DiskInv /\ CopySpan(w, l) => DiskInv' /\ Kept
<1> SUFFICES ASSUME DiskInv, CopySpan(w, l) PROVE DiskInv' /\ Kept
  OBVIOUS
<1> DEFINE d == wt[w][Dest]
           s == [d EXCEPT !.db.data.rows = @ \cup {l}]
<1>1. /\ CopyHeld(w) /\ copy[w] = "rows" /\ UNCHANGED <<cat, pc, copy, todo, expired, faults>>
      /\ pc \in {"export", "running"} /\ d.db # None /\ d.wal = None
      /\ d.db.data.rows \subseteq Source(w).rows /\ d.db.data.marks = {}
      /\ l \in Source(w).rows /\ wt' = [wt EXCEPT ![w][Dest].db.data.rows = @ \cup {l}]
  BY DEF CopySpan, DiskInv, CopyHolds, CopyHeld
<1>2. Dest \in {"live", "compact"} /\ (~Exporting => Dest = "compact") /\ d \in Slots(Data)
  BY <1>1, CopyEnds
<1> HIDE DEF d
<1>3. /\ s \in Slots(Data) /\ s.db # None /\ s.wal = None
      /\ s.db.data.rows = d.db.data.rows \cup {l} /\ s.db.data.marks = {}
  <2>1. d.db \in File(Data) /\ d.db.data \in Data
    BY <1>1, <1>2 DEF Slots, File
  <2>2. s.db \in File(Data) /\ s.db.data.rows = d.db.data.rows \cup {l} /\ s.db.data.marks = {}
    BY <1>1, <1>2, <2>1 DEF Slots, File, Data
  <2>3. s = [db |-> s.db, wal |-> None]
    BY <1>1, <1>2 DEF Slots
  <2> HIDE DEF s
  <2> QED
    BY <2>2, <2>3, NoneAssumption DEF Slots
<1>4. wt'[w] = [wt[w] EXCEPT ![Dest] = s] /\ wt' = [wt EXCEPT ![w] = wt'[w]]
  BY <1>1, <1>2 DEF DiskInv, TypeOK, d
<1> HIDE DEF s
<1>5. wt[w] \in [{"live", "compact"} -> Slots(Data)] /\ wt'[w] \in [{"live", "compact"} -> Slots(Data)]
  BY <1>2, <1>3, <1>4 DEF DiskInv, TypeOK
<1>6. /\ wt'[w][Dest] = s /\ (~Exporting => wt'[w]["live"] = wt[w]["live"])
      /\ copy'[w] = "rows" /\ OthersKept(w)
  BY <1>1, <1>2, <1>4, <1>5 DEF DiskInv, TypeOK, OthersKept
<1>7. TypeOK'
  BY <1>1, <1>4, <1>5 DEF DiskInv, TypeOK
<1>8. Exporting => w \in todo /\ \A v \in Wiretap \ {w} : copy[v] = "idle"
  BY <1>1 DEF CopyHeld
<1>9. Matched(s)
  BY <1>3 DEF Matched
<1> QED
  BY <1>1, <1>3, <1>6, <1>7, <1>8, <1>9, DestStep

\* All the rows are there, so that the marks make the copy whole.
LEMMA StepCopyMarks == ASSUME NEW w \in Wiretap PROVE DiskInv /\ CopyMarks(w) => DiskInv' /\ Kept
<1> SUFFICES ASSUME DiskInv, CopyMarks(w) PROVE DiskInv' /\ Kept
  OBVIOUS
<1> DEFINE s == Commit(wt[w][Dest], Source(w))
<1>1. /\ CopyHeld(w) /\ copy[w] = "rows" /\ UNCHANGED <<cat, pc, todo, expired, faults>>
      /\ pc \in {"export", "running"} /\ wt[w][Dest].db # None
      /\ wt' = [wt EXCEPT ![w][Dest] = s] /\ copy' = [copy EXCEPT ![w] = "detach"]
  BY DEF CopyMarks, SetCopy, DiskInv, CopyHolds, CopyHeld
<1>2. /\ Dest \in {"live", "compact"} /\ (~Exporting => Dest = "compact")
      /\ wt[w][Dest] \in Slots(Data) /\ Source(w) \in Data
  BY <1>1, CopyEnds
<1>3. s \in Slots(Data) /\ Matched(s) /\ s.db # None /\ Shown(s) = Source(w)
  BY <1>1, <1>2, CommitSlot, NoneAssumption
<1> HIDE DEF s
<1>4. /\ wt'[w][Dest] = s /\ (~Exporting => wt'[w]["live"] = wt[w]["live"])
      /\ copy'[w] = "detach" /\ OthersKept(w)
  BY <1>1, <1>2 DEF DiskInv, TypeOK, OthersKept
<1>5. TypeOK'
  BY <1>1, <1>2, <1>3 DEF DiskInv, TypeOK, CopySteps
<1>6. Exporting => w \in todo /\ \A v \in Wiretap \ {w} : copy[v] = "idle"
  BY <1>1 DEF CopyHeld
<1> QED
  BY <1>1, <1>3, <1>4, <1>5, <1>6, DestStep

\* The copy is whole whether its log is folded or not.
LEMMA StepDetach ==
  ASSUME NEW w \in Wiretap PROVE DiskInv /\ (Detach(w) \/ DetachFails(w)) => DiskInv' /\ Kept
<1> SUFFICES ASSUME DiskInv, Detach(w) \/ DetachFails(w) PROVE DiskInv' /\ Kept
  OBVIOUS
<1> DEFINE c == IF Exporting THEN "idle" ELSE "close"
<1>1. /\ CopyHeld(w) /\ copy[w] = "detach" /\ UNCHANGED <<cat, pc, expired>>
      /\ todo' = todo \ {w} /\ faults' \in 0..MaxFaults
      /\ copy' = [copy EXCEPT ![w] = c]
      /\ pc \in {"export", "running"} /\ wt[w][Dest].db # None /\ Matched(wt[w][Dest])
      /\ Shown(wt[w][Dest]) = Source(w)
      /\ wt' = [wt EXCEPT ![w][Dest] = Fold(wt[w][Dest])] \/ wt' = wt
  BY BoundAssumption DEF Detach, DetachFails, Copied, SetCopy, Fault, DiskInv, CopyHolds, CopyHeld, TypeOK
<1>2. /\ Dest \in {"live", "compact"} /\ (~Exporting => Dest = "compact")
      /\ wt[w][Dest] \in Slots(Data)
  BY <1>1, CopyEnds
<1>3. \E s \in Slots(Data) : /\ wt' = [wt EXCEPT ![w][Dest] = s]
                             /\ Matched(s) /\ s.db # None /\ Shown(s) = Source(w)
  <2>1. CASE wt' = wt
    <3>1. wt' = [wt EXCEPT ![w][Dest] = wt[w][Dest]]
      BY <1>2, <2>1 DEF DiskInv, TypeOK
    <3> QED
      BY <1>1, <1>2, <3>1
  <2>2. CASE wt' = [wt EXCEPT ![w][Dest] = Fold(wt[w][Dest])]
    <3> DEFINE s == Fold(wt[w][Dest])
    <3>1. s \in Slots(Data) /\ Matched(s) /\ s.db # None /\ Shown(s) = Source(w)
      BY <1>1, <1>2, FoldSlot, NoneAssumption
    <3>2. wt' = [wt EXCEPT ![w][Dest] = s]
      BY <2>2
    <3> HIDE DEF s
    <3> QED
      BY <3>1, <3>2
  <2> QED
    BY <1>1, <2>1, <2>2
<1>4. PICK s \in Slots(Data) : /\ wt' = [wt EXCEPT ![w][Dest] = s]
                               /\ Matched(s) /\ s.db # None /\ Shown(s) = Source(w)
  BY <1>3
<1>5. /\ wt'[w][Dest] = s /\ (~Exporting => wt'[w]["live"] = wt[w]["live"])
      /\ copy'[w] = c /\ OthersKept(w)
  BY <1>1, <1>2, <1>4 DEF DiskInv, TypeOK, OthersKept
<1>6. TypeOK'
  BY <1>1, <1>2, <1>4 DEF DiskInv, TypeOK, CopySteps
<1> QED
  BY <1>1, <1>4, <1>5, <1>6, DestStep

\* A copy or a swap that fails leaves the files as they are.
LEMMA StepCopyFails ==
  ASSUME NEW w \in Wiretap PROVE DiskInv /\ (CopyFails(w) \/ SwapFails(w)) => DiskInv' /\ Kept
<1> SUFFICES ASSUME DiskInv, CopyFails(w) \/ SwapFails(w) PROVE DiskInv' /\ Kept
  OBVIOUS
<1>1. /\ CopyHeld(w) /\ copy[w] # "idle" /\ UNCHANGED <<cat, wt, pc, todo, expired>>
      /\ faults' \in 0..MaxFaults /\ copy' = [copy EXCEPT ![w] = "idle"]
  BY BoundAssumption DEF CopyFails, SwapFails, SetCopy, Fault, disk, DiskInv, CopyHolds, TypeOK
<1>2. pc = "running" /\ ~Exporting /\ Dest = "compact"
  BY <1>1 DEF CopyFails, SwapFails, CopyHeld, Exporting, Dest
<1>3. Matched(wt[w]["compact"])
  BY <1>1, <1>2, NothingSlot DEF CopyFails, SwapFails, CopyHeld, Matched
<1>4. copy'[w] = "idle" /\ OthersKept(w) /\ TypeOK'
  BY <1>1 DEF DiskInv, TypeOK, OthersKept, CopySteps
<1>5. wt'[w]["live"] = wt[w]["live"] /\ Matched(wt'[w][Dest])
  BY <1>1, <1>2, <1>3
<1>6. /\ cat' = cat /\ pc' = pc /\ expired' = expired /\ ~Exporting
      /\ pc \in {"export", "running"} /\ todo' \in {todo, todo \ {w}}
  BY <1>1, <1>2
<1> QED
  BY <1>4, <1>5, <1>6, DestStep

-----------------------------------------------------------------------------
(* The swap of a compacted file, and the other work on a wiretap's file. *)

\* The original and the copy are folded; then neither has a log to remove,
\* and the copy, which shows the same, takes the original's place.
LEMMA StepSwap == ASSUME NEW w \in Wiretap PROVE DiskInv /\ Swap(w) => DiskInv' /\ Kept
<1> SUFFICES ASSUME DiskInv, Swap(w) PROVE DiskInv' /\ Kept
  OBVIOUS
<1> USE NoneAssumption
<1> DEFINE live == wt[w]["live"]  fresh == wt[w]["compact"]
<1>1. /\ CopyHeld(w) /\ UNCHANGED <<cat, pc, todo, expired, faults>>
      /\ copy[w] \in {"close", "wal", "freshWal", "rename"}
  BY DEF Swap, CloseForSwap, RemoveWal, RemoveFreshWal, RenameFresh, DiskInv, CopyHolds
<1>2. /\ pc = "running" /\ ~Exporting /\ Dest = "compact" /\ ~Found.legacy
      /\ Source(w) = Shown(live) /\ wt[w] \in [{"live", "compact"} -> Slots(Data)]
      /\ live \in Slots(Data) /\ fresh \in Slots(Data) /\ live.db # None /\ Matched(live)
  <2>1. pc = "running" /\ ~Exporting
    BY <1>1 DEF CopyHeld, Exporting
  <2> QED
    BY <1>1, <2>1, CopyEnds DEF DiskInv, LogsMatch, TypeOK
<1>3. /\ wt'[w] \in [{"live", "compact"} -> Slots(Data)]
      /\ Matched(wt'[w]["live"]) /\ wt'[w]["live"].db # None
      /\ Shown(wt'[w]["live"]) = Shown(live)
      /\ copy'[w] \in CopySteps /\ wt' = [wt EXCEPT ![w] = wt'[w]]
      /\ copy' = [copy EXCEPT ![w] = copy'[w]]
      /\ \/ copy'[w] = "idle"
         \/ /\ copy'[w] \in {"wal", "freshWal", "rename"}
            /\ wt'[w]["live"].wal = None /\ wt'[w]["compact"].wal = None
            /\ wt'[w]["compact"].db # None
            /\ wt'[w]["compact"].db.data = wt'[w]["live"].db.data
  <2>1. CASE CloseForSwap(w)
    <3>1. /\ copy[w] = "close" /\ copy' = [copy EXCEPT ![w] = "wal"]
          /\ wt' = [wt EXCEPT ![w] = [p \in {"live", "compact"} |-> Fold(wt[w][p])]]
      BY <2>1 DEF CloseForSwap, SetCopy
    <3>2. fresh.db # None /\ Matched(fresh) /\ Shown(fresh) = Shown(live)
      BY <1>1, <1>2, <3>1 DEF CopyHeld
    <3>3. wt'[w] = [p \in {"live", "compact"} |-> Fold(wt[w][p])] /\ copy'[w] = "wal"
      BY <3>1 DEF DiskInv, TypeOK
    <3>4. wt'[w]["live"] = Fold(live) /\ wt'[w]["compact"] = Fold(fresh)
      BY <3>3
    <3>5. /\ Fold(live) \in Slots(Data) /\ Matched(Fold(live)) /\ Fold(live).wal = None
          /\ Fold(live).db # None /\ Shown(Fold(live)) = Shown(live)
          /\ Fold(live).db.data = Shown(live)
      BY <1>2, FoldSlot
    <3>6. /\ Fold(fresh) \in Slots(Data) /\ Fold(fresh).wal = None
          /\ Fold(fresh).db # None /\ Fold(fresh).db.data = Shown(fresh)
      BY <1>2, <3>2, FoldSlot
    <3>7. "wal" \in CopySteps
      BY DEF CopySteps
    <3>8. wt' = [wt EXCEPT ![w] = wt'[w]] /\ copy' = [copy EXCEPT ![w] = copy'[w]]
      BY <3>1, <3>3
    <3>9. wt'[w] \in [{"live", "compact"} -> Slots(Data)]
      <4>1. wt'[w] = [p \in {"live", "compact"} |-> wt'[w][p]]
        BY <3>3
      <4> QED
        BY <3>4, <3>5, <3>6, <4>1
    <3>10. /\ Matched(wt'[w]["live"]) /\ wt'[w]["live"].db # None
           /\ Shown(wt'[w]["live"]) = Shown(live)
           /\ wt'[w]["live"].wal = None /\ wt'[w]["compact"].wal = None
           /\ wt'[w]["compact"].db # None
           /\ wt'[w]["compact"].db.data = wt'[w]["live"].db.data
      BY <3>2, <3>4, <3>5, <3>6
    <3> HIDE DEF live, fresh
    <3> QED
      BY <3>3, <3>7, <3>8, <3>9, <3>10
  <2>2. CASE RemoveWal(w) \/ RemoveFreshWal(w)
    <3>1. /\ copy[w] \in {"wal", "freshWal"} /\ live.wal = None /\ fresh.wal = None
          /\ fresh.db # None /\ fresh.db.data = live.db.data
      BY <1>1, <2>2 DEF RemoveWal, RemoveFreshWal, CopyHeld
    <3>2. wt' = [wt EXCEPT ![w]["live"].wal = None] \/ wt' = [wt EXCEPT ![w]["compact"].wal = None]
      BY <2>2 DEF RemoveWal, RemoveFreshWal
    <3>3. [live EXCEPT !.wal = None] = live /\ [fresh EXCEPT !.wal = None] = fresh
      BY <1>2, <3>1 DEF Slots
    <3>4. wt'[w] = wt[w] /\ wt' = [wt EXCEPT ![w] = wt'[w]]
      BY <1>2, <3>2, <3>3 DEF DiskInv, TypeOK
    <3>5. /\ copy'[w] \in {"freshWal", "rename"} /\ copy'[w] \in CopySteps
          /\ copy' = [copy EXCEPT ![w] = copy'[w]]
      BY <2>2 DEF RemoveWal, RemoveFreshWal, SetCopy, DiskInv, TypeOK, CopySteps
    <3> QED
      BY <1>2, <3>1, <3>4, <3>5
  <2>3. CASE RenameFresh(w)
    <3>1. /\ live.wal = None /\ fresh.wal = None
          /\ fresh.db # None /\ fresh.db.data = live.db.data
      BY <1>1, <2>3 DEF RenameFresh, CopyHeld
    <3>2. /\ wt' = [wt EXCEPT ![w]["live"].db = wt[w]["compact"].db, ![w]["compact"].db = None]
          /\ copy' = [copy EXCEPT ![w] = "idle"]
      BY <2>3 DEF RenameFresh, SetCopy
    <3>3. /\ wt'[w]["live"] = [live EXCEPT !.db = fresh.db]
          /\ wt'[w]["compact"] = [fresh EXCEPT !.db = None]
          /\ wt'[w] = [p \in {"live", "compact"} |-> wt'[w][p]] /\ wt' = [wt EXCEPT ![w] = wt'[w]]
      BY <1>2, <3>2 DEF DiskInv, TypeOK
    <3>4. /\ [live EXCEPT !.db = fresh.db] \in Slots(Data) /\ [fresh EXCEPT !.db = None] \in Slots(Data)
          /\ [live EXCEPT !.db = fresh.db].db = fresh.db /\ [live EXCEPT !.db = fresh.db].wal = None
      BY <1>2, <3>1 DEF Slots
    <3>5. copy'[w] = "idle" /\ "idle" \in CopySteps
      BY <3>2 DEF DiskInv, TypeOK, CopySteps
    <3>6. /\ Matched(wt'[w]["live"]) /\ wt'[w]["live"].db # None
          /\ Shown(wt'[w]["live"]) = Shown(live)
      BY <3>1, <3>3, <3>4 DEF Matched, Shown
    <3>7. wt'[w] \in [{"live", "compact"} -> Slots(Data)]
      BY <3>3, <3>4
    <3>8. copy' = [copy EXCEPT ![w] = copy'[w]]
      BY <3>2, <3>5
    <3> QED
      BY <3>3, <3>5, <3>6, <3>7, <3>8
  <2> QED
    BY <2>1, <2>2, <2>3 DEF Swap
<1>4. TypeOK' /\ OthersKept(w)
  BY <1>1, <1>3 DEF DiskInv, TypeOK, OthersKept
<1>5. ~Exporting' /\ pc' = "running"
  BY <1>1, <1>2 DEF Exporting
<1>6. CopyHeld(w)'
  BY <1>3, <1>5 DEF CopyHeld
<1>7. DiskInv'
  BY <1>1, <1>2, <1>3, <1>4, <1>6, OneWiretap
<1>8. Kept
  BY <1>1, <1>3, <1>4, KeptOne
<1> QED
  BY <1>7, <1>8

\* A step that works on the wiretap's own file of a running program, and what it must see to.
LEMMA LiveStep ==
  ASSUME DiskInv, TypeOK', cat' = cat, pc' = pc, todo' = todo, pc = "running",
         NEW w \in Wiretap, OthersKept(w), copy'[w] = copy[w],
         copy[w] \notin {"wal", "freshWal", "rename"},
         wt'[w]["live"].db # None, Matched(wt'[w]["live"]),
         wt'[w]["compact"] = wt[w]["compact"],
         copy[w] # "idle" => Shown(wt'[w]["live"]) = Shown(wt[w]["live"])
  PROVE  DiskInv'
<1>1. ~Exporting /\ Dest = "compact" /\ ~Exporting' /\ Dest' = "compact"
  BY DEF Exporting, Dest
<1>2. CopyHeld(w)
  BY DEF DiskInv, CopyHolds
<1>3. copy[w] # "idle" => Source(w)' = Source(w)
  BY <1>1 DEF Source
<1>4. CopyHeld(w)'
  BY <1>1, <1>2, <1>3 DEF CopyHeld
<1> QED
  BY <1>1, <1>4, OneWiretap

\* A checkpoint folds the log and shows the same.
LEMMA StepCheckpoint == ASSUME NEW w \in Wiretap PROVE DiskInv /\ Checkpoint(w) => DiskInv' /\ Kept
<1> SUFFICES ASSUME DiskInv, Checkpoint(w) PROVE DiskInv' /\ Kept
  OBVIOUS
<1> DEFINE s == Fold(wt[w]["live"])
<1>1. /\ pc = "running" /\ copy[w] \notin {"wal", "freshWal", "rename"}
      /\ UNCHANGED <<cat, pc, copy, todo, expired, faults>> /\ wt' = [wt EXCEPT ![w]["live"] = s]
  BY DEF Checkpoint
<1>2. /\ wt[w]["live"] \in Slots(Data) /\ Matched(wt[w]["live"]) /\ wt[w]["live"].db # None
      /\ wt[w] \in [{"live", "compact"} -> Slots(Data)]
  BY <1>1, CopyEnds DEF DiskInv, LogsMatch, Exporting
<1>3. s \in Slots(Data) /\ Matched(s) /\ s.db # None /\ Shown(s) = Shown(wt[w]["live"])
  BY <1>2, FoldSlot, NoneAssumption
<1> HIDE DEF s
<1>4. /\ wt'[w]["live"] = s /\ wt'[w]["compact"] = wt[w]["compact"] /\ OthersKept(w)
      /\ copy'[w] = copy[w]
  BY <1>1, <1>2 DEF DiskInv, TypeOK, OthersKept
<1>5. TypeOK'
  BY <1>1, <1>2, <1>3 DEF DiskInv, TypeOK
<1>6. DiskInv'
  BY <1>1, <1>3, <1>4, <1>5, LiveStep
<1>7. Kept
  BY <1>1, <1>3, <1>4, KeptOne
<1> QED
  BY <1>6, <1>7

\* A transaction on a wiretap's rows and marks changes them in the store, and nothing else.
LEMMA WriteStep ==
  ASSUME DiskInv, NEW w \in Wiretap, Writable(w), NEW d \in Data, Write(w, d),
         expired' \in [Wiretap -> SUBSET Load]
  PROVE  /\ DiskInv' /\ ~Found.legacy /\ Found' = Found
         /\ Rows(w) = Shown(wt[w]["live"]) /\ Rows(w)' = d
         /\ \A v \in Wiretap \ {w} : Rows(v)' = Rows(v)
<1> DEFINE s == Commit(wt[w]["live"], d)
<1>1. /\ pc = "running" /\ copy[w] = "idle" /\ wt[w]["live"].db # None
      /\ UNCHANGED <<cat, pc, copy, todo, faults>> /\ wt' = [wt EXCEPT ![w]["live"] = s]
  BY DEF Writable, Write
<1>2. /\ wt[w]["live"] \in Slots(Data) /\ wt[w] \in [{"live", "compact"} -> Slots(Data)]
      /\ ~Found.legacy
  BY <1>1, CopyEnds DEF DiskInv, Exporting
<1>3. s \in Slots(Data) /\ Matched(s) /\ s.db # None /\ Shown(s) = d
  BY <1>1, <1>2, CommitSlot, NoneAssumption
<1> HIDE DEF s
<1>4. /\ wt'[w]["live"] = s /\ wt'[w]["compact"] = wt[w]["compact"] /\ OthersKept(w)
      /\ copy'[w] = copy[w]
  BY <1>1, <1>2 DEF DiskInv, TypeOK, OthersKept
<1>5. TypeOK'
  BY <1>1, <1>2, <1>3 DEF DiskInv, TypeOK
<1>6. DiskInv'
  BY <1>1, <1>3, <1>4, <1>5, LiveStep
<1>7. Found' = Found
  BY <1>1 DEF Found
<1> QED
  BY <1>1, <1>2, <1>3, <1>4, <1>6, <1>7 DEF Rows, OthersKept

\* Two changes of what the store holds of a wiretap, field by field.
LEMMA StoredFields ==
  ASSUME NEW w, NEW x, NEW y
  PROVE  /\ [Stored(w) EXCEPT !.rows = x, !.marks = y] =
              [settings |-> Stored(w).settings, rows |-> x, expired |-> Stored(w).expired, marks |-> y]
         /\ [Stored(w) EXCEPT !.rows = x, !.expired = y] =
              [settings |-> Stored(w).settings, rows |-> x, expired |-> y, marks |-> Stored(w).marks]
<1> DEFINE s == Stored(w)
           d == [settings |-> s.settings, rows |-> x, expired |-> s.expired, marks |-> s.marks]
<1>1. [s EXCEPT !.rows = x] = d
  BY DEF Stored
<1>2. /\ [d EXCEPT !.marks = y] = [settings |-> s.settings, rows |-> x, expired |-> s.expired, marks |-> y]
      /\ [d EXCEPT !.expired = y] = [settings |-> s.settings, rows |-> x, expired |-> y, marks |-> s.marks]
  OBVIOUS
<1> HIDE DEF s, d
<1>3. /\ [s EXCEPT !.rows = x, !.marks = y] = [[s EXCEPT !.rows = x] EXCEPT !.marks = y]
      /\ [s EXCEPT !.rows = x, !.expired = y] = [[s EXCEPT !.rows = x] EXCEPT !.expired = y]
  OBVIOUS
<1>4. /\ [s EXCEPT !.rows = x, !.marks = y] =
           [settings |-> s.settings, rows |-> x, expired |-> s.expired, marks |-> y]
      /\ [s EXCEPT !.rows = x, !.expired = y] =
           [settings |-> s.settings, rows |-> x, expired |-> y, marks |-> s.marks]
  BY <1>1, <1>2, <1>3
<1> QED
  BY <1>4 DEF s

\* A load adds its rows and its mark.
LEMMA StepIngest ==
  ASSUME NEW w \in Wiretap, NEW l \in Load
  PROVE  DiskInv /\ Ingest(w, l) => DiskInv' /\ Store!Ingest(w, l)
<1> SUFFICES ASSUME DiskInv, Ingest(w, l) PROVE DiskInv' /\ Store!Ingest(w, l)
  OBVIOUS
<1> DEFINE e == Shown(wt[w]["live"])
           d == [rows |-> e.rows \cup {l}, marks |-> e.marks \cup {l}]
<1>1. Writable(w) /\ l \notin e.marks /\ Write(w, d) /\ expired' = expired
  BY DEF Ingest
<1>2. e \in Data
  <2>1. wt[w]["live"] \in Slots(Data) /\ wt[w]["live"].db # None
    BY <1>1 DEF Writable, DiskInv, TypeOK
  <2> QED
    BY <2>1, ShownTyped
<1>3. d \in Data /\ expired' \in [Wiretap -> SUBSET Load]
  BY <1>1, <1>2 DEF Data, DiskInv, TypeOK
<1>4. /\ DiskInv' /\ Found' = Found /\ Rows(w) = e /\ Rows(w)' = d
      /\ \A v \in Wiretap \ {w} : Rows(v)' = Rows(v)
  BY <1>1, <1>3, WriteStep
<1> HIDE DEF e
<1>5. Stored(w)' = [Stored(w) EXCEPT !.rows = @ \cup {l}, !.marks = @ \cup {l}]
  <2>1. Rows(w)'.rows = Rows(w).rows \cup {l} /\ Rows(w)'.marks = Rows(w).marks \cup {l}
    BY <1>4
  <2>2. expired'[w] = expired[w] /\ Found' = Found
    BY <1>1, <1>4
  <2>3. Stored(w)' = [settings |-> Stored(w).settings, rows |-> Stored(w).rows \cup {l},
                      expired |-> Stored(w).expired, marks |-> Stored(w).marks \cup {l}]
    BY <2>1, <2>2 DEF Stored
  <2> DEFINE r == Stored(w).rows \cup {l}  m == Stored(w).marks \cup {l}
  <2> HIDE DEF r, m
  <2>4. [Stored(w) EXCEPT !.rows = r, !.marks = m] =
          [settings |-> Stored(w).settings, rows |-> r, expired |-> Stored(w).expired, marks |-> m]
    BY StoredFields, Zenon
  <2> QED
    BY <2>3, <2>4 DEF r, m
<1>6. \A v \in Wiretap \ {w} : Stored(v)' = Stored(v)
  BY <1>1, <1>4 DEF Stored
<1>7. l \notin Stored(w).marks
  BY <1>1, <1>4 DEF Stored
<1> QED
  BY <1>4, <1>5, <1>6, <1>7 DEF Store!Ingest

\* An expiry takes its rows away; the mark stays.
LEMMA StepExpire ==
  ASSUME NEW w \in Wiretap, NEW l \in Load
  PROVE  DiskInv /\ Expire(w, l) => DiskInv' /\ Store!Expire(w, l)
<1> SUFFICES ASSUME DiskInv, Expire(w, l) PROVE DiskInv' /\ Store!Expire(w, l)
  OBVIOUS
<1> DEFINE e == Shown(wt[w]["live"])
           d == [e EXCEPT !.rows = @ \ {l}]
<1>1. Writable(w) /\ l \in e.rows /\ Write(w, d) /\ expired' = [expired EXCEPT ![w] = @ \cup {l}]
  BY DEF Expire
<1>2. e \in Data
  <2>1. wt[w]["live"] \in Slots(Data) /\ wt[w]["live"].db # None
    BY <1>1 DEF Writable, DiskInv, TypeOK
  <2> QED
    BY <2>1, ShownTyped
<1> HIDE DEF e
<1>3. d \in Data /\ expired' \in [Wiretap -> SUBSET Load] /\ d.rows = e.rows \ {l} /\ d.marks = e.marks
  BY <1>1, <1>2 DEF Data, DiskInv, TypeOK
<1>4. /\ DiskInv' /\ Found' = Found /\ Rows(w) = e /\ Rows(w)' = d
      /\ \A v \in Wiretap \ {w} : Rows(v)' = Rows(v)
  BY <1>1, <1>3, WriteStep DEF e
<1>5. expired'[w] = expired[w] \cup {l} /\ \A v \in Wiretap \ {w} : expired'[v] = expired[v]
  BY <1>1 DEF DiskInv, TypeOK
<1> HIDE DEF d
<1>6. Stored(w)' = [Stored(w) EXCEPT !.rows = @ \ {l}, !.expired = @ \cup {l}]
  <2>1. Rows(w)'.rows = Rows(w).rows \ {l} /\ Rows(w)'.marks = Rows(w).marks
    BY <1>3, <1>4
  <2>2. expired'[w] = expired[w] \cup {l} /\ Found' = Found
    BY <1>4, <1>5
  <2>3. Stored(w)' = [settings |-> Stored(w).settings, rows |-> Stored(w).rows \ {l},
                      expired |-> Stored(w).expired \cup {l}, marks |-> Stored(w).marks]
    BY <2>1, <2>2 DEF Stored
  <2> QED
    BY <2>3, StoredFields
<1>7. \A v \in Wiretap \ {w} : Stored(v)' = Stored(v)
  BY <1>4, <1>5 DEF Stored
<1>8. l \in Stored(w).rows
  BY <1>1, <1>4 DEF Stored
<1> QED
  BY <1>4, <1>6, <1>7, <1>8 DEF Store!Expire

-----------------------------------------------------------------------------
(* The catalog of a running program. *)

\* A step that works on the running program's catalog, and what it must see to.
LEMMA LiveCatalog ==
  ASSUME DiskInv, pc = "running", UNCHANGED <<wt, pc, copy, todo, expired, faults>>,
         NEW s \in Slots(Catalog), cat' = [cat EXCEPT !["live"] = s],
         s.db # None, Matched(s), ~Shown(s).legacy, Shown(s).listed = Wiretap
  PROVE  DiskInv' /\ Found' = Shown(s) /\ Found = Shown(cat["live"]) /\ ~Found.legacy
<1> USE DEF DiskInv
<1>1. /\ cat'["live"] = s /\ cat'["new"] = cat["new"] /\ cat'["backup"] = cat["backup"]
      /\ cat' \in [{"live", "new", "backup"} -> Slots(Catalog)]
      /\ cat["live"].db # None /\ ~Found.legacy
  BY DEF TypeOK, CatalogHolds
<1>2. Found' = Shown(s) /\ Found = Shown(cat["live"])
  BY <1>1 DEF Found
<1>3. TypeOK' /\ LogsMatch'
  BY <1>1 DEF TypeOK, LogsMatch
<1>4. SplitComplete' /\ CatalogHolds' /\ SplitHolds'
  BY <1>1, <1>2 DEF SplitComplete, CatalogHolds, SplitHolds, Splitting
<1>5. CopyHolds'
  <2> SUFFICES ASSUME NEW w \in Wiretap PROVE CopyHeld(w)'
    BY DEF CopyHolds
  <2>1. CopyHeld(w) /\ wt'[w] = wt[w] /\ copy'[w] = copy[w]
    BY DEF CopyHolds
  <2>2. ~Exporting' /\ ~Exporting /\ Source(w)' = Source(w) /\ Dest' = Dest
    BY <2>1 DEF Exporting, Source, Dest
  <2> QED
    BY <2>1, <2>2 DEF CopyHeld
<1> QED
  BY <1>1, <1>2, <1>3, <1>4, <1>5

\* A checkpoint of the catalog shows the same.
LEMMA StepCheckpointCatalog == DiskInv /\ CheckpointCatalog => DiskInv' /\ Kept
<1> SUFFICES ASSUME DiskInv, CheckpointCatalog PROVE DiskInv' /\ Kept
  OBVIOUS
<1> DEFINE s == Fold(cat["live"])
<1>1. /\ pc = "running" /\ UNCHANGED <<wt, pc, copy, todo, expired, faults>>
      /\ cat' = [cat EXCEPT !["live"] = s]
  BY DEF CheckpointCatalog
<1>2. /\ cat["live"] \in Slots(Catalog) /\ cat["live"].db # None /\ Matched(cat["live"])
      /\ ~Found.legacy /\ Found.listed = Wiretap
  BY <1>1 DEF DiskInv, TypeOK, LogsMatch, CatalogHolds
<1>3. s \in Slots(Catalog) /\ s.db # None /\ Matched(s) /\ Shown(s) = Shown(cat["live"])
  BY <1>2, FoldSlot, NoneAssumption
<1>4. Found = Shown(cat["live"])
  BY <1>2 DEF Found
<1> HIDE DEF s
<1>5. DiskInv' /\ Found' = Found
  BY <1>1, <1>2, <1>3, <1>4, LiveCatalog
<1>6. Kept
  BY <1>1, <1>5, KeptRows DEF Rows
<1> QED
  BY <1>5, <1>6

\* An update changes the settings of its wiretap, and nothing else.
LEMMA StepUpdate ==
  ASSUME NEW w \in Wiretap PROVE DiskInv /\ UpdateRow(w) => DiskInv' /\ Store!Update(w)
<1> SUFFICES ASSUME DiskInv, UpdateRow(w) PROVE DiskInv' /\ Store!Update(w)
  OBVIOUS
<1> DEFINE c == Shown(cat["live"])
           d == [c EXCEPT !.settings[w] = @ + 1]
           s == Commit(cat["live"], d)
<1>1. /\ pc = "running" /\ UNCHANGED <<wt, pc, copy, todo, expired, faults>>
      /\ cat' = [cat EXCEPT !["live"] = s]
  BY DEF UpdateRow
<1>2. /\ cat["live"] \in Slots(Catalog) /\ cat["live"].db # None /\ Found = c
      /\ ~Found.legacy /\ Found.listed = Wiretap
  BY <1>1 DEF DiskInv, TypeOK, CatalogHolds, Found
<1>3. c \in Catalog
  BY <1>2, ShownTyped
<1> HIDE DEF c
<1>4. /\ d \in Catalog /\ d.legacy = c.legacy /\ d.listed = c.listed /\ d.tables = c.tables
      /\ d.settings = [c.settings EXCEPT ![w] = @ + 1] /\ c.settings \in [Wiretap -> Nat]
  BY <1>3 DEF Catalog
<1> HIDE DEF d
<1>5. s \in Slots(Catalog) /\ s.db # None /\ Matched(s) /\ Shown(s) = d
  BY <1>2, <1>4, CommitSlot, NoneAssumption
<1> HIDE DEF s
<1>6. DiskInv' /\ Found' = d /\ Found = c /\ ~Found.legacy
  BY <1>1, <1>2, <1>4, <1>5, LiveCatalog
<1>7. \A v \in Wiretap : Rows(v)' = Rows(v)
  BY <1>1, <1>4, <1>6 DEF Rows
<1>8. Stored(w)' = [Stored(w) EXCEPT !.settings = @ + 1]
  BY <1>1, <1>2, <1>4, <1>6, <1>7 DEF Stored
<1>9. \A v \in Wiretap \ {w} : Stored(v)' = Stored(v)
  BY <1>1, <1>2, <1>4, <1>6, <1>7 DEF Stored
<1> QED
  BY <1>6, <1>8, <1>9 DEF Store!Update

-----------------------------------------------------------------------------
(* The end of the export. *)

\* Closing the old database folds its log and those the DETACHes have left.
LEMMA StepCloseLegacy == DiskInv /\ CloseLegacy => DiskInv' /\ Kept
<1> SUFFICES ASSUME DiskInv, CloseLegacy PROVE DiskInv' /\ Kept
  OBVIOUS
<1> USE NoneAssumption DEF DiskInv
<1>1. /\ UNCHANGED <<copy, todo, expired, faults>> /\ pc = "export" /\ pc' = "remove" /\ todo = {}
      /\ \A w \in Wiretap : copy[w] = "idle"
      /\ cat' = [cat EXCEPT !["live"] = Fold(cat["live"])]
      /\ wt' = [w \in Wiretap |-> [wt[w] EXCEPT !["live"] = Fold(wt[w]["live"])]]
  BY DEF CloseLegacy, Goto
<1>2. /\ cat["live"] \in Slots(Catalog) /\ cat["live"].db # None /\ Matched(cat["live"])
      /\ Found.legacy /\ Found.listed = Wiretap
  BY <1>1 DEF TypeOK, LogsMatch, CatalogHolds
<1>3. /\ cat'["live"] \in Slots(Catalog) /\ cat'["live"].db # None /\ Matched(cat'["live"])
      /\ Shown(cat'["live"]) = Shown(cat["live"]) /\ cat'["live"].wal = None
      /\ cat'["new"] = cat["new"] /\ cat'["backup"] = cat["backup"]
      /\ cat' = [p \in {"live", "new", "backup"} |-> cat'[p]]
  BY <1>1, <1>2, FoldSlot DEF TypeOK
<1>4. Found' = Found
  BY <1>2, <1>3 DEF Found
<1>5. \A w \in Wiretap :
        /\ wt'[w] \in [{"live", "compact"} -> Slots(Data)] /\ Matched(wt'[w]["live"])
        /\ wt'[w]["live"].db # None /\ Shown(wt'[w]["live"]) = Found.tables[w]
  <2> TAKE w \in Wiretap
  <2>1. /\ wt[w] \in [{"live", "compact"} -> Slots(Data)] /\ Matched(wt[w]["live"])
        /\ wt[w]["live"] \in Slots(Data)
    BY DEF TypeOK, LogsMatch
  <2>2. wt[w]["live"].db # None /\ Shown(wt[w]["live"]) = Found.tables[w]
    BY <1>1 DEF SplitHolds, Exported
  <2>3. wt'[w] = [wt[w] EXCEPT !["live"] = Fold(wt[w]["live"])]
    BY <1>1
  <2> QED
    BY <2>1, <2>2, <2>3, FoldSlot
<1>6. CopyHolds'
  BY <1>1, IdleCopies
<1>7. TypeOK' /\ LogsMatch'
  <2>1. cat' \in [{"live", "new", "backup"} -> Slots(Catalog)]
    BY <1>3 DEF TypeOK
  <2>2. wt' \in [Wiretap -> [{"live", "compact"} -> Slots(Data)]]
    BY <1>1, <1>5
  <2> QED
    BY <1>1, <1>3, <1>5, <2>1, <2>2 DEF TypeOK, LogsMatch, Starting
<1>8. SplitComplete'
  BY <1>2, <1>3, <1>4, <1>5 DEF SplitComplete
<1>9. CatalogHolds'
  BY <1>1, <1>2, <1>3, <1>4 DEF CatalogHolds, Splitting
<1>10. SplitHolds'
  BY <1>1, <1>4, <1>5 DEF SplitHolds, Exported, Splitting
<1>11. \A w \in Wiretap : Rows(w)' = Rows(w)
  BY <1>2, <1>4 DEF Rows
<1>12. Kept
  BY <1>1, <1>4, <1>11, KeptRows
<1> QED
  BY <1>6, <1>7, <1>8, <1>9, <1>10, <1>12

-----------------------------------------------------------------------------
(* Every step, and the theorems. *)

\* Where nothing changes, nothing is lost.
LEMMA StepNone == DiskInv /\ UNCHANGED vars => DiskInv' /\ Kept
<1> SUFFICES ASSUME DiskInv, UNCHANGED vars PROVE DiskInv' /\ Kept
  OBVIOUS
<1>1. UNCHANGED <<cat, wt, pc, copy, todo, expired, faults>>
  BY DEF vars, disk
<1>2. DiskInv'
  <2>1. TypeOK' /\ LogsMatch'
    BY <1>1 DEF DiskInv, TypeOK, LogsMatch
  <2>2. Found' = Found
    BY <1>1 DEF Found
  <2>3. SplitComplete' /\ CatalogHolds' /\ SplitHolds'
    BY <1>1, <2>2 DEF DiskInv, SplitComplete, CatalogHolds, SplitHolds, Exported
  <2>4. Exporting' = Exporting /\ Dest' = Dest /\ \A w \in Wiretap : Source(w)' = Source(w)
    BY <1>1 DEF Exporting, Dest, Source
  <2>5. CopyHolds'
    BY <1>1, <2>4 DEF DiskInv, CopyHolds, CopyHeld
  <2> QED
    BY <2>1, <2>3, <2>5 DEF DiskInv
<1>3. Kept
  BY <1>1 DEF Kept, Stored, Rows, Found
<1> QED
  BY <1>2, <1>3

\* A step preserves the invariant, and is a call on the store or none.
LEMMA StepDisk == DiskInv /\ [Next]_vars => DiskInv' /\ (Kept \/ Store!Next)
<1> SUFFICES ASSUME DiskInv, [Next]_vars PROVE DiskInv' /\ (Kept \/ Store!Next)
  OBVIOUS
<1>1. CASE Startup
  BY <1>1, StepStart, StepRecover, StepCloseLegacy, StepNew, StepBackup, StepSwapCatalog DEF Startup, Rebuild
<1>2. CASE StartFails \/ Crash \/ CheckpointCatalog
  BY <1>2, StepStartFails, StepCrash, StepCheckpointCatalog
<1>3. ASSUME NEW w \in Wiretap, Copying(w) \/ Swap(w) PROVE DiskInv' /\ Kept
  BY <1>3, StepBeginCopy, StepCreateDest, StepCopySpan, StepCopyMarks, StepDetach, StepSwap DEF Copying
<1>4. ASSUME NEW w \in Wiretap, Running(w) PROVE DiskInv' /\ (Kept \/ Store!Next)
  <2>1. CASE UpdateRow(w)
    BY <2>1, StepUpdate DEF Store!Next
  <2>2. CASE Checkpoint(w) \/ CopyFails(w) \/ SwapFails(w)
    BY <2>2, StepCheckpoint, StepCopyFails
  <2>3. ASSUME NEW l \in Load, Ingest(w, l) \/ Expire(w, l) PROVE DiskInv' /\ Store!Next
    BY <2>3, StepIngest, StepExpire DEF Store!Next
  <2> QED
    BY <1>4, <2>1, <2>2, <2>3 DEF Running
<1>5. CASE UNCHANGED vars
  BY <1>5, StepNone
<1> QED
  BY <1>1, <1>2, <1>3, <1>4, <1>5 DEF Next

(* However often the program is cut short, and wherever, what is found in   *)
(* the directory fits together (OpenAt, rebuildCatalog, swapWiretapFile).   *)
THEOREM DiskCorrect == Spec => []DiskInv
<1>1. DiskInv /\ [Next]_vars => DiskInv'
  BY StepDisk
<1> QED
  BY <1>1, InitDisk, PTL DEF Spec

(* The small catalog takes the old database's place only when every         *)
(* wiretap has its file, and the old database is kept whole                 *)
(* (rebuildCatalog, legacyBackupPath).                                      *)
THEOREM SplitKept == Spec => []SplitComplete
<1>1. DiskInv => SplitComplete
  BY DEF DiskInv
<1> QED
  BY <1>1, DiskCorrect, PTL

(* What the store holds of a wiretap changes when a call changes it, and    *)
(* at no other time: not when a file is compacted or the old database is    *)
(* split, and not when the program dies in between.                         *)
THEOREM DiskImplements == Spec => Implements
<1>1. Init => Store!Init
  <2> SUFFICES ASSUME Init, NEW w \in Wiretap PROVE Stored(w) \in Store!Contents
    BY DEF Store!Init, Store!TypeOK
  <2>1. DiskInv
    BY InitDisk
  <2>2. Found \in Catalog /\ Found.listed = Wiretap
    <3>1. cat["live"] \in Slots(Catalog) /\ cat["new"] \in Slots(Catalog)
      BY <2>1 DEF DiskInv, TypeOK
    <3> QED
      BY <2>1, <3>1, ShownTyped DEF DiskInv, CatalogHolds, Found
  <2>3. Rows(w) \in Data
    <3>1. wt[w]["live"] \in Slots(Data)
      BY <2>1 DEF DiskInv, TypeOK
    <3>2. Found.tables[w] \in Data
      BY <2>2 DEF Catalog
    <3> QED
      BY <3>1, <3>2, NewTyped, ShownTyped DEF Rows
  <2>4. expired[w] \in SUBSET Load /\ Found.settings[w] \in Nat
    BY <2>1, <2>2 DEF DiskInv, TypeOK, Catalog
  <2> QED
    BY <2>2, <2>3, <2>4 DEF Stored, Data, Store!Contents
<1>2. DiskInv /\ [Next]_vars => [Store!Next]_[w \in Wiretap |-> Stored(w)]
  <2>1. Kept => [w \in Wiretap |-> Stored(w)]' = [w \in Wiretap |-> Stored(w)]
    BY DEF Kept
  <2> QED
    BY <2>1, StepDisk
<1> QED
  BY <1>1, <1>2, DiskCorrect, PTL DEF Spec, Implements, Store!Spec
=============================================================================
