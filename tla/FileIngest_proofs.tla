-------------------------- MODULE FileIngest_proofs -------------------------
(***************************************************************************)
(* Proofs about FileIngest, for every set of files and loaders, every      *)
(* number of chunks and of faults.                                         *)
(***************************************************************************)
EXTENDS FileIngest, TLAPS

\* Nothing is loaded, and nothing is marked.
LEMMA InitIngest == Init => IngestInv
BY ChunksAssumption, FaultsAssumption, LoadersAssumption
   DEF Init, IngestInv, LoadersHold, MarksHold, TypeOK, Labels, At, NoDuplicateRows, Chunks

\* Each transaction, failure and crash leaves the invariant true.
LEMMA StepIngest == IngestInv /\ [Next]_vars => IngestInv'
<1> SUFFICES ASSUME IngestInv, [Next]_vars PROVE IngestInv'
  OBVIOUS
<1> USE ChunksAssumption, FaultsAssumption, LoadersAssumption
    DEF IngestInv, TypeOK, Labels, At, Goto, Chunks, durable, Leave
<1>1. ASSUME NEW l \in Loaders, NEW f \in Files, Check(l, f) PROVE IngestInv'
  <2>1. TypeOK'
    BY <1>1 DEF Check
  <2>2. LoadersHold'
    BY <1>1, <2>1 DEF Check, LoadersHold
  <2>3. NoDuplicateRows'
    BY <1>1 DEF Check, LoadersHold, NoDuplicateRows
  <2>4. MarksHold'
    BY <1>1, <2>1 DEF Check, LoadersHold, MarksHold, Complete
  <2> QED
    BY <2>1, <2>2, <2>3, <2>4
<1>2. ASSUME NEW l \in Loaders, Lock(l) PROVE IngestInv'
  <2>1. TypeOK'
    BY <1>2 DEF Lock
  <2>2. LoadersHold'
    BY <1>2, <2>1 DEF Lock, LoadersHold
  <2>3. NoDuplicateRows'
    BY <1>2 DEF Lock, LoadersHold, NoDuplicateRows
  <2>4. MarksHold'
    BY <1>2, <2>1 DEF Lock, LoadersHold, MarksHold, Complete
  <2> QED
    BY <2>1, <2>2, <2>3, <2>4
<1>3. ASSUME NEW l \in Loaders, DeleteRows(l) PROVE IngestInv'
  <2>1. TypeOK'
    BY <1>3 DEF DeleteRows
  <2>2. LoadersHold'
    BY <1>3, <2>1 DEF DeleteRows, LoadersHold
  <2>3. NoDuplicateRows'
    BY <1>3 DEF DeleteRows, LoadersHold, NoDuplicateRows
  <2>4. MarksHold'
    <3> SUFFICES ASSUME NEW f \in marked', f \notin torn'
                 PROVE  Complete(f)' \/ \E k \in Loaders : At(k, "unmark")' /\ cur'[k] = f
      BY DEF MarksHold
    <3>1. f \in Files /\ f \in marked /\ f \notin torn
      BY <1>3 DEF DeleteRows
    <3>2. CASE f = cur[l]
      BY <1>3, <3>2 DEF DeleteRows
    <3>3. CASE f # cur[l]
      <4>1. rows'[f] = rows[f] /\ expired'[f] = expired[f]
        BY <1>3, <3>1, <3>3 DEF DeleteRows
      <4>2. \A k \in Loaders : At(k, "unmark") /\ cur[k] = f => At(k, "unmark")' /\ cur'[k] = f
        BY <1>3, <3>3 DEF DeleteRows
      <4> QED
        BY <3>1, <4>1, <4>2 DEF MarksHold, Complete
    <3> QED
      BY <3>2, <3>3
  <2> QED
    BY <2>1, <2>2, <2>3, <2>4
<1>4. ASSUME NEW l \in Loaders, DeleteMark(l) PROVE IngestInv'
  <2>1. TypeOK'
    BY <1>4 DEF DeleteMark
  <2>2. LoadersHold'
    <3> SUFFICES ASSUME NEW k \in Loaders
                 PROVE  /\ lock' = k <=> pc'[k] \in {"clear", "unmark", "append"}
                        /\ cur'[k] = None <=> At(k, "idle")'
                        /\ ~At(k, "append")' => next'[k] = 1
                        /\ At(k, "append")' => cur'[k] \notin marked' \cup torn'
                        /\ At(k, "unmark")' => \A i \in Chunks : rows'[cur'[k]][i] = 0
                        /\ At(k, "append")' =>
                             \A i \in Chunks : rows'[cur'[k]][i] = IF i < next'[k] THEN 1 ELSE 0
      BY DEF LoadersHold
    <3>1. UNCHANGED <<rows, lock, cur, next>>
      BY <1>4 DEF DeleteMark
    <3>2. lock = l /\ next[l] = 1 /\ \A i \in Chunks : rows[cur[l]][i] = 0
      BY <1>4 DEF DeleteMark, LoadersHold
    <3>3. CASE k = l
      <4>1. pc'[k] = "append" /\ cur[k] \notin marked' \cup torn'
        BY <1>4, <3>3 DEF DeleteMark
      <4>2. \A i \in Chunks : ~(i < 1)
        OBVIOUS
      <4> QED
        BY <3>1, <3>2, <3>3, <4>1, <4>2 DEF LoadersHold
    <3>4. CASE k # l
      <4>1. pc'[k] = pc[k] /\ pc[k] \notin {"clear", "unmark", "append"}
        BY <1>4, <3>2, <3>4 DEF DeleteMark, LoadersHold
      <4> QED
        BY <3>1, <4>1 DEF LoadersHold
    <3> QED
      BY <3>3, <3>4
  <2>3. NoDuplicateRows'
    BY <1>4 DEF DeleteMark, LoadersHold, NoDuplicateRows
  <2>4. MarksHold'
    BY <1>4, <2>1 DEF DeleteMark, LoadersHold, MarksHold, Complete
  <2> QED
    BY <2>1, <2>2, <2>3, <2>4
<1>5. ASSUME NEW l \in Loaders, Append(l) PROVE IngestInv'
  <2>1. TypeOK'
    BY <1>5 DEF Append, LoadersHold
  <2>2. LoadersHold'
    BY <1>5, <2>1 DEF Append, LoadersHold
  <2>3. NoDuplicateRows'
    BY <1>5 DEF Append, LoadersHold, NoDuplicateRows
  <2>4. MarksHold'
    <3> SUFFICES ASSUME NEW f \in marked', f \notin torn'
                 PROVE  Complete(f)' \/ \E k \in Loaders : At(k, "unmark")' /\ cur'[k] = f
      BY DEF MarksHold
    <3>1. f \in Files /\ f \in marked /\ f \notin torn /\ f # cur[l]
      BY <1>5 DEF Append, LoadersHold
    <3>2. rows'[f] = rows[f] /\ expired'[f] = expired[f]
      BY <1>5, <3>1 DEF Append
    <3>3. UNCHANGED <<pc, cur>>
      BY <1>5 DEF Append
    <3> QED
      BY <3>1, <3>2, <3>3 DEF MarksHold, Complete
  <2> QED
    BY <2>1, <2>2, <2>3, <2>4
<1>6. ASSUME NEW l \in Loaders, Mark(l) PROVE IngestInv'
  <2>1. TypeOK'
    BY <1>6 DEF Mark, LoadersHold
  <2>2. LoadersHold'
    BY <1>6, <2>1 DEF Mark, LoadersHold
  <2>3. NoDuplicateRows'
    BY <1>6 DEF Mark, LoadersHold, NoDuplicateRows
  <2>4. MarksHold'
    <3> SUFFICES ASSUME NEW f \in marked', f \notin torn'
                 PROVE  Complete(f)' \/ \E k \in Loaders : At(k, "unmark")' /\ cur'[k] = f
      BY DEF MarksHold
    <3>1. UNCHANGED <<rows, expired>> /\ f \in Files /\ f \notin torn
      BY <1>6 DEF Mark, LoadersHold
    <3>2. CASE f = cur[l]
      <4>1. \A i \in Chunks : rows[f][i] = 1
        BY <1>6, <3>2 DEF Mark, LoadersHold
      <4> QED
        BY <3>1, <4>1 DEF Complete
    <3>3. CASE f # cur[l]
      <4>1. f \in marked
        BY <1>6, <3>3 DEF Mark
      <4>2. \A k \in Loaders : At(k, "unmark") => At(k, "unmark")' /\ cur'[k] = cur[k]
        BY <1>6 DEF Mark
      <4>3. Complete(f) => Complete(f)'
        BY <3>1 DEF Complete
      <4>4. Complete(f) \/ \E k \in Loaders : At(k, "unmark") /\ cur[k] = f
        BY <3>1, <4>1 DEF MarksHold
      <4> QED
        BY <4>2, <4>3, <4>4
    <3> QED
      BY <3>2, <3>3
  <2> QED
    BY <2>1, <2>2, <2>3, <2>4
<1>7. ASSUME NEW l \in Loaders, Fail(l) PROVE IngestInv'
  <2>1. TypeOK'
    BY <1>7 DEF Fail, Tear, LoadersHold
  <2>2. LoadersHold'
    BY <1>7, <2>1 DEF Fail, Tear, LoadersHold
  <2>3. NoDuplicateRows'
    BY <1>7 DEF Fail, Tear, LoadersHold, NoDuplicateRows
  <2>4. MarksHold'
    <3> SUFFICES ASSUME NEW f \in marked', f \notin torn'
                 PROVE  Complete(f)' \/ \E k \in Loaders : At(k, "unmark")' /\ cur'[k] = f
      BY DEF MarksHold
    <3>1. UNCHANGED <<rows, expired, marked>> /\ f \in Files /\ f \notin torn
      BY <1>7 DEF Fail, Tear
    <3>2. At(l, "unmark") => cur[l] # f
      BY <1>7 DEF Fail, Tear
    <3>3. \A k \in Loaders \ {l} : At(k, "unmark") => At(k, "unmark")' /\ cur'[k] = cur[k]
      BY <1>7 DEF Fail
    <3>4. Complete(f) => Complete(f)'
      BY <3>1 DEF Complete
    <3>5. Complete(f) \/ \E k \in Loaders : At(k, "unmark") /\ cur[k] = f
      BY <3>1 DEF MarksHold
    <3> QED
      BY <3>2, <3>3, <3>4, <3>5
  <2> QED
    BY <2>1, <2>2, <2>3, <2>4
<1>8. CASE Crash
  <2>1. TypeOK'
    BY <1>8 DEF Crash, Tear, LoadersHold
  <2>2. LoadersHold'
    BY <1>8, <2>1 DEF Crash, Tear, LoadersHold
  <2>3. NoDuplicateRows'
    BY <1>8 DEF Crash, Tear, LoadersHold, NoDuplicateRows
  <2>4. MarksHold'
    <3> SUFFICES ASSUME NEW f \in marked', f \notin torn'
                 PROVE  Complete(f)' \/ \E k \in Loaders : At(k, "unmark")' /\ cur'[k] = f
      BY DEF MarksHold
    <3>1. UNCHANGED <<rows, expired, marked>> /\ f \in Files /\ f \notin torn
      BY <1>8 DEF Crash, Tear
    <3>2. \A k \in Loaders : At(k, "unmark") => cur[k] # f
      BY <1>8 DEF Crash, Tear
    <3> QED
      BY <3>1, <3>2 DEF MarksHold, Complete
  <2> QED
    BY <2>1, <2>2, <2>3, <2>4
<1>9. CASE Retain
  <2>1. TypeOK'
    BY <1>9 DEF Retain, DeleteOld
  <2>2. LoadersHold'
    BY <1>9, <2>1 DEF Retain, DeleteOld, LoadersHold
  <2>3. NoDuplicateRows'
    BY <1>9 DEF Retain, DeleteOld, LoadersHold, NoDuplicateRows
  <2>4. MarksHold'
    <3> SUFFICES ASSUME NEW f \in marked', f \notin torn'
                 PROVE  Complete(f)' \/ \E k \in Loaders : At(k, "unmark")' /\ cur'[k] = f
      BY DEF MarksHold
    <3>1. f \in Files /\ f \in marked /\ f \notin torn
      BY <1>9 DEF Retain, DeleteOld
    <3>2. Complete(f)
      BY <1>9, <3>1 DEF Retain, DeleteOld, MarksHold, LoadersHold
    <3>3. PICK old \in [Files -> SUBSET Chunks] :
            /\ rows' = [g \in Files |-> [i \in Chunks |-> IF i \in old[g] THEN 0 ELSE rows[g][i]]]
            /\ expired' = [g \in Files |-> expired[g] \cup old[g]]
      BY <1>9 DEF Retain, DeleteOld
    <3> QED
      BY <3>1, <3>2, <3>3 DEF Complete
  <2> QED
    BY <2>1, <2>2, <2>3, <2>4
<1>10. CASE UNCHANGED vars
  <2>1. TypeOK'
    BY <1>10 DEF vars
  <2>2. LoadersHold'
    BY <1>10, <2>1 DEF vars, LoadersHold
  <2>3. NoDuplicateRows'
    BY <1>10 DEF vars, LoadersHold, NoDuplicateRows
  <2>4. MarksHold'
    BY <1>10, <2>1 DEF vars, LoadersHold, MarksHold, Complete
  <2> QED
    BY <2>1, <2>2, <2>3, <2>4
<1> QED
  BY <1>1, <1>2, <1>3, <1>4, <1>5, <1>6, <1>7, <1>8, <1>9, <1>10 DEF Next, Commit

\* A loader knows what it has stored and what it still holds, and the marks and
\* rows of a file agree with it, however loads, failures and crashes interleave.
THEOREM IngestCorrect == Spec => []IngestInv
BY InitIngest, StepIngest, PTL DEF Spec

\* However many loaders load a file however often, and wherever they fail or the
\* program dies, no line of it is in the table twice.
THEOREM NoDuplicates == Spec => []NoDuplicateRows
<1>1. IngestInv => NoDuplicateRows
  BY DEF IngestInv
<1> QED
  BY <1>1, IngestCorrect, PTL

\* A marked file is complete but for what retention removed, unless a commit of
\* it stopped between its two deletes.
THEOREM MarksKept == Spec => []MarkedUnlessTorn
<1>1. IngestInv => MarkedUnlessTorn
  BY LoadersAssumption DEF IngestInv, LoadersHold, MarksHold, TypeOK, MarkedUnlessTorn,
     Committing, At
<1> QED
  BY <1>1, IngestCorrect, PTL

(***************************************************************************)
(* WholeFiles is implemented.                                              *)
(***************************************************************************)
Mapped == <<Whole, Copies>>

\* A step that keeps the files that count, and their rows, does not show.
LEMMA SameFiles ==
  ASSUME Whole' = Whole, \A f \in Whole : rows'[f] = rows[f]
  PROVE  UNCHANGED Mapped
<1>1. \A f \in Files, i \in Chunks :
        (IF f \in Whole THEN rows[f][i] ELSE 0) = IF f \in Whole' THEN rows'[f][i] ELSE 0
  OBVIOUS
<1> QED
  BY <1>1, Zenon DEF Copies, Mapped

\* Steps that move no mark and delete no rows.
LEMMA QuietMaps ==
  ASSUME IngestInv, UNCHANGED <<rows, marked, torn>>,
         \A k \in Loaders : At(k, "unmark")' <=> At(k, "unmark"),
         \A k \in Loaders : At(k, "unmark") => cur'[k] = cur[k]
  PROVE  UNCHANGED Mapped
<1>1. {cur'[k] : k \in {j \in Loaders : At(j, "unmark")'}}
        = {cur[k] : k \in {j \in Loaders : At(j, "unmark")}}
  OBVIOUS
<1>2. Whole' = Whole
  BY <1>1, Zenon DEF Whole
<1> QED
  BY <1>2, SameFiles

\* The deletion of a file's rows takes the file out, if it is in.
LEMMA DeleteRowsMaps ==
  ASSUME IngestInv, NEW l \in Loaders, DeleteRows(l)
  PROVE  (\E f \in Files : Promise!Reload(f)) \/ UNCHANGED Mapped
<1> DEFINE f == cur[l]
<1>1. /\ pc' = [pc EXCEPT ![l] = "unmark"] /\ At(l, "clear")
      /\ rows' = [rows EXCEPT ![f] = [i \in Chunks |-> 0]]
      /\ UNCHANGED <<marked, torn, cur>>
  BY DEF DeleteRows, Goto
<1>2. f \in Files
  BY <1>1, LoadersAssumption DEF IngestInv, TypeOK, LoadersHold, At
<1>3. \A k \in Loaders : At(k, "unmark")' <=> At(k, "unmark") \/ k = l
  BY <1>1 DEF IngestInv, TypeOK, At, Labels
<1>4. Whole' = Whole \ {f}
  <2>1. {cur'[k] : k \in {j \in Loaders : At(j, "unmark")'}}
          = {cur[k] : k \in {j \in Loaders : At(j, "unmark")}} \cup {f}
    BY <1>1, <1>3
  <2> QED
    BY <1>1, <2>1 DEF Whole
<1>5. \A g \in Files : g # f => rows'[g] = rows[g]
  BY <1>1 DEF IngestInv, TypeOK
<1>6. Whole \subseteq Files
  BY DEF IngestInv, TypeOK, Whole
<1>7. CASE f \in Whole
  <2>1. \A g \in Files, i \in Chunks :
          (IF g \in Whole' THEN rows'[g][i] ELSE 0)
            = IF g = f THEN 0 ELSE IF g \in Whole THEN rows[g][i] ELSE 0
    BY <1>4, <1>5
  <2>2. Copies' = [Copies EXCEPT ![f] = [i \in Chunks |-> 0]]
    BY <1>2, <2>1 DEF Copies
  <2> QED
    BY <1>2, <1>4, <1>7, <2>2, Zenon DEF Promise!Reload, Promise!Nought
<1>8. CASE f \notin Whole
  <2>1. Whole' = Whole /\ \A g \in Whole : rows'[g] = rows[g]
    BY <1>4, <1>5, <1>6, <1>8
  <2> QED
    BY <2>1, SameFiles
<1> QED
  BY <1>7, <1>8

\* The deletion of its mark does not show any more.
LEMMA DeleteMarkMaps ==
  ASSUME IngestInv, NEW l \in Loaders, DeleteMark(l)
  PROVE  UNCHANGED Mapped
<1>1. /\ pc' = [pc EXCEPT ![l] = "append"] /\ At(l, "unmark")
      /\ marked' = marked \ {cur[l]} /\ torn' = torn \ {cur[l]}
      /\ UNCHANGED <<rows, cur>>
  BY DEF DeleteMark, Goto
<1>2. \A k \in Loaders : At(k, "unmark")' <=> At(k, "unmark") /\ k # l
  BY <1>1 DEF IngestInv, TypeOK, At, Labels
<1>3. {cur[k] : k \in {j \in Loaders : At(j, "unmark")}}
        = {cur'[k] : k \in {j \in Loaders : At(j, "unmark")'}} \cup {cur[l]}
  BY <1>1, <1>2
<1>4. Whole' = Whole
  BY <1>1, <1>3 DEF Whole
<1> QED
  BY <1>1, <1>4, SameFiles

\* Of a file that is being appended nothing counts yet.
LEMMA AppendMaps ==
  ASSUME IngestInv, NEW l \in Loaders, Append(l)
  PROVE  UNCHANGED Mapped
<1>1. At(l, "append") /\ UNCHANGED <<marked, torn, pc, cur>>
      /\ rows' = [rows EXCEPT ![cur[l]][next[l]] = @ + 1]
  BY DEF Append
<1>2. cur[l] \notin Whole
  BY <1>1 DEF IngestInv, LoadersHold, Whole
<1>3. Whole' = Whole
  BY <1>1, Zenon DEF Whole, At
<1>4. Whole \subseteq Files
  BY DEF IngestInv, TypeOK, Whole
<1>5. \A f \in Whole : rows'[f] = rows[f]
  BY <1>1, <1>2, <1>4 DEF IngestInv, TypeOK
<1> QED
  BY <1>3, <1>5, SameFiles

\* The mark brings the file in, each of its chunks once.
LEMMA MarkMaps ==
  ASSUME IngestInv, NEW l \in Loaders, Mark(l)
  PROVE  \E f \in Files : Promise!Load(f)
<1> DEFINE f == cur[l]
<1>1. /\ At(l, "append") /\ next[l] = NChunks + 1
      /\ pc' = [pc EXCEPT ![l] = "idle"] /\ cur' = [cur EXCEPT ![l] = None]
      /\ marked' = marked \cup {f}
      /\ UNCHANGED <<rows, torn>>
  BY DEF Mark, Leave, Goto
<1>2. f \in Files /\ f \notin marked
  BY <1>1, LoadersAssumption DEF IngestInv, TypeOK, LoadersHold, At
<1>3. \A i \in Chunks : rows[f][i] = 1
  BY <1>1, ChunksAssumption DEF IngestInv, LoadersHold, Chunks
<1>4. lock = l /\ \A k \in Loaders : ~At(k, "unmark")
  BY <1>1 DEF IngestInv, LoadersHold, At
<1>5. \A k \in Loaders : ~At(k, "unmark")'
  BY <1>1, <1>4 DEF IngestInv, TypeOK, At
<1>6. Whole = marked \ torn /\ Whole' = marked' \ torn'
  BY <1>4, <1>5 DEF Whole
<1>7. f \notin torn
  BY <1>1 DEF IngestInv, LoadersHold
<1>8. Whole' = Whole \cup {f} /\ f \notin Whole
  BY <1>1, <1>2, <1>6, <1>7
<1>9. \A g \in Files, i \in Chunks :
        (IF g \in Whole' THEN rows'[g][i] ELSE 0)
          = IF g = f THEN 1 ELSE IF g \in Whole THEN rows[g][i] ELSE 0
  BY <1>1, <1>3, <1>8
<1>10. Copies' = [Copies EXCEPT ![f] = [i \in Chunks |-> 1]]
  BY <1>2, <1>9 DEF Copies
<1> QED
  BY <1>2, <1>8, <1>10, Zenon DEF Promise!Load, Promise!Once

\* The image of a set is that of its parts, and of a function that agrees there.
LEMMA Images ==
  ASSUME NEW S, NEW T, NEW F, NEW G, \A k \in S : F[k] = G[k]
  PROVE  {F[k] : k \in S} \cup {G[k] : k \in T} = {G[k] : k \in S \cup T}
OBVIOUS

\* A commit that breaks off after the first delete leaves its file out.
LEMMA FailMaps ==
  ASSUME IngestInv, NEW l \in Loaders, Fail(l)
  PROVE  UNCHANGED Mapped
<1>1. /\ pc' = [pc EXCEPT ![l] = "idle"] /\ cur' = [cur EXCEPT ![l] = None]
      /\ UNCHANGED <<rows, marked>>
      /\ torn' = torn \cup {cur[k] : k \in {j \in {l} : At(j, "unmark")}}
  BY DEF Fail, Tear, Leave, Goto
<1>2. \A k \in Loaders : /\ At(k, "unmark")' <=> At(k, "unmark") /\ k # l
                         /\ k # l => cur'[k] = cur[k]
  BY <1>1 DEF IngestInv, TypeOK, At
<1> DEFINE Un   == {j \in Loaders : At(j, "unmark")}
           Mine == {j \in {l} : At(j, "unmark")}
<1>3. torn' \cup {cur'[k] : k \in Un'} = torn \cup {cur[k] : k \in Un}
  <2>1. \A k \in Un' : cur'[k] = cur[k]
    BY <1>2
  <2>2. Un' \cup Mine = Un
    BY <1>2
  <2>3. torn' = torn \cup {cur[k] : k \in Mine}
    BY <1>1
  <2> HIDE DEF Un, Mine
  <2>4. {cur'[k] : k \in Un'} \cup {cur[k] : k \in Mine} = {cur[k] : k \in Un}
    BY <2>1, <2>2, Images
  <2> QED
    BY <2>3, <2>4
<1>4. Whole' = Whole
  BY <1>1, <1>3 DEF Whole
<1> QED
  BY <1>1, <1>4, SameFiles

\* So does the end of the program.
LEMMA CrashMaps ==
  ASSUME IngestInv, Crash
  PROVE  UNCHANGED Mapped
<1>1. /\ pc' = [l \in Loaders |-> "idle"] /\ UNCHANGED <<rows, marked>>
      /\ torn' = torn \cup {cur[k] : k \in {j \in Loaders : At(j, "unmark")}}
  BY DEF Crash, Tear
<1>2. \A k \in Loaders : ~At(k, "unmark")'
  BY <1>1 DEF At
<1>3. Whole' = Whole
  BY <1>1, <1>2 DEF Whole
<1> QED
  BY <1>1, <1>3, SameFiles

\* The age limit meets whole files only, since it waits for the write lock.
LEMMA RetainMaps ==
  ASSUME IngestInv, Retain
  PROVE  \E old \in [Files -> SUBSET Chunks] : Promise!Expire(old)
<1>1. PICK old \in [Files -> SUBSET Chunks] :
        rows' = [f \in Files |-> [i \in Chunks |-> IF i \in old[f] THEN 0 ELSE rows[f][i]]]
  BY DEF Retain, DeleteOld
<1>2. UNCHANGED <<marked, torn, pc, cur>>
  BY DEF Retain, DeleteOld
<1>3. Whole' = Whole
  BY <1>2, Zenon DEF Whole, At
<1>4. \A f \in Files, i \in Chunks :
        (IF f \in Whole' THEN rows'[f][i] ELSE 0) = IF i \in old[f] THEN 0 ELSE Copies[f][i]
  BY <1>1, <1>3 DEF Copies
<1>5. Copies' = [f \in Files |-> [i \in Chunks |-> IF i \in old[f] THEN 0 ELSE Copies[f][i]]]
  BY <1>4, Zenon DEF Copies
<1> QED
  BY <1>3, <1>5, Zenon DEF Promise!Expire

\* Every step is one of WholeFiles', or does not show.
LEMMA StepPromise ==
  ASSUME IngestInv, [Next]_vars
  PROVE  Promise!Next \/ UNCHANGED Mapped
<1>1. ASSUME NEW l \in Loaders, NEW f \in Files, Check(l, f) PROVE UNCHANGED Mapped
  BY <1>1, QuietMaps DEF Check, Goto, At, durable, IngestInv, TypeOK, Labels
<1>2. ASSUME NEW l \in Loaders, Lock(l) PROVE UNCHANGED Mapped
  BY <1>2, QuietMaps DEF Lock, Goto, At, durable, IngestInv, TypeOK, Labels
<1>3. CASE \E l \in Loaders : DeleteRows(l)
  BY <1>3, DeleteRowsMaps DEF Promise!Next
<1>4. CASE \E l \in Loaders : Mark(l)
  BY <1>4, MarkMaps DEF Promise!Next
<1>5. CASE Retain
  BY <1>5, RetainMaps DEF Promise!Next
<1>6. CASE UNCHANGED vars
  BY <1>6, QuietMaps DEF vars, durable, At
<1> QED
  BY <1>1, <1>2, <1>3, <1>4, <1>5, <1>6, DeleteMarkMaps, AppendMaps, FailMaps, CrashMaps
     DEF Next, Commit

\* As far as the marks tell, a file comes whole and goes whole: a load is one step,
\* whatever its transactions, failures and crashes and those of others, and only
\* retention takes parts away.
THEOREM IngestImplements == Spec => Implements
<1>1. Init => Promise!Init
  BY DEF Init, Whole, Copies, Promise!Init, At
<1>2. IngestInv /\ [Next]_vars => [Promise!Next]_Mapped
  BY StepPromise
<1> QED
  BY <1>1, <1>2, IngestCorrect, PTL DEF Spec, Implements, Promise!Spec, Promise!vars, Mapped
=============================================================================
