------------------------ MODULE WiretapHandles_proofs -----------------------
(***************************************************************************)
(* Proofs about WiretapHandles, for every set of goroutines and handles.   *)
(***************************************************************************)
EXTENDS WiretapHandles, TLAPS

\* In the initial state nobody holds a lock or a handle.
LEMMA InitLocks == Init => LockDiscipline
<1> SUFFICES ASSUME Init PROVE LockDiscipline
  OBVIOUS
<1>1. TypeOK
  BY DEF Init, TypeOK, Labels
<1>2. LockState
  BY NoneAssumption DEF Init, LockState, HasHandle, MayHandle, SharesMu, ExcludesMu, InCompact, HoldsWriteMu
<1> QED
  BY <1>1, <1>2 DEF LockDiscipline

\* closeHandle empties the map and leaves the sets of handles sets of handles.
LEMMA CloseMappedTyped ==
  ASSUME TypeOK, CloseMapped
  PROVE  /\ closed' \subseteq Handles /\ live' \subseteq Handles
         /\ map' = None
         /\ closed \subseteq closed' /\ map # None => map \in closed'
         /\ \A h \in Handles : h \in closed' => h \in closed \/ h = map
BY NoneAssumption DEF TypeOK, CloseMapped

\* Every step takes and releases locks exactly as it moves the goroutine.
LEMMA StepLocks == LockDiscipline /\ [Next]_vars => LockDiscipline'
<1> SUFFICES ASSUME LockDiscipline, [Next]_vars PROVE LockDiscipline'
  OBVIOUS
<1> USE NoneAssumption, OpsAssumption
    DEF LockDiscipline, LockState, TypeOK, Labels, OpKinds, WriteOps, HasHandle, MayHandle, SharesMu,
        ExcludesMu, InCompact, HoldsWriteMu, disk, inst, locks, At, Goto, Holds, Return, Release,
        AfterHandle, MuShareable, UnlockMu, SwapFails, DbMuFree
<1>1. ASSUME NEW p \in Procs, FindHandle(p) PROVE LockDiscipline'
  BY <1>1 DEF FindHandle
<1>2. ASSUME NEW p \in Procs, NoFile(p) PROVE LockDiscipline'
  BY <1>2 DEF NoFile
<1>3. ASSUME NEW p \in Procs, BeginOpen(p) PROVE LockDiscipline'
  BY <1>3 DEF BeginOpen
<1>4. ASSUME NEW p \in Procs, OpenFile(p) PROVE LockDiscipline'
  <2>1. PICK h \in Handles :
          /\ \A q \in Procs : hnd[q] # h
          /\ closed' = closed \ {h} /\ invalid' = invalid \ {h}
          /\ live' = live \cup {h}
          /\ map' = h /\ hnd' = [hnd EXCEPT ![p] = h]
    BY <1>4 DEF OpenFile
  <2>2. /\ pc[p] = "opening" /\ hnd[p] = None
        /\ pc' = [pc EXCEPT ![p] = pc'[p]]
        /\ pc'[p] \in {"mu", "creating", "writeMu"} /\ (pc'[p] = "mu" => op[p] = "read")
    BY <1>4 DEF OpenFile
  <2>3. TypeOK'
    <3>1. pc' \in [Procs -> Labels] /\ hnd' \in [Procs -> Handles \cup {None}]
      BY <2>1, <2>2
    <3>2. live' \subseteq Handles /\ closed' \subseteq Handles /\ invalid' \subseteq Handles
      BY <2>1
    <3> QED
      BY <1>4, <2>1, <3>1, <3>2 DEF OpenFile
  <2>4. \A q \in Procs : writeMu[h] # q /\ writer[h] # q /\ q \notin readers[h]
    BY <2>1
  <2>5. LockState'
    BY <1>4, <2>1, <2>2, <2>4 DEF OpenFile
  <2> QED
    BY <2>3, <2>5
<1>5. ASSUME NEW p \in Procs, OpenFails(p) PROVE LockDiscipline'
  <2>1. file' \in BOOLEAN
    BY <1>5 DEF OpenFails
  <2>2. CASE op[p] = "create"
    <3>1. pc' = [pc EXCEPT ![p] = "lookup"] /\ UNCHANGED <<op, hnd>>
      BY <1>5, <2>2 DEF OpenFails
    <3> QED
      BY <1>5, <2>1, <3>1 DEF OpenFails
  <2>3. CASE op[p] # "create"
    <3>1. Return(p)
      BY <1>5, <2>3 DEF OpenFails
    <3> QED
      BY <1>5, <2>1, <3>1 DEF OpenFails
  <2> QED
    BY <2>2, <2>3
<1>6. ASSUME NEW p \in Procs, LockWriteMu(p) PROVE LockDiscipline'
  BY <1>6 DEF LockWriteMu
<1>7. ASSUME NEW p \in Procs, LockMu(p) PROVE LockDiscipline'
  BY <1>7 DEF LockMu
<1>8. ASSUME NEW p \in Procs, Begin(p) PROVE LockDiscipline'
  BY <1>8 DEF Begin
<1>9. ASSUME NEW p \in Procs, BeginClosed(p) PROVE LockDiscipline'
  BY <1>9 DEF BeginClosed
<1>10. ASSUME NEW p \in Procs, Finish(p) PROVE LockDiscipline'
  BY <1>10 DEF Finish
<1>11. ASSUME NEW p \in Procs, FinishInvalid(p) PROVE LockDiscipline'
  BY <1>11 DEF FinishInvalid
<1>12. ASSUME NEW p \in Procs, Heal(p) PROVE LockDiscipline'
  <2>1. CloseMapped
    BY <1>12 DEF Heal
  <2>2. closed' \subseteq Handles /\ live' \subseteq Handles /\ map' = None
    BY <2>1, CloseMappedTyped
  <2>3. TypeOK'
    BY <1>12, <2>2 DEF Heal
  <2>4. LockState'
    BY <1>12 DEF Heal
  <2> QED
    BY <2>3, <2>4
<1>13. ASSUME NEW p \in Procs, Created(p) PROVE LockDiscipline'
  BY <1>13 DEF Created
<1>14. ASSUME NEW p \in Procs, CreateFails(p) PROVE LockDiscipline'
  BY <1>14 DEF CreateFails
<1>15. ASSUME NEW p \in Procs, Copied(p) PROVE LockDiscipline'
  BY <1>15 DEF Copied
<1>16. ASSUME NEW p \in Procs, LockMuExclusive(p) PROVE LockDiscipline'
  BY <1>16 DEF LockMuExclusive
<1>17. ASSUME NEW p \in Procs, SwapClose(p) PROVE LockDiscipline'
  BY <1>17 DEF SwapClose
<1>18. ASSUME NEW p \in Procs, SwapRename(p) PROVE LockDiscipline'
  BY <1>18 DEF SwapRename
<1>19. ASSUME NEW p \in Procs, SwapReopen(p) PROVE LockDiscipline'
  BY <1>19 DEF SwapReopen
<1>20. ASSUME NEW p \in Procs, SwapStuck(p) PROVE LockDiscipline'
  BY <1>20 DEF SwapStuck
<1>21. ASSUME NEW p \in Procs, Relock(p) PROVE LockDiscipline'
  BY <1>21 DEF Relock
<1>22. ASSUME NEW p \in Procs, CompactDone(p) PROVE LockDiscipline'
  BY <1>22 DEF CompactDone
<1>23. ASSUME NEW p \in Procs, CompactFails(p) PROVE LockDiscipline'
  <2>1. CloseMapped
    BY <1>23 DEF CompactFails
  <2>2. closed' \subseteq Handles /\ live' \subseteq Handles /\ map' = None
    BY <2>1, CloseMappedTyped
  <2>3. TypeOK'
    BY <1>23, <2>2 DEF CompactFails
  <2>4. LockState'
    BY <1>23 DEF CompactFails
  <2> QED
    BY <2>3, <2>4
<1>24. ASSUME NEW p \in Procs, Lookup(p) PROVE LockDiscipline'
  BY <1>24 DEF Lookup
<1>25. ASSUME NEW p \in Procs, Drop(p) PROVE LockDiscipline'
  <2>1. CloseMapped
    BY <1>25 DEF Drop
  <2>2. closed' \subseteq Handles /\ live' \subseteq Handles /\ map' = None
    BY <2>1, CloseMappedTyped
  <2>3. TypeOK'
    BY <1>25, <2>2 DEF Drop
  <2>4. LockState'
    BY <1>25 DEF Drop
  <2> QED
    BY <2>3, <2>4
<1>26. ASSUME NEW p \in Procs, Remove(p) PROVE LockDiscipline'
  <2>1. file' \in BOOLEAN /\ live' \subseteq Handles
    BY <1>26 DEF Remove
  <2>2. CASE op[p] = "delete"
    <3>1. Return(p)
      BY <1>26, <2>2 DEF Remove
    <3> QED
      BY <1>26, <2>1, <3>1 DEF Remove
  <2>3. CASE op[p] = "create"
    <3>1. Goto(p, "deleteRow") /\ Holds(p, None) /\ UNCHANGED op
      BY <1>26, <2>3 DEF Remove
    <3> QED
      BY <1>26, <2>1, <3>1 DEF Remove
  <2> QED
    BY <1>26, <2>2, <2>3 DEF Remove
<1>27. ASSUME NEW p \in Procs, NEW o \in Ops \cap (WriteOps \cup {"read"}), Start(p, o) PROVE LockDiscipline'
  BY <1>27 DEF Start, Enter
<1>28. ASSUME NEW p \in Procs, StartCreate(p) PROVE LockDiscipline'
  BY <1>28 DEF StartCreate, Enter
<1>29. ASSUME NEW p \in Procs, StartDelete(p) PROVE LockDiscipline'
  BY <1>29 DEF StartDelete, Enter
<1>31. CASE CloseIdle
  <2>1. CloseMapped
    BY <1>31 DEF CloseIdle
  <2>2. closed' \subseteq Handles /\ live' \subseteq Handles /\ map' = None
    BY <2>1, CloseMappedTyped
  <2>3. TypeOK'
    BY <1>31, <2>2 DEF CloseIdle
  <2>4. LockState'
    BY <1>31 DEF CloseIdle
  <2> QED
    BY <2>3, <2>4
<1>32. CASE Close
  <2>1. CloseMapped
    BY <1>32 DEF Close
  <2>2. closed' \subseteq Handles /\ live' \subseteq Handles /\ map' = None
    BY <2>1, CloseMappedTyped
  <2>3. TypeOK'
    BY <1>32, <2>2 DEF Close
  <2>4. LockState'
    BY <1>32 DEF Close
  <2> QED
    BY <2>3, <2>4
<1>33. ASSUME NEW h \in Handles, Invalidate(h) PROVE LockDiscipline'
  BY <1>33 DEF Invalidate
<1>34. CASE UNCHANGED vars
  BY <1>34 DEF vars
<1>35. ASSUME NEW p \in Procs, NextPass(p) PROVE LockDiscipline'
  BY <1>35 DEF NextPass
<1>36. ASSUME NEW p \in Procs, DeleteRow(p) PROVE LockDiscipline'
  <2>1. /\ hnd[p] = None /\ hnd' = hnd /\ row' \in BOOLEAN /\ op' \in [Procs -> OpKinds \cup {None}]
        /\ pc' \in {[pc EXCEPT ![p] = "lookup"], [pc EXCEPT ![p] = "idle"]}
        /\ \A q \in Procs \ {p} : op'[q] = op[q]
        /\ UNCHANGED <<file, live, inst, map, locks, down>>
    <3>1. CASE pc' = [pc EXCEPT ![p] = "lookup"] /\ row' = FALSE /\ UNCHANGED <<op, hnd>>
      BY <1>36, <3>1 DEF DeleteRow
    <3>2. CASE row' \in {row, FALSE} /\ Return(p)
      <4>1. hnd[p] = None
        BY <1>36 DEF DeleteRow
      <4>2. hnd' = hnd
        BY <3>2, <4>1
      <4>3. UNCHANGED <<file, live, inst, map, locks, down>>
        BY <1>36 DEF DeleteRow
      <4>4. row' \in BOOLEAN
        BY <3>2
      <4>5. /\ pc' = [pc EXCEPT ![p] = "idle"] /\ op' = [op EXCEPT ![p] = None]
            /\ op \in [Procs -> OpKinds \cup {None}]
        BY <3>2
      <4>6. op' \in [Procs -> OpKinds \cup {None}] /\ \A q \in Procs \ {p} : op'[q] = op[q]
        BY <4>5
      <4> QED
        BY <4>1, <4>2, <4>3, <4>4, <4>5, <4>6
    <3> QED
      BY <1>36, <3>1, <3>2 DEF DeleteRow
  <2>2. TypeOK'
    BY <2>1
  <2>3. LockState'
    BY <2>1
  <2> QED
    BY <2>2, <2>3
<1> HIDE DEF LockDiscipline
<1>37. ASSUME NEW p \in Procs, Continue(p) PROVE LockDiscipline'
  BY <1>37, <1>1, <1>2, <1>3, <1>4, <1>5, <1>6, <1>7, <1>8, <1>9, <1>10, <1>11, <1>12, <1>13,
     <1>14, <1>15, <1>16, <1>17, <1>18, <1>19, <1>20, <1>21, <1>22, <1>23, <1>24, <1>25, <1>26,
     <1>35, <1>36 DEF Continue
<1> QED
  BY <1>27, <1>28, <1>29, <1>31, <1>32, <1>33, <1>34, <1>37 DEF Next


\* Locks are held exactly where the code is between taking and releasing them.
THEOREM LocksCorrect == Spec => []LockDiscipline
BY InitLocks, StepLocks, PTL DEF Spec

\* compactLocked's swap and removeWiretapFiles' deletion run alone on their handle,
\* however operations interleave, and whatever closes or invalidates instances.
THEOREM ExclusiveSections == Spec => []ExclusiveAlone
<1>1. LockDiscipline => ExclusiveAlone
  BY NoneAssumption DEF LockDiscipline, LockState, TypeOK, ExclusiveAlone, Uses, Swaps, Wipes,
     SharesMu, ExcludesMu
<1> QED
  BY <1>1, LocksCorrect, PTL

-----------------------------------------------------------------------------
(***************************************************************************)
(* A wiretap that nobody creates or deletes, on a healthy DuckDB.          *)
(***************************************************************************)

\* The invariant holds before anything is open.
LEMMA InitShared == Init => SharedDiscipline
<1> SUFFICES ASSUME Init PROVE SharedDiscipline
  OBVIOUS
<1>1. LockDiscipline
  BY InitLocks
<1> QED
  BY <1>1, NoneAssumption DEF Init, SharedDiscipline, InCompact, At, OneInstance, ServedCurrent

\* A search goes on to lockRead, a writer to lockWrite.
LEMMA AfterShared ==
  ASSUME NEW o \in WriteOps \cup {"read"}
  PROVE  \/ o = "read" /\ AfterHandle(o) = "mu"
         \/ o \in WriteOps /\ AfterHandle(o) = "writeMu"
BY DEF AfterHandle, WriteOps

\* Closing is left to CloseIdle on a handle nobody has locked, to the swap, and to
\* a compaction whose swap failed, on its own handle.
LEMMA StepShared ==
  ASSUME OnlyShared, SharedDiscipline, [Next]_vars
  PROVE  SharedDiscipline'
<1>0. LockDiscipline /\ LockDiscipline'
  BY StepLocks DEF SharedDiscipline
<1> USE <1>0, NoneAssumption
    DEF SharedDiscipline, OnlyShared, LockDiscipline, LockState, TypeOK, WriteOps, InCompact,
        HasHandle, SharesMu, ExcludesMu, HoldsWriteMu, OneInstance, ServedCurrent, disk, inst,
        locks, At, Goto, Holds, Return, Release, CloseMapped,
        MuShareable, UnlockMu, SwapFails, DbMuFree, OpKinds
<1>1. ASSUME NEW p \in Procs, FindHandle(p) PROVE SharedDiscipline'
  <2>1. /\ pc' = [pc EXCEPT ![p] = AfterHandle(op[p])]
        /\ \/ op[p] = "read" /\ AfterHandle(op[p]) = "mu"
           \/ op[p] \in WriteOps /\ AfterHandle(op[p]) = "writeMu"
    <3>1. op[p] \in WriteOps \cup {"read"}
      BY <1>1 DEF FindHandle
    <3>2. pc' = [pc EXCEPT ![p] = AfterHandle(op[p])]
      BY <1>1 DEF FindHandle
    <3> QED
      BY <3>1, <3>2, AfterShared
  <2> QED
    BY <1>1, <2>1 DEF FindHandle
<1>2. ASSUME NEW p \in Procs, NoFile(p) PROVE SharedDiscipline'
  BY <1>2 DEF NoFile
<1>3. ASSUME NEW p \in Procs, BeginOpen(p) PROVE SharedDiscipline'
  BY <1>3 DEF BeginOpen
<1>4. ASSUME NEW p \in Procs, OpenFile(p) PROVE SharedDiscipline'
  <2>1. PICK h \in Handles :
          /\ \A q \in Procs : hnd[q] # h
          /\ closed' = closed \ {h} /\ invalid' = invalid \ {h}
          /\ live' = live \cup {h}
          /\ map' = h /\ hnd' = [hnd EXCEPT ![p] = h]
    BY <1>4 DEF OpenFile
  <2>2. map = None /\ \A k \in Handles : k \in closed
    BY <1>4 DEF OpenFile
  <2>3. /\ pc' = [pc EXCEPT ![p] = AfterHandle(op[p])]
        /\ \/ op[p] = "read" /\ AfterHandle(op[p]) = "mu"
           \/ op[p] \in WriteOps /\ AfterHandle(op[p]) = "writeMu"
    <3>1. op[p] \in WriteOps \cup {"read"}
      BY <1>4 DEF OpenFile
    <3>2. pc' = [pc EXCEPT ![p] = AfterHandle(op[p])]
      BY <1>4 DEF OpenFile
    <3> QED
      BY <3>1, <3>2, AfterShared
  <2>4. OneInstance' /\ ServedCurrent'
    BY <2>1, <2>2
  <2>5. \A q \in Procs \ {p} : pc[q] \notin InCompact \cup {"busy", "drain", "opening"}
    BY <1>4, <2>2 DEF OpenFile
  <2> QED
    BY <1>4, <2>1, <2>2, <2>3, <2>4, <2>5 DEF OpenFile
<1>5. ASSUME NEW p \in Procs, OpenFails(p) PROVE SharedDiscipline'
  <2>1. op[p] # "create"
    BY <1>5 DEF OpenFails
  <2>2. file' = TRUE
    BY <1>5 DEF OpenFails
  <2>3. Return(p)
    BY <1>5, <2>1 DEF OpenFails
  <2> QED
    BY <1>5, <2>1, <2>2, <2>3 DEF OpenFails
<1>6. ASSUME NEW p \in Procs, LockWriteMu(p) PROVE SharedDiscipline'
  BY <1>6 DEF LockWriteMu
<1>7. ASSUME NEW p \in Procs, LockMu(p) PROVE SharedDiscipline'
  BY <1>7 DEF LockMu
<1>8. ASSUME NEW p \in Procs, Begin(p) PROVE SharedDiscipline'
  BY <1>8 DEF Begin
<1>9. ASSUME NEW p \in Procs, BeginClosed(p) PROVE SharedDiscipline'
  BY <1>9 DEF BeginClosed
<1>10. ASSUME NEW p \in Procs, Finish(p) PROVE SharedDiscipline'
  BY <1>10 DEF Finish
<1>11. ASSUME NEW p \in Procs, FinishInvalid(p) PROVE SharedDiscipline'
  BY <1>11 DEF FinishInvalid
<1>12. ASSUME NEW p \in Procs, Heal(p) PROVE SharedDiscipline'
  BY <1>12 DEF Heal
<1>13. ASSUME NEW p \in Procs, Created(p) PROVE SharedDiscipline'
  BY <1>13 DEF Created
<1>14. ASSUME NEW p \in Procs, CreateFails(p) PROVE SharedDiscipline'
  BY <1>14 DEF CreateFails
<1>15. ASSUME NEW p \in Procs, Copied(p) PROVE SharedDiscipline'
  BY <1>15 DEF Copied
<1>16. ASSUME NEW p \in Procs, LockMuExclusive(p) PROVE SharedDiscipline'
  BY <1>16 DEF LockMuExclusive
<1>17. ASSUME NEW p \in Procs, SwapClose(p) PROVE SharedDiscipline'
  <2>1. closed' = closed \cup {hnd[p]} /\ live' = live \ {hnd[p]} /\ hnd[p] = map
    BY <1>17 DEF SwapClose
  <2>2. \A q \in Procs \ {p} : pc[q] \notin InCompact \cup {"busy", "drain"}
    BY <1>17 DEF SwapClose
  <2>3. pc' = [pc EXCEPT ![p] = "renaming"] \/ pc' = [pc EXCEPT ![p] = "relockFail"]
    BY <1>17 DEF SwapClose
  <2>4. row' = row /\ file' = file /\ UNCHANGED <<op, map, invalid, hnd>>
    BY <1>17 DEF SwapClose
  <2>5. pc[p] = "closing" /\ op[p] = "compact" /\ hnd[p] \in Handles
    BY <1>17 DEF SwapClose
  <2>6. OneInstance'
    BY <2>1, <2>4
  <2>7. ServedCurrent'
    <3>1. hnd'[p] = map' /\ pc'[p] \in InCompact
      BY <2>1, <2>3, <2>4
    <3> QED
      BY <3>1
  <2> QED
    BY <2>1, <2>2, <2>3, <2>4, <2>5, <2>6, <2>7
<1>18. ASSUME NEW p \in Procs, SwapRename(p) PROVE SharedDiscipline'
  BY <1>18 DEF SwapRename
<1>19. ASSUME NEW p \in Procs, SwapReopen(p) PROVE SharedDiscipline'
  BY <1>19 DEF SwapReopen
<1>20. ASSUME NEW p \in Procs, SwapStuck(p) PROVE SharedDiscipline'
  BY <1>20 DEF SwapStuck
<1>21. ASSUME NEW p \in Procs, Relock(p) PROVE SharedDiscipline'
  BY <1>21 DEF Relock
<1>22. ASSUME NEW p \in Procs, CompactDone(p) PROVE SharedDiscipline'
  BY <1>22 DEF CompactDone
<1>23. ASSUME NEW p \in Procs, CompactFails(p) PROVE SharedDiscipline'
  BY <1>23 DEF CompactFails
<1>24. ASSUME NEW p \in Procs, Lookup(p) PROVE SharedDiscipline'
  BY <1>24 DEF Lookup
<1>25. ASSUME NEW p \in Procs, Drop(p) PROVE SharedDiscipline'
  BY <1>25 DEF Drop
<1>26. ASSUME NEW p \in Procs, Remove(p) PROVE SharedDiscipline'
  BY <1>26 DEF Remove
<1>27. ASSUME NEW p \in Procs, NEW o \in Ops \cap (WriteOps \cup {"read"}), Start(p, o) PROVE SharedDiscipline'
  BY <1>27 DEF Start, Enter
<1>28. "create" \notin Ops /\ "delete" \notin Ops
  OBVIOUS
<1>30. CASE CloseIdle
  BY <1>30 DEF CloseIdle
<1>31. CASE Close
  BY <1>31 DEF Close
<1>32. ASSUME NEW h \in Handles, Invalidate(h) PROVE SharedDiscipline'
  BY <1>32 DEF Invalidate
<1>33. CASE UNCHANGED vars
  BY <1>33 DEF vars
<1>34. ASSUME NEW p \in Procs, NextPass(p) PROVE SharedDiscipline'
  BY <1>34 DEF NextPass
<1>35. ASSUME NEW p \in Procs, DeleteRow(p) PROVE SharedDiscipline'
  BY <1>35 DEF DeleteRow
<1> QED
  BY <1>1, <1>2, <1>3, <1>4, <1>5, <1>6, <1>7, <1>8, <1>9, <1>10, <1>11, <1>12, <1>13, <1>14, <1>15, <1>16, <1>17, <1>18, <1>19, <1>20, <1>21, <1>22, <1>23, <1>24, <1>25, <1>26, <1>27, <1>28, <1>30, <1>31, <1>32, <1>33, <1>34, <1>35 DEF Next, Continue

\* On a wiretap nobody creates or deletes, with a healthy DuckDB, an operation past
\* its first statement works on the mapped handle, and locks and instances agree,
\* whatever CloseIdle and failed swaps do.
THEOREM SharedCorrect ==
  ASSUME OnlyShared
  PROVE  Spec => []SharedDiscipline
BY InitShared, StepShared, PTL DEF Spec

\* Then there is never a second open instance of the wiretap's file.
THEOREM OneInstancePerFile ==
  ASSUME OnlyShared
  PROVE  Spec => []OneInstance
<1>1. SharedDiscipline => OneInstance
  BY DEF SharedDiscipline
<1> QED
  BY <1>1, SharedCorrect, PTL

\* The instance the map hands out is open on the file now at the wiretap's path,
\* but while a compaction holds it.
THEOREM CurrentServed ==
  ASSUME OnlyShared
  PROVE  Spec => []ServedCurrent
<1>1. SharedDiscipline => ServedCurrent
  BY DEF SharedDiscipline
<1> QED
  BY <1>1, SharedCorrect, PTL

\* No operation loses its instance midway.
THEOREM InstancesStay ==
  ASSUME OnlyShared
  PROVE  Spec => []BusyOpen
<1>1. SharedDiscipline => BusyOpen
  BY DEF SharedDiscipline, BusyOpen, At
<1> QED
  BY <1>1, SharedCorrect, PTL

\* Loads, retention, alterations and compactions exclude each other on the file,
\* across handles.
THEOREM WritersExcluded ==
  ASSUME OnlyShared
  PROVE  Spec => []OneWriter
<1>1. SharedDiscipline => OneWriter
  BY NoneAssumption DEF SharedDiscipline, LockDiscipline, LockState, TypeOK, OneWriter,
     Writing, At, HoldsWriteMu, HasHandle
<1> QED
  BY <1>1, SharedCorrect, PTL

(***************************************************************************)
(* SharedFile is implemented.                                              *)
(***************************************************************************)
Mapped == <<Searching, Changing, Replacing>>

\* Where the statements of a search, those of a change, and a swap are.
Searches(p)   == At(p, "busy") /\ op[p] = "read"
Changes(p)    == \/ At(p, "busy") /\ op[p] \in WriteOps
                 \/ pc[p] \in {"drain"} \cup InCompact
SwapsFile(p)  == pc[p] \in {"closing", "renaming", "reopening"}
Unmoved(q)    == pc'[q] = pc[q] /\ op'[q] = op[q]

\* A step of one goroutine moves no other in or out of the three sets.
LEMMA OneMoves ==
  ASSUME NEW p \in Procs, \A q \in Procs \ {p} : Unmoved(q)
  PROVE  /\ Searching' = IF Searches(p)' THEN Searching \cup {p} ELSE Searching \ {p}
         /\ Changing' = IF Changes(p)' THEN Changing \cup {p} ELSE Changing \ {p}
         /\ Replacing' = IF SwapsFile(p)' THEN Replacing \cup {p} ELSE Replacing \ {p}
BY DEF Searching, Changing, Replacing, Searches, Changes, SwapsFile, Unmoved, At

\* A step that leaves the one who takes it where it was does not show.
LEMMA StaysMapped ==
  ASSUME NEW p \in Procs, \A q \in Procs \ {p} : Unmoved(q),
         Searches(p)' <=> Searches(p), Changes(p)' <=> Changes(p), SwapsFile(p)' <=> SwapsFile(p)
  PROVE  UNCHANGED Mapped
BY DEF Mapped, Searching, Changing, Replacing, Searches, Changes, SwapsFile, Unmoved, At

\* Nobody changes the file beside another, and a swap is that of the one who does.
LEMMA AloneChanging ==
  ASSUME SharedDiscipline
  PROVE  /\ \A p, q \in Procs : Changes(p) /\ Changes(q) => p = q
         /\ \A p, q \in Procs : SwapsFile(p) => Changes(p) /\ ~Searches(q)
         /\ \A p \in Procs : ~(Searches(p) /\ Changes(p))
<1> USE NoneAssumption
    DEF SharedDiscipline, LockDiscipline, LockState, TypeOK, Changes, At, InCompact, WriteOps
<1>1. \A p \in Procs : Changes(p) => hnd[p] = map /\ map \in Handles /\ writeMu[map] = p
  BY DEF HoldsWriteMu, HasHandle
<1>2. \A p \in Procs : SwapsFile(p) => Changes(p) /\ writer[map] = p
  BY <1>1 DEF SwapsFile, ExcludesMu
<1>3. \A q \in Procs : Searches(q) => hnd[q] = map /\ map \in Handles /\ q \in readers[map]
  BY DEF Searches, SharesMu, HasHandle
<1>4. \A p, q \in Procs : SwapsFile(p) => ~Searches(q)
  BY <1>1, <1>2, <1>3
<1>5. \A p \in Procs : ~(Searches(p) /\ Changes(p))
  BY DEF Searches
<1> QED
  BY <1>1, <1>2, <1>4, <1>5

\* The first statement on an open instance: nobody has the lock it needs, though the
\* instance may be that of another handle than when the goroutine got its own.
LEMMA BeginMaps ==
  ASSUME OnlyShared, SharedDiscipline, NEW p \in Procs, Begin(p)
  PROVE  File!Search(p) \/ File!Change(p)
<1> USE NoneAssumption
<1>1. /\ pc[p] = "pinned" /\ pc' = [pc EXCEPT ![p] = "busy"] /\ op' = op
      /\ hnd[p] \in Handles /\ hnd[p] \notin closed
  BY DEF Begin, Goto, At, SharedDiscipline, LockDiscipline, LockState, TypeOK, HasHandle
<1>2. hnd[p] = map /\ p \in readers[map]
  BY <1>1 DEF SharedDiscipline, OneInstance, LockDiscipline, LockState, SharesMu
<1>3. \A q \in Procs \ {p} : Unmoved(q)
  BY <1>1 DEF Unmoved, SharedDiscipline, LockDiscipline, TypeOK
<1>4. pc'[p] = "busy" /\ op'[p] = op[p] /\ op[p] \in WriteOps \cup {"read"}
  BY <1>1 DEF SharedDiscipline, LockDiscipline, TypeOK, At
<1>5. ~Searches(p) /\ ~Changes(p) /\ ~SwapsFile(p)
  BY <1>1 DEF Searches, Changes, SwapsFile, At, InCompact
<1>6. p \notin Searching \cup Changing \cup Replacing
  BY <1>5 DEF Searches, Changes, SwapsFile, Searching, Changing, Replacing
<1>7. Replacing = {}
  <2> SUFFICES ASSUME NEW q \in Procs, SwapsFile(q) PROVE FALSE
    BY DEF Replacing, SwapsFile
  <2>1. hnd[q] = map
    BY DEF SharedDiscipline, SwapsFile, InCompact
  <2>2. writer[map] = q
    BY <1>1, <1>2, <2>1 DEF SharedDiscipline, LockDiscipline, LockState, SwapsFile, ExcludesMu
  <2> QED
    BY <1>1, <1>2, <2>2 DEF SharedDiscipline, LockDiscipline, LockState
<1>8. CASE op[p] = "read"
  <2>1. Searches(p)' /\ ~Changes(p)' /\ ~SwapsFile(p)'
    BY <1>4, <1>8 DEF Searches, Changes, SwapsFile, At, InCompact, WriteOps
  <2>2. Searching' = Searching \cup {p} /\ UNCHANGED <<Changing, Replacing>>
    BY <1>3, <1>6, <2>1, OneMoves
  <2> QED
    BY <1>6, <1>7, <2>2 DEF File!Search
<1>9. CASE op[p] \in WriteOps
  <2>1. ~Searches(p)' /\ Changes(p)' /\ ~SwapsFile(p)'
    BY <1>4, <1>9 DEF Searches, Changes, SwapsFile, At, InCompact, WriteOps
  <2>2. Changing = {}
    <3> SUFFICES ASSUME NEW q \in Procs, Changes(q) PROVE FALSE
      BY DEF Changing, Changes
    <3>1. hnd[q] = map /\ HoldsWriteMu(q)
      BY DEF SharedDiscipline, Changes, HoldsWriteMu, At
    <3>2. HoldsWriteMu(p)
      BY <1>1, <1>9 DEF HoldsWriteMu
    <3>3. writeMu[map] = q /\ writeMu[map] = p
      BY <1>1, <1>2, <3>1, <3>2 DEF SharedDiscipline, LockDiscipline, LockState
    <3> QED
      BY <1>5, <3>3
  <2>3. Changing' = {p} /\ UNCHANGED <<Searching, Replacing>>
    BY <1>3, <1>6, <2>1, <2>2, OneMoves
  <2> QED
    BY <1>6, <2>2, <2>3 DEF File!Change
<1> QED
  BY <1>4, <1>8, <1>9

\* The last statement, or the end of a compaction and of what follows it.
LEMMA EndMaps ==
  ASSUME OnlyShared, SharedDiscipline, NEW p \in Procs,
         Finish(p) \/ CompactDone(p) \/ NextPass(p) \/ CompactFails(p)
  PROVE  File!Found(p) \/ File!Changed(p)
<1>1. /\ pc[p] \in {"busy", "swapped", "swapFailed"}
      /\ \/ pc' = [pc EXCEPT ![p] = "idle"] /\ op' = [op EXCEPT ![p] = None]
         \/ pc' = [pc EXCEPT ![p] = "pinned"] /\ op' = [op EXCEPT ![p] = "write"]
  BY DEF Finish, CompactDone, NextPass, CompactFails, Return, Goto, At
<1>2. /\ \A q \in Procs \ {p} : Unmoved(q)
      /\ pc'[p] \in {"idle", "pinned"}
  BY <1>1 DEF Unmoved, SharedDiscipline, LockDiscipline, TypeOK
<1>3. ~Searches(p)' /\ ~Changes(p)' /\ ~SwapsFile(p)'
  BY <1>2 DEF Searches, Changes, SwapsFile, At, InCompact
<1>4. ~SwapsFile(p) /\ (Searches(p) \/ Changes(p))
  BY <1>1 DEF Searches, Changes, SwapsFile, At, InCompact, SharedDiscipline
<1>5. p \notin Replacing /\ UNCHANGED Replacing
  BY <1>2, <1>3, <1>4, OneMoves DEF Replacing, SwapsFile
<1>6. CASE Searches(p)
  <2>1. p \in Searching /\ p \notin Changing
    BY <1>6, AloneChanging DEF Searching, Searches, Changing, Changes
  <2>2. Searching' = Searching \ {p} /\ Changing' = Changing
    BY <1>2, <1>3, <2>1, OneMoves
  <2> QED
    BY <1>5, <2>1, <2>2 DEF File!Found
<1>7. CASE Changes(p)
  <2>1. Changing = {p} /\ p \notin Searching
    BY <1>7, AloneChanging DEF Searching, Searches, Changing, Changes
  <2>2. Replacing = {}
    <3> SUFFICES ASSUME NEW q \in Procs, SwapsFile(q) PROVE FALSE
      BY DEF Replacing, SwapsFile
    <3>1. q = p
      BY <1>7, AloneChanging
    <3> QED
      BY <1>4, <3>1
  <2>3. Changing' = {} /\ Searching' = Searching
    BY <1>2, <1>3, <2>1, OneMoves
  <2> QED
    BY <1>5, <2>1, <2>2, <2>3 DEF File!Changed
<1> QED
  BY <1>4, <1>6, <1>7

\* The swap starts when the last search is over.
LEMMA ReplaceMaps ==
  ASSUME OnlyShared, SharedDiscipline, NEW p \in Procs, LockMuExclusive(p)
  PROVE  File!Replace(p)
<1>1. /\ pc[p] = "drain" /\ readers[hnd[p]] = {} /\ op' = op
      /\ pc' = [pc EXCEPT ![p] = "closing"]
  BY DEF LockMuExclusive, Goto, At, SharedDiscipline
<1>2. /\ \A q \in Procs \ {p} : Unmoved(q)
      /\ pc'[p] = "closing"
  BY <1>1 DEF Unmoved, SharedDiscipline, LockDiscipline, TypeOK
<1>3. Changes(p) /\ ~Searches(p) /\ ~SwapsFile(p)
  BY <1>1 DEF Searches, Changes, SwapsFile, At
<1>4. Changes(p)' /\ ~Searches(p)' /\ SwapsFile(p)'
  BY <1>2 DEF Searches, Changes, SwapsFile, At, InCompact
<1>5. Searching = {}
  <2> SUFFICES ASSUME NEW q \in Procs, Searches(q) PROVE FALSE
    BY DEF Searching, Searches
  <2>1. hnd[q] = map /\ hnd[p] = map
    BY <1>1 DEF SharedDiscipline, Searches, At
  <2>2. map \in Handles
    BY <1>1, <2>1, NoneAssumption
       DEF SharedDiscipline, LockDiscipline, LockState, TypeOK, HasHandle
  <2>3. q \in readers[map]
    BY <2>1, <2>2 DEF Searches, At, SharedDiscipline, LockDiscipline, LockState, SharesMu
  <2> QED
    BY <1>1, <2>1, <2>3
<1>6. Changing = {p}
  BY <1>3, AloneChanging DEF Changing, Changes
<1>7. Replacing = {}
  <2> SUFFICES ASSUME NEW q \in Procs, SwapsFile(q) PROVE FALSE
    BY DEF Replacing, SwapsFile
  <2> QED
    BY <1>3, AloneChanging
<1>8. Searching' = Searching /\ Changing' = Changing /\ Replacing' = {p}
  BY <1>2, <1>4, <1>5, <1>6, <1>7, OneMoves
<1> QED
  BY <1>5, <1>6, <1>7, <1>8 DEF File!Replace

\* The swap ends with the new instance, or with none.
LEMMA ReplacedMaps ==
  ASSUME OnlyShared, SharedDiscipline, NEW p \in Procs,
         SwapsFile(p), pc' \in {[pc EXCEPT ![p] = "relock"], [pc EXCEPT ![p] = "relockFail"]},
         op' = op
  PROVE  File!Replaced(p)
<1>1. /\ \A q \in Procs \ {p} : Unmoved(q)
      /\ pc'[p] \in {"relock", "relockFail"}
  BY DEF Unmoved, SharedDiscipline, LockDiscipline, TypeOK
<1>2. Changes(p)' /\ ~Searches(p)' /\ ~SwapsFile(p)'
  BY <1>1 DEF Searches, Changes, SwapsFile, At, InCompact
<1>3. Changes(p) /\ ~Searches(p)
  BY AloneChanging
<1>4. p \in Changing /\ p \notin Searching
  BY <1>3 DEF Changing, Changes, Searching, Searches
<1>5. Replacing = {p}
  BY <1>3, AloneChanging DEF Replacing, SwapsFile
<1>6. Searching' = Searching /\ Changing' = Changing /\ Replacing' = {}
  BY <1>1, <1>2, <1>4, <1>5, OneMoves
<1> QED
  BY <1>5, <1>6 DEF File!Replaced

\* The steps to the first statement, and those past a closed instance.
LEMMA BeforeMaps ==
  ASSUME OnlyShared, SharedDiscipline, NEW p \in Procs,
         \/ FindHandle(p) \/ NoFile(p) \/ BeginOpen(p) \/ OpenFile(p) \/ OpenFails(p)
         \/ LockWriteMu(p) \/ LockMu(p) \/ BeginClosed(p)
         \/ \E o \in Ops \cap (WriteOps \cup {"read"}) : Start(p, o)
  PROVE  UNCHANGED Mapped
<1> DEFINE Before == {"idle", "start", "opening", "writeMu", "mu", "pinned"}
<1>1. pc[p] \in Before
  BY DEF FindHandle, NoFile, BeginOpen, OpenFile, OpenFails, LockWriteMu, LockMu, BeginClosed,
     Start, Enter, At
<1>2. /\ \A q \in Procs \ {p} : Unmoved(q)
      /\ pc'[p] \in Before
  <2> USE DEF Unmoved, SharedDiscipline, LockDiscipline, TypeOK, Goto, Return, At
  <2>1. CASE FindHandle(p) \/ OpenFile(p)
    <3>1. pc' = [pc EXCEPT ![p] = AfterHandle(op[p])] /\ op' = op
      BY <2>1 DEF FindHandle, OpenFile
    <3>2. AfterHandle(op[p]) \in Before
      <4>1. op[p] \in WriteOps \cup {"read"}
        BY <2>1 DEF FindHandle, OpenFile
      <4> QED
        BY <4>1, AfterShared
    <3> QED
      BY <3>1, <3>2
  <2>2. CASE NoFile(p) \/ BeginOpen(p) \/ LockMu(p) \/ BeginClosed(p)
    BY <2>2 DEF NoFile, BeginOpen, LockMu, BeginClosed
  <2>3. CASE OpenFails(p)
    <3>1. op[p] # "create"
      BY <2>3 DEF OpenFails, WriteOps
    <3> QED
      BY <2>3, <3>1 DEF OpenFails
  <2>4. CASE LockWriteMu(p)
    <3>1. op[p] \in WriteOps
      BY <2>4 DEF LockWriteMu
    <3> QED
      BY <2>4, <3>1 DEF LockWriteMu
  <2>5. CASE \E o \in Ops \cap (WriteOps \cup {"read"}) : Start(p, o)
    BY <2>5 DEF Start, Enter
  <2> QED
    BY <2>1, <2>2, <2>3, <2>4, <2>5
<1>3. ~Searches(p) /\ ~Changes(p) /\ ~SwapsFile(p)
  BY <1>1 DEF Searches, Changes, SwapsFile, At, InCompact
<1>4. ~Searches(p)' /\ ~Changes(p)' /\ ~SwapsFile(p)'
  BY <1>2 DEF Searches, Changes, SwapsFile, At, InCompact
<1> QED
  BY <1>2, <1>3, <1>4, StaysMapped

\* The steps within a compaction, and within its swap.
LEMMA WithinMaps ==
  ASSUME OnlyShared, SharedDiscipline, NEW p \in Procs,
         \/ Copied(p) \/ Relock(p) \/ SwapRename(p)
         \/ SwapClose(p) /\ pc' = [pc EXCEPT ![p] = "renaming"]
  PROVE  UNCHANGED Mapped
<1> USE DEF At, Goto
<1>1. op' = op /\ op[p] \in WriteOps /\ op[p] # "read"
  BY DEF SharedDiscipline, InCompact, Copied, Relock, SwapRename, SwapClose, SwapFails, WriteOps
<1>2. \/ pc[p] = "busy" /\ pc' = [pc EXCEPT ![p] = "drain"]
      \/ pc[p] = "relock" /\ pc' = [pc EXCEPT ![p] = "swapped"]
      \/ pc[p] = "relockFail" /\ pc' = [pc EXCEPT ![p] = "swapFailed"]
      \/ pc[p] = "renaming" /\ pc' = [pc EXCEPT ![p] = "reopening"]
      \/ pc[p] = "closing" /\ pc' = [pc EXCEPT ![p] = "renaming"]
  BY DEF Copied, Relock, SwapRename, SwapClose
<1>3. /\ \A q \in Procs \ {p} : Unmoved(q)
      /\ <<pc[p], pc'[p]>> \in {<<"busy", "drain">>, <<"relock", "swapped">>,
                                <<"relockFail", "swapFailed">>, <<"renaming", "reopening">>,
                                <<"closing", "renaming">>}
  BY <1>1, <1>2 DEF Unmoved, SharedDiscipline, LockDiscipline, TypeOK
<1>4. ~Searches(p) /\ ~Searches(p)' /\ Changes(p) /\ Changes(p)'
  BY <1>1, <1>3 DEF Searches, Changes, InCompact
<1>5. SwapsFile(p)' <=> SwapsFile(p)
  BY <1>3 DEF SwapsFile
<1> QED
  BY <1>3, <1>4, <1>5, StaysMapped

\* Every step is one of SharedFile's, or does not show.
LEMMA StepFile ==
  ASSUME OnlyShared, SharedDiscipline, [Next]_vars
  PROVE  File!Next \/ UNCHANGED Mapped
<1>1. ASSUME NEW p \in Procs,
             \/ FindHandle(p) \/ NoFile(p) \/ BeginOpen(p) \/ OpenFile(p) \/ OpenFails(p)
             \/ LockWriteMu(p) \/ LockMu(p) \/ BeginClosed(p)
             \/ \E o \in Ops \cap (WriteOps \cup {"read"}) : Start(p, o)
      PROVE  UNCHANGED Mapped
  BY <1>1, BeforeMaps
<1>2. ASSUME NEW p \in Procs, Copied(p) \/ Relock(p) \/ SwapRename(p)
      PROVE  UNCHANGED Mapped
  BY <1>2, WithinMaps
<1>3. ASSUME NEW p \in Procs, Begin(p) PROVE File!Next
  BY <1>3, BeginMaps DEF File!Next
<1>4. ASSUME NEW p \in Procs, Finish(p) \/ CompactDone(p) \/ NextPass(p) \/ CompactFails(p)
      PROVE  File!Next
  BY <1>4, EndMaps DEF File!Next
<1>5. ASSUME NEW p \in Procs, LockMuExclusive(p) PROVE File!Next
  BY <1>5, ReplaceMaps DEF File!Next
<1>6. ASSUME NEW p \in Procs, SwapClose(p) PROVE File!Next \/ UNCHANGED Mapped
  <2>1. CASE pc' = [pc EXCEPT ![p] = "renaming"]
    BY <1>6, <2>1, WithinMaps
  <2>2. CASE pc' # [pc EXCEPT ![p] = "renaming"]
    <3>1. SwapsFile(p) /\ pc' = [pc EXCEPT ![p] = "relockFail"] /\ op' = op
      BY <1>6, <2>2 DEF SwapClose, SwapFails, SwapsFile, At, Goto
    <3> QED
      BY <3>1, ReplacedMaps DEF File!Next
  <2> QED
    BY <2>1, <2>2
<1>7. ASSUME NEW p \in Procs, SwapReopen(p) \/ SwapStuck(p) PROVE File!Next
  <2>1. /\ SwapsFile(p) /\ op' = op
        /\ pc' \in {[pc EXCEPT ![p] = "relock"], [pc EXCEPT ![p] = "relockFail"]}
    BY <1>7 DEF SwapReopen, SwapStuck, SwapFails, SwapsFile, At, Goto
  <2> QED
    BY <2>1, ReplacedMaps DEF File!Next
<1>8. ASSUME NEW p \in Procs,
             \/ FinishInvalid(p) \/ Heal(p) \/ Created(p) \/ CreateFails(p)
             \/ DeleteRow(p) \/ Lookup(p) \/ Drop(p) \/ Remove(p)
      PROVE  FALSE
  BY <1>8 DEF SharedDiscipline, FinishInvalid, Heal, Created, CreateFails, DeleteRow, Lookup,
     Drop, Remove, At
<1>9. ASSUME CloseIdle \/ Close \/ (\E h \in Handles : Invalidate(h)) \/ UNCHANGED vars
      PROVE  UNCHANGED Mapped
  <2>1. UNCHANGED <<pc, op>>
    BY <1>9 DEF CloseIdle, Close, Invalidate, vars
  <2> QED
    BY <2>1 DEF Mapped, Searching, Changing, Replacing, At
<1>10. "create" \notin Ops /\ "delete" \notin Ops
  BY DEF OnlyShared, WriteOps
<1> QED
  BY <1>1, <1>2, <1>3, <1>4, <1>5, <1>6, <1>7, <1>8, <1>9, <1>10 DEF Next, Continue

\* However many handles are opened, closed by CloseIdle and dropped by failing swaps,
\* those whose statements run share one file: many search it, one changes it, and a
\* compaction swaps it only while nobody searches.
THEOREM HandlesImplement ==
  ASSUME OnlyShared
  PROVE  Spec => Implements
<1>1. Init => File!Init
  BY DEF Init, File!Init, Searching, Changing, Replacing, At, InCompact
<1>2. SharedDiscipline /\ [Next]_vars => [File!Next]_Mapped
  BY StepFile
<1> QED
  BY <1>1, <1>2, SharedCorrect, PTL DEF Spec, Implements, File!Spec, File!vars, Mapped
=============================================================================
