----------------------- MODULE WiretapCatalog_proofs -----------------------
(***************************************************************************)
(* Proofs about WiretapCatalog, for every set of calls and all lists of    *)
(* fields.                                                                 *)
(***************************************************************************)
EXTENDS WiretapCatalog, TLAPS

\* No fields are a list of fields.
LEMMA NoFields == <<>> \in Seq(Columns)
OBVIOUS

\* Nothing is there, and nobody has called.
LEMMA InitCatalog == Init => CatalogInv
<1> SUFFICES ASSUME Init PROVE CatalogInv
  OBVIOUS
<1>1. TypeOK
  <2>1. fields \in [Procs -> Seq(Columns)] /\ want \in [Procs -> Seq(Columns)]
    BY NoFields DEF Init
  <2>2. fails \in 0..MaxFails /\ stops \in 0..MaxStops
    BY BoundAssumption DEF Init
  <2>3. row \in Seq(Columns) \cup {Absent} /\ cols \in Seq(Columns) \cup {Absent}
    BY DEF Init
  <2>4. pc \in [Procs -> Labels] /\ next \in [Procs -> Nat \ {0}]
    BY DEF Init, Labels
  <2>5. /\ file \in BOOLEAN /\ lock \in Procs \cup {None} /\ crossed \in BOOLEAN /\ cut \in BOOLEAN
        /\ misplaced \subseteq Columns \X Columns
    BY DEF Init
  <2> QED
    BY <2>1, <2>2, <2>3, <2>4, <2>5 DEF TypeOK
<1>2. LockHeld /\ TableKept
  BY NoneAssumption DEF Init, LockHeld, TableKept
<1>3. RowCurrent
  BY DEF Init, RowCurrent, Creating, At
<1> QED
  BY <1>1, <1>2, <1>3 DEF CatalogInv

\* A row or a table is not confused with none.
LEMMA NotAbsent ==
  /\ Absent \notin Seq(Columns)
  /\ \A s \in Seq(Columns), c \in Columns : Append(s, c) \in Seq(Columns) /\ Append(s, c) # Absent
<1>1. ASSUME Absent \in Seq(Columns) PROVE FALSE
  <2>1. Absent[1] \in Columns
    BY <1>1 DEF Absent
  <2> QED
    BY <2>1, NoneAssumption DEF Absent
<1> QED
  BY <1>1

-----------------------------------------------------------------------------
(* Types, the lock, and the file. *)

\* A call that ends leaves nothing behind.
LEMMA Returned ==
  ASSUME TypeOK, NEW p \in Procs, Return(p)
  PROVE  /\ pc' \in [Procs -> Labels] /\ lock' \in Procs \cup {None}
         /\ fields' \in [Procs -> Seq(Columns)] /\ want' \in [Procs -> Seq(Columns)]
         /\ next' \in [Procs -> Nat \ {0}]
         /\ pc'[p] = "idle" /\ \A q \in Procs \ {p} : pc'[q] = pc[q] /\ fields'[q] = fields[q]
<1>1. /\ pc' \in [Procs -> Labels] /\ lock' \in Procs \cup {None}
      /\ next' \in [Procs -> Nat \ {0}] /\ pc'[p] = "idle"
  BY NoneAssumption DEF Return, Goto, TypeOK, Labels
<1>2. fields' \in [Procs -> Seq(Columns)] /\ want' \in [Procs -> Seq(Columns)]
  BY NoFields DEF Return, TypeOK
<1>3. \A q \in Procs \ {p} : pc'[q] = pc[q] /\ fields'[q] = fields[q]
  BY DEF Return, Goto, TypeOK
<1> QED
  BY <1>1, <1>2, <1>3

\* The faults stay within their bounds.
LEMMA FaultsTyped ==
  ASSUME TypeOK, Fail \/ Stop \/ UNCHANGED faults
  PROVE  fails' \in 0..MaxFails /\ stops' \in 0..MaxStops
BY BoundAssumption DEF TypeOK, Fail, Stop, faults

\* The state stays well formed.
LEMMA StepTyped ==
  TypeOK /\ [Next]_vars => TypeOK'
<1> SUFFICES ASSUME TypeOK, [Next]_vars PROVE TypeOK'
  OBVIOUS
<1> USE FaultsTyped DEF TypeOK, At, Goto, Labels
<1>1. ASSUME NEW p \in Procs, NEW fl \in FieldLists, CreateRow(p, fl) PROVE TypeOK'
  BY <1>1, FieldsAssumption DEF CreateRow
<1>2. ASSUME NEW p \in Procs, CreateFile(p) PROVE TypeOK'
  BY <1>2 DEF CreateFile, local, history
<1>3. ASSUME NEW p \in Procs, CreateTable(p) PROVE TypeOK'
  BY <1>3, Returned DEF CreateTable, history
<1>4. ASSUME NEW p \in Procs, CreateTableFails(p) PROVE TypeOK'
  BY <1>4 DEF CreateTableFails, data, local, history
<1>5. ASSUME NEW p \in Procs, CleanFile(p) PROVE TypeOK'
  BY <1>5 DEF CleanFile, RemoveFiles, local
<1>6. ASSUME NEW p \in Procs, CleanRow(p) PROVE TypeOK'
  BY <1>6, Returned DEF CleanRow
<1>7. ASSUME NEW p \in Procs, ReadForDelete(p) PROVE TypeOK'
  BY <1>7 DEF ReadForDelete, data, local, history
<1>8. ASSUME NEW p \in Procs, DeleteRow(p) PROVE TypeOK'
  BY <1>8 DEF DeleteRow, local, history
<1>9. ASSUME NEW p \in Procs, RemoveFile(p) PROVE TypeOK'
  BY <1>9, Returned DEF RemoveFile, RemoveFiles
<1>10. ASSUME NEW p \in Procs, NEW fl \in FieldLists, ReadForUpdate(p, fl) PROVE TypeOK'
  BY <1>10, FieldsAssumption DEF ReadForUpdate, data, history
<1>11. ASSUME NEW p \in Procs, LockUpdate(p) PROVE TypeOK'
  BY <1>11, Returned DEF LockUpdate, LockFor, data, local, history
<1>12. ASSUME NEW p \in Procs, Alter(p) PROVE TypeOK'
  <2> DEFINE c == want[p][next[p]]
  <2>1. c \in Columns
    BY <1>12 DEF Alter
  <2>2. CASE c \in Elems(fields[p])
    BY <1>12, <2>2 DEF Alter, history
  <2>3. CASE c \notin Elems(fields[p])
    <3>1. cols \in Seq(Columns) /\ cols' = Append(cols, c) /\ fields' = [fields EXCEPT ![p] = Append(@, c)]
      BY <1>12, <2>3 DEF Alter
    <3>2. Append(cols, c) \in Seq(Columns) /\ Append(fields[p], c) \in Seq(Columns)
      BY <2>1, <3>1, NotAbsent
    <3> HIDE DEF c
    <3>3. cols' \in Seq(Columns) /\ fields' \in [Procs -> Seq(Columns)]
      BY <3>1, <3>2
    <3>4. next' \in [Procs -> Nat \ {0}] /\ UNCHANGED <<row, file, lock, pc, want, history, faults>>
      BY <1>12 DEF Alter
    <3> QED
      BY <3>3, <3>4 DEF history
  <2> QED
    BY <2>2, <2>3
<1>13. ASSUME NEW p \in Procs, AlterFails(p) PROVE TypeOK'
  BY <1>13, Returned DEF AlterFails, data, history
<1>14. ASSUME NEW p \in Procs, UpdateRow(p) PROVE TypeOK'
  BY <1>14, Returned DEF UpdateRow, history
<1>15. ASSUME NEW p \in Procs, ReadForLoad(p) PROVE TypeOK'
  BY <1>15 DEF ReadForLoad, data, history
<1>16. ASSUME NEW p \in Procs, LockLoad(p) PROVE TypeOK'
  BY <1>16, Returned DEF LockLoad, LockFor, data, local, history
<1>17. ASSUME NEW p \in Procs, AppendRows(p) PROVE TypeOK'
  <2>1. fields[p] \in Seq(Columns) /\ cols \in Seq(Columns) /\ Len(fields[p]) = Len(cols)
    BY <1>17 DEF AppendRows
  <2>2. Pairs(p) \subseteq Columns \X Columns
    BY <2>1 DEF Pairs
  <2> QED
    BY <1>17, <2>2, Returned DEF AppendRows, data
<1>18. ASSUME NEW p \in Procs, AppendFails(p) PROVE TypeOK'
  BY <1>18, Returned DEF AppendFails, data, history
<1>19. CASE Crash
  BY <1>19, NoFields DEF Crash, data
<1>20. CASE UNCHANGED vars
  BY <1>20 DEF vars, data, local, history
<1> QED
  BY <1>1, <1>2, <1>3, <1>4, <1>5, <1>6, <1>7, <1>8, <1>9, <1>10, <1>11, <1>12, <1>13, <1>14,
     <1>15, <1>16, <1>17, <1>18, <1>19, <1>20 DEF Next, Create, Delete, Update, Load

\* The write lock is taken and released with the state a call is in.
LEMMA StepLocked == TypeOK /\ LockHeld /\ [Next]_vars => LockHeld'
<1> SUFFICES ASSUME TypeOK, LockHeld, [Next]_vars PROVE LockHeld'
  OBVIOUS
<1> USE NoneAssumption DEF TypeOK, LockHeld, At, Goto, Return
<1>1. ASSUME NEW p \in Procs, Create(p) PROVE LockHeld'
  BY <1>1 DEF Create, CreateRow, CreateFile, CreateTable, CreateTableFails, CleanFile, CleanRow
<1>2. ASSUME NEW p \in Procs, Delete(p) PROVE LockHeld'
  BY <1>2 DEF Delete, ReadForDelete, DeleteRow, RemoveFile
<1>3. ASSUME NEW p \in Procs, Update(p) PROVE LockHeld'
  <2>1. CASE Alter(p)
    BY <2>1 DEF Alter
  <2>2. CASE LockUpdate(p)
    BY <2>2 DEF LockUpdate, LockFor
  <2>3. CASE AlterFails(p) \/ UpdateRow(p)
    BY <2>3 DEF AlterFails, UpdateRow
  <2> QED
    BY <1>3, <2>1, <2>2, <2>3 DEF Update, ReadForUpdate
<1>4. ASSUME NEW p \in Procs, Load(p) PROVE LockHeld'
  <2>1. CASE LockLoad(p)
    BY <2>1 DEF LockLoad, LockFor
  <2>2. CASE AppendRows(p)
    BY <2>2 DEF AppendRows
  <2>3. CASE AppendFails(p)
    BY <2>3 DEF AppendFails
  <2> QED
    BY <1>4, <2>1, <2>2, <2>3 DEF Load, ReadForLoad
<1>5. CASE Crash
  BY <1>5 DEF Crash
<1>6. CASE UNCHANGED vars
  BY <1>6 DEF vars
<1> QED
  BY <1>1, <1>2, <1>3, <1>4, <1>5, <1>6 DEF Next

\* A table goes with its file, and the values with their table.
LEMMA StepTable == TypeOK /\ TableKept /\ [Next]_vars => TableKept'
<1> SUFFICES ASSUME TypeOK, TableKept, [Next]_vars PROVE TableKept'
  OBVIOUS
<1> USE DEF TableKept, data, history
<1>1. ASSUME NEW p \in Procs, Create(p) PROVE TableKept'
  <2>1. CASE CreateTable(p)
    BY <1>1, <2>1, NotAbsent DEF CreateTable, TypeOK
  <2>2. CASE CleanFile(p)
    BY <2>2 DEF CleanFile, RemoveFiles
  <2> QED
    BY <1>1, <2>1, <2>2 DEF Create, CreateRow, CreateFile, CreateTableFails, CleanRow
<1>2. ASSUME NEW p \in Procs, Delete(p) PROVE TableKept'
  BY <1>2 DEF Delete, ReadForDelete, DeleteRow, RemoveFile, RemoveFiles
<1>3. ASSUME NEW p \in Procs, Update(p) PROVE TableKept'
  <2>1. CASE Alter(p)
    <3>1. /\ file' = file /\ misplaced' = misplaced
          /\ cols' = cols \/ (cols # Absent /\ cols' = Append(cols, want[p][next[p]]))
      BY <2>1 DEF Alter
    <3>2. want[p][next[p]] \in Columns
      <4>1. want[p] \in Seq(Columns) /\ next[p] \in 1..Len(want[p])
        BY <2>1 DEF Alter, TypeOK
      <4> QED
        BY <4>1
    <3>3. cols # Absent => Append(cols, want[p][next[p]]) # Absent
      BY <3>2, NotAbsent DEF TypeOK
    <3> QED
      BY <3>1, <3>3
  <2>2. CASE LockUpdate(p)
    BY <2>2 DEF LockUpdate, LockFor
  <2>3. CASE UpdateRow(p)
    BY <2>3 DEF UpdateRow
  <2>4. CASE AlterFails(p)
    BY <2>4 DEF AlterFails
  <2> QED
    BY <1>3, <2>1, <2>2, <2>3, <2>4 DEF Update, ReadForUpdate
<1>4. ASSUME NEW p \in Procs, Load(p) PROVE TableKept'
  <2>1. CASE LockLoad(p)
    BY <2>1 DEF LockLoad, LockFor
  <2>2. CASE AppendRows(p)
    BY <2>2 DEF AppendRows
  <2>3. CASE AppendFails(p)
    BY <2>3 DEF AppendFails
  <2> QED
    BY <1>4, <2>1, <2>2, <2>3 DEF Load, ReadForLoad
<1>5. CASE Crash
  BY <1>5 DEF Crash
<1>6. CASE UNCHANGED vars
  BY <1>6 DEF vars
<1> QED
  BY <1>1, <1>2, <1>3, <1>4, <1>5, <1>6 DEF Next

-----------------------------------------------------------------------------
(* Fields and columns. *)

\* A new table has the row's fields, in the row's order.
LEMMA FitsSelf == ASSUME NEW f \in Seq(Columns) PROVE Fits(f, f)
BY DEF Fits

\* A column at the table's end leaves the others in place, and has one for itself.
LEMMA FitsAppend ==
  ASSUME NEW f \in Seq(Columns), NEW t \in Seq(Columns), NEW c \in Columns, Fits(f, t)
  PROVE  Fits(f, Append(t, c)) /\ Fits(Append(f, c), Append(t, c))
<1> DEFINE u == Append(t, c)  g == Append(f, c)
<1>1. /\ Len(u) = Len(t) + 1 /\ Len(g) = Len(f) + 1 /\ Len(t) \in Nat /\ Len(f) \in Nat
      /\ u[Len(t) + 1] = c /\ g[Len(f) + 1] = c
      /\ \A k \in 1..Len(t) : u[k] = t[k]
      /\ \A i \in 1..Len(f) : g[i] = f[i]
  OBVIOUS
<1> HIDE DEF u, g
<1>2. ASSUME NEW i \in 1..Len(f)
      PROVE  \E k \in i..(Len(t) - Len(f) + i) : k \in 1..Len(t) /\ u[k] = f[i]
  <2>1. PICK k \in i..(Len(t) - Len(f) + i) : t[k] = f[i]
    BY DEF Fits
  <2> QED
    BY <1>1, <2>1
<1>3. Fits(f, u)
  BY <1>1, <1>2 DEF Fits
<1>4. Fits(g, u)
  <2> SUFFICES ASSUME NEW i \in 1..Len(g) PROVE \E k \in i..(Len(u) - Len(g) + i) : u[k] = g[i]
    BY DEF Fits
  <2>1. CASE i \in 1..Len(f)
    BY <1>1, <1>2, <2>1
  <2>2. CASE i = Len(f) + 1
    <3>0. Len(t) >= Len(f)
      <4>1. CASE Len(f) = 0
        BY <1>1, <4>1
      <4>2. CASE Len(f) # 0
        <5>1. 1 \in 1..Len(f)
          BY <1>1, <4>2
        <5>2. PICK k \in 1..(Len(t) - Len(f) + 1) : t[k] = f[1]
          BY <5>1 DEF Fits
        <5> QED
          BY <1>1, <5>2
      <4> QED
        BY <4>1, <4>2
    <3>1. Len(t) + 1 \in i..(Len(u) - Len(g) + i)
      BY <1>1, <2>2, <3>0
    <3>2. u[Len(t) + 1] = g[i]
      BY <1>1, <2>2
    <3> QED
      BY <3>1, <3>2
  <2> QED
    BY <1>1, <2>1, <2>2
<1> QED
  BY <1>3, <1>4 DEF u, g

\* Fields that fit have columns, and as many fields as columns are the columns.
LEMMA FitsColumns ==
  ASSUME NEW f \in Seq(Columns), NEW t \in Seq(Columns), Fits(f, t)
  PROVE  /\ Elems(f) \subseteq Elems(t)
         /\ Len(f) = Len(t) => \A i \in 1..Len(f) : f[i] = t[i]
<1>1. Len(f) \in Nat /\ Len(t) \in Nat
  OBVIOUS
<1>2. ASSUME NEW i \in 1..Len(f)
      PROVE  \E k \in i..(Len(t) - Len(f) + i) : t[k] = f[i] /\ k \in 1..Len(t)
  BY <1>1 DEF Fits
<1>3. Elems(f) \subseteq Elems(t)
  BY <1>2 DEF Elems
<1>4. ASSUME Len(f) = Len(t), NEW i \in 1..Len(f) PROVE f[i] = t[i]
  <2>1. PICK k \in i..(Len(t) - Len(f) + i) : t[k] = f[i]
    BY <1>2
  <2> QED
    BY <1>1, <1>4, <2>1
<1> QED
  BY <1>3, <1>4

-----------------------------------------------------------------------------
(* The row and its table. *)

\* Steps that leave the row and the table, and that create nothing.
LEMMA RowFrame ==
  ASSUME RowCurrent, UNCHANGED <<row, file, cols, crossed, cut>>, Settled => misplaced' = misplaced,
         \A q \in Procs : Creating(q) \/ Creating(q)' => pc'[q] = pc[q] /\ fields'[q] = fields[q],
         \A q \in Procs : pc'[q] = "remove" => pc[q] = "remove",
         \A q \in Procs : Knows(q)' => (Knows(q) /\ fields'[q] = fields[q]) \/ fields'[q] = row
  PROVE  RowCurrent'
<1> SUFFICES ASSUME ~crossed, ~cut
             PROVE  /\ \A p, q \in Procs : Creating(p)' /\ Creating(q)' => p = q
                    /\ \A p \in Procs : pc'[p] = "remove" => row' = Absent
                    /\ row' # Absent => Cleaning' \/ InCreation' \/ Settled'
  BY DEF RowCurrent, At
<1>1. /\ \A p, q \in Procs : Creating(p) /\ Creating(q) => p = q
      /\ \A p \in Procs : pc[p] = "remove" => row = Absent
      /\ row # Absent => Cleaning \/ InCreation \/ Settled
  BY DEF RowCurrent, At
<1>2. \A p \in Procs : Creating(p)' <=> Creating(p)
  BY DEF Creating
<1>3. Cleaning => Cleaning'
  BY DEF Cleaning, Creating
<1>4. InCreation => InCreation'
  BY DEF InCreation, Creating
<1>5. Settled => Settled'
  BY <1>2 DEF Settled
<1> QED
  BY <1>1, <1>2, <1>3, <1>4, <1>5

\* While a call creates the wiretap, it is the only one that does, and what it has
\* not cleaned up yet it is going to find, or the path is clear.
LEMMA Creator ==
  ASSUME RowCurrent, ~crossed, ~cut, NEW p \in Procs, Creating(p), row # Absent
  PROVE  pc[p] \in {"file", "table"} /\ cols = Absent =>
           row = fields[p] /\ \A q \in Procs : Knows(q) => fields[q] = row
BY DEF RowCurrent, Cleaning, InCreation, Settled, Creating

\* A creation settles its row with a table of the row's fields, or cleans up.
LEMMA StepCreate == ASSUME NEW p \in Procs PROVE CatalogInv /\ Create(p) => RowCurrent'
<1> SUFFICES ASSUME CatalogInv, Create(p), ~crossed', ~cut'
             PROVE  /\ \A q, r \in Procs : Creating(q)' /\ Creating(r)' => q = r
                    /\ \A q \in Procs : pc'[q] = "remove" => row' = Absent
                    /\ row' # Absent => Cleaning' \/ InCreation' \/ Settled'
  BY DEF RowCurrent, At
<1> USE DEF CatalogInv, At, Goto
<1>1. ~crossed /\ ~cut
  <2>1. ASSUME NEW fl \in FieldLists, CreateRow(p, fl) PROVE ~crossed /\ ~cut
    BY <2>1 DEF CreateRow
  <2>2. CASE CreateFile(p)
    BY <2>2 DEF CreateFile, history
  <2>3. CASE CreateTable(p) \/ CreateTableFails(p)
    BY <2>3 DEF CreateTable, CreateTableFails, history
  <2>4. CASE CleanFile(p) \/ CleanRow(p)
    BY <2>4 DEF CleanFile, CleanRow
  <2> QED
    BY <2>1, <2>2, <2>3, <2>4 DEF Create
<1>2. /\ \A q, r \in Procs : Creating(q) /\ Creating(r) => q = r
      /\ \A q \in Procs : pc[q] = "remove" => row = Absent
  BY <1>1 DEF RowCurrent
<1>3. ASSUME NEW fl \in FieldLists, CreateRow(p, fl)
      PROVE  /\ \A q, r \in Procs : Creating(q)' /\ Creating(r)' => q = r
             /\ \A q \in Procs : pc'[q] = "remove" => row' = Absent
             /\ InCreation'
  <2>1. /\ row' = fl /\ pc' = [pc EXCEPT ![p] = "file"] /\ fields' = [fields EXCEPT ![p] = fl]
        /\ \A q \in Procs \ {p} : pc[q] = "idle"
    BY <1>3 DEF CreateRow
  <2>2. pc'[p] = "file" /\ fields'[p] = fl /\ \A q \in Procs \ {p} : pc'[q] = "idle"
    BY <2>1 DEF TypeOK
  <2>3. \A q \in Procs : (Creating(q)' => q = p) /\ ~Knows(q)' /\ pc'[q] # "remove"
    BY <2>2 DEF Creating, Knows
  <2>4. InCreation'
    BY <2>1, <2>2, <2>3 DEF InCreation
  <2> QED
    BY <2>3, <2>4
<1>4. CASE CreateFile(p) \/ CreateTableFails(p) \/ CleanFile(p)
  <2>1. /\ row' = row /\ fields' = fields /\ \A q \in Procs \ {p} : pc'[q] = pc[q]
        /\ Creating(p)
        /\ \/ pc[p] = "file" /\ pc'[p] = "table" /\ cols' = cols
           \/ pc'[p] \in {"cleanFile", "cleanRow"}
    BY <1>4 DEF CreateFile, CreateTableFails, CleanFile, TypeOK, data, local, Creating
  <2>2. Creating(p)' /\ \A q \in Procs \ {p} : ~Creating(q)'
    BY <1>2, <2>1 DEF Creating
  <2>3. \A q \in Procs : pc'[q] = "remove" => row' = Absent
    BY <1>2, <2>1
  <2>4. CASE pc'[p] \in {"cleanFile", "cleanRow"}
    BY <2>2, <2>3, <2>4 DEF Cleaning
  <2>5. CASE pc[p] = "file" /\ pc'[p] = "table" /\ cols' = cols
    <3>1. \A q \in Procs : Knows(q)' => Knows(q)
      BY <2>1, <2>5 DEF Knows
    <3>2. row # Absent => InCreation'
      BY <1>1, <2>1, <2>5, <3>1, Creator DEF InCreation
    <3> QED
      BY <2>1, <2>2, <2>3, <3>2
  <2> QED
    BY <2>1, <2>4, <2>5
<1>5. CASE CreateTable(p)
  <2>1. /\ pc[p] = "table" /\ file /\ cols = Absent /\ cols' = fields[p] /\ misplaced = {}
        /\ UNCHANGED <<row, file, misplaced>> /\ Creating(p) /\ fields[p] \in Seq(Columns)
        /\ pc'[p] = "idle" /\ \A q \in Procs \ {p} : pc'[q] = pc[q] /\ fields'[q] = fields[q]
    BY <1>5, Returned DEF CreateTable, history, Creating, TableKept, TypeOK
  <2>2. \A q \in Procs : ~Creating(q)'
    BY <1>2, <2>1 DEF Creating
  <2>3. ASSUME row # Absent PROVE Settled'
    <3>1. row = fields[p] /\ \A q \in Procs : Knows(q) => fields[q] = row
      BY <1>1, <2>1, <2>3, Creator
    <3>2. \A q \in Procs : Knows(q)' => fields'[q] = row
      BY <2>1, <3>1 DEF Knows
    <3> QED
      BY <2>1, <2>2, <2>3, <3>1, <3>2, NotAbsent, FitsSelf DEF Settled
  <2> QED
    BY <1>2, <2>1, <2>2, <2>3
<1>6. CASE CleanRow(p)
  <2>1. /\ row' = Absent /\ Creating(p) /\ pc'[p] = "idle"
        /\ \A q \in Procs \ {p} : pc'[q] = pc[q]
    BY <1>6, Returned DEF CleanRow, Creating
  <2> QED
    BY <1>2, <2>1 DEF Creating
<1> QED
  BY <1>3, <1>4, <1>5, <1>6 DEF Create

\* The row goes first, and nobody makes another while the file is removed.
LEMMA StepDelete == ASSUME NEW p \in Procs PROVE CatalogInv /\ Delete(p) => RowCurrent'
<1> SUFFICES ASSUME CatalogInv, Delete(p) PROVE RowCurrent'
  OBVIOUS
<1> USE DEF CatalogInv, At, Goto
<1>1. CASE ReadForDelete(p)
  <2>1. /\ UNCHANGED <<row, file, cols, crossed, cut, misplaced, fields>>
        /\ pc[p] = "idle" /\ pc'[p] = "deleteRow" /\ \A q \in Procs \ {p} : pc'[q] = pc[q]
    BY <1>1 DEF ReadForDelete, data, local, history, TypeOK
  <2> QED
    BY <2>1, RowFrame DEF Creating, Knows
<1>2. CASE DeleteRow(p) \/ RemoveFile(p)
  <2>1. /\ UNCHANGED <<crossed, cut>> /\ pc[p] \in {"deleteRow", "remove"} /\ pc'[p] \in {"remove", "idle"}
        /\ \A q \in Procs \ {p} : pc'[q] = pc[q]
    BY <1>2, Returned DEF DeleteRow, RemoveFile, history, TypeOK
  <2>2. ~crossed /\ ~cut => row' = Absent
    BY <1>2 DEF DeleteRow, RemoveFile, RowCurrent
  <2>3. \A q \in Procs : Creating(q)' => Creating(q)
    BY <2>1 DEF Creating
  <2> QED
    BY <2>1, <2>2, <2>3 DEF RowCurrent
<1> QED
  BY <1>1, <1>2 DEF Delete

\* Taking the lock and giving up change neither the row nor the table.
LEMMA StepLocks ==
  ASSUME NEW p \in Procs, CatalogInv, LockUpdate(p) \/ LockLoad(p) \/ AlterFails(p) \/ AppendFails(p)
  PROVE  RowCurrent'
<1>1. /\ UNCHANGED <<row, file, cols, crossed, cut, misplaced>>
      /\ pc[p] \in {"lockUpdate", "alter", "lockLoad", "append"}
      /\ pc'[p] \in {"alter", "append", "idle"} /\ \A q \in Procs \ {p} : pc'[q] = pc[q]
      /\ pc'[p] # "idle" => fields'[p] = fields[p]
      /\ \A q \in Procs \ {p} : fields'[q] = fields[q]
  <2> USE DEF CatalogInv, TypeOK, data, local, history, At, Goto
  <2>1. CASE LockUpdate(p)
    BY <2>1, Returned DEF LockUpdate, LockFor
  <2>2. CASE LockLoad(p)
    BY <2>2, Returned DEF LockLoad, LockFor
  <2>3. CASE AlterFails(p) \/ AppendFails(p)
    BY <2>3, Returned DEF AlterFails, AppendFails
  <2> QED
    BY <2>1, <2>2, <2>3
<1> QED
  BY <1>1, RowFrame DEF CatalogInv, Creating, Knows

\* A call that reads the row knows the row.
LEMMA StepRead ==
  ASSUME NEW p \in Procs, NEW fl \in FieldLists, CatalogInv, ReadForUpdate(p, fl) \/ ReadForLoad(p)
  PROVE  RowCurrent'
<1>1. /\ UNCHANGED <<row, file, cols, crossed, cut, misplaced>>
      /\ pc[p] = "idle" /\ pc'[p] \in {"lockUpdate", "lockLoad"} /\ fields'[p] = row
      /\ \A q \in Procs \ {p} : pc'[q] = pc[q] /\ fields'[q] = fields[q]
  BY DEF ReadForUpdate, ReadForLoad, CatalogInv, TypeOK, data, history, At, Goto
<1> QED
  BY <1>1, RowFrame DEF CatalogInv, Creating, Knows

\* A new column comes last in the table and in the fields of the call that adds it.
LEMMA StepAlter == ASSUME NEW p \in Procs, CatalogInv, Alter(p) PROVE RowCurrent'
<1> DEFINE c == want[p][next[p]]
<1>1. UNCHANGED <<row, file, pc, crossed, cut, misplaced>> /\ pc[p] = "alter" /\ c \in Columns
  BY DEF Alter, history, CatalogInv, TypeOK, At
<1>2. CASE UNCHANGED <<cols, fields>>
  BY <1>1, <1>2, RowFrame DEF CatalogInv, Creating, Knows
<1>3. CASE cols # Absent /\ cols' = Append(cols, c) /\ fields' = [fields EXCEPT ![p] = Append(@, c)]
  <2> HIDE DEF c
  <2>1. /\ cols \in Seq(Columns) /\ cols' # Absent /\ fields'[p] = Append(fields[p], c)
        /\ \A q \in Procs : fields[q] \in Seq(Columns)
        /\ \A q \in Procs \ {p} : fields'[q] = fields[q]
    BY <1>1, <1>3, NotAbsent DEF CatalogInv, TypeOK
  <2>2. \A q \in Procs : (Creating(q)' <=> Creating(q)) /\ (Knows(q)' <=> Knows(q))
    BY <1>1 DEF Creating, Knows
  <2>3. Cleaning => Cleaning'
    BY <1>1 DEF Cleaning
  <2>4. InCreation => InCreation'
    BY <1>1, <2>1 DEF InCreation
  <2>5. ASSUME Settled, row # Absent PROVE Settled'
    <3>1. row \in Seq(Columns) /\ Fits(row, cols) /\ \A q \in Procs : Knows(q) => Fits(fields[q], cols)
      BY <2>5 DEF Settled, CatalogInv, TypeOK
    <3>2. Fits(row', cols')
      BY <1>1, <1>3, <2>1, <3>1, FitsAppend
    <3>3. ASSUME NEW q \in Procs, Knows(q)' PROVE Fits(fields'[q], cols')
      <4>1. Fits(fields[q], cols)
        BY <2>2, <3>1, <3>3
      <4> QED
        BY <1>1, <1>3, <2>1, <4>1, FitsAppend
    <3> QED
      BY <1>1, <2>1, <2>2, <2>5, <3>2, <3>3 DEF Settled
  <2> QED
    BY <1>1, <2>2, <2>3, <2>4, <2>5 DEF CatalogInv, RowCurrent, At
<1> QED
  BY <1>2, <1>3 DEF Alter

\* The fields an update has merged fit the table, and become the row.
LEMMA StepUpdateRow == ASSUME NEW p \in Procs, CatalogInv, UpdateRow(p) PROVE RowCurrent'
<1>1. /\ UNCHANGED <<file, cols, crossed, cut, misplaced>> /\ pc[p] = "alter" /\ pc'[p] = "idle"
      /\ row' = IF row = Absent THEN Absent ELSE fields[p]
      /\ \A q \in Procs \ {p} : pc'[q] = pc[q] /\ fields'[q] = fields[q]
  BY Returned DEF UpdateRow, history, CatalogInv, At
<1>2. \A q \in Procs : /\ Creating(q)' <=> Creating(q)
                       /\ Creating(q) => q # p
                       /\ Knows(q)' => Knows(q) /\ fields'[q] = fields[q]
  BY <1>1 DEF Creating, Knows
<1>3. Cleaning => Cleaning'
  BY <1>1 DEF Cleaning
<1>4. row # Absent /\ InCreation => InCreation'
  BY <1>1, <1>2 DEF InCreation, Knows
<1>5. row # Absent /\ Settled => Settled'
  BY <1>1, <1>2 DEF Settled, Knows
<1> QED
  BY <1>1, <1>2, <1>3, <1>4, <1>5 DEF CatalogInv, RowCurrent, At

\* Fields that fit, and are as many as the columns, put every value in place.
LEMMA StepAppendRows == ASSUME NEW p \in Procs, CatalogInv, AppendRows(p) PROVE RowCurrent'
<1>1. /\ UNCHANGED <<row, file, cols, crossed, cut>> /\ pc[p] = "append" /\ pc'[p] = "idle"
      /\ cols # Absent /\ Len(fields[p]) = Len(cols)
      /\ misplaced' = misplaced \cup {x \in Pairs(p) : x[1] # x[2]}
      /\ \A q \in Procs \ {p} : pc'[q] = pc[q] /\ fields'[q] = fields[q]
  BY Returned DEF AppendRows, data, CatalogInv, At
<1>2. Settled => misplaced' = misplaced
  <2> SUFFICES ASSUME Settled, NEW x \in Pairs(p) PROVE x[1] = x[2]
    BY <1>1
  <2>1. Fits(fields[p], cols) /\ fields[p] \in Seq(Columns) /\ cols \in Seq(Columns)
    BY <1>1 DEF Settled, Knows, CatalogInv, TypeOK
  <2> QED
    BY <1>1, <2>1, FitsColumns DEF Pairs
<1> QED
  BY <1>1, <1>2, RowFrame DEF CatalogInv, Creating, Knows

\* A crash leaves the row and the table of a wiretap that nobody was creating.
LEMMA StepCrash == CatalogInv /\ Crash => RowCurrent'
<1> SUFFICES ASSUME CatalogInv, Crash, ~crossed', ~cut'
             PROVE  /\ \A p \in Procs : pc'[p] = "idle"
                    /\ row' # Absent => Settled'
  BY DEF RowCurrent, Creating, At
<1>1. /\ UNCHANGED <<row, file, cols, misplaced>> /\ ~crossed /\ ~cut
      /\ \A p \in Procs : ~Creating(p) /\ pc'[p] = "idle"
  BY DEF Crash, data
<1>2. row # Absent => Settled
  BY <1>1 DEF CatalogInv, RowCurrent, Cleaning, InCreation, Creating
<1> QED
  BY <1>1, <1>2 DEF Settled, Creating, Knows

\* The row and its table belong together after every step.
LEMMA StepCatalog == CatalogInv /\ [Next]_vars => CatalogInv'
<1> SUFFICES ASSUME CatalogInv, [Next]_vars PROVE CatalogInv'
  OBVIOUS
<1>1. TypeOK' /\ LockHeld' /\ TableKept'
  BY StepTyped, StepLocked, StepTable DEF CatalogInv
<1>2. RowCurrent'
  <2>1. ASSUME NEW p \in Procs, Update(p) PROVE RowCurrent'
    BY <2>1, StepRead, StepLocks, StepAlter, StepUpdateRow DEF Update
  <2>2. ASSUME NEW p \in Procs, Load(p) PROVE RowCurrent'
    <3>1. CASE ReadForLoad(p)
      <4>1. /\ UNCHANGED <<row, file, cols, crossed, cut, misplaced>>
            /\ pc[p] = "idle" /\ pc'[p] = "lockLoad" /\ fields'[p] = row
            /\ \A q \in Procs \ {p} : pc'[q] = pc[q] /\ fields'[q] = fields[q]
        BY <3>1 DEF ReadForLoad, CatalogInv, TypeOK, data, history, At, Goto
      <4> QED
        BY <4>1, RowFrame DEF CatalogInv, Creating, Knows
    <3> QED
      BY <2>2, <3>1, StepLocks, StepAppendRows DEF Load
  <2>3. CASE UNCHANGED vars
    BY <2>3, RowFrame DEF vars, data, local, history, CatalogInv, Creating, Knows
  <2> QED
    BY <2>1, <2>2, <2>3, StepCreate, StepDelete, StepCrash DEF Next
<1> QED
  BY <1>1, <1>2 DEF CatalogInv

\* The row of a wiretap and its table belong together, however creations,
\* deletions, updates and loads overlap and fail (CreateWiretap, UpdateWiretap).
THEOREM CatalogCorrect == Spec => []CatalogInv
BY InitCatalog, StepCatalog, PTL DEF Spec

\* Every wiretap in the catalog that nobody creates can be opened, unless it was
\* created over a call still under way or its creation was cut short (DeleteWiretap).
THEOREM RowsHaveFiles == Spec => []RowHasFileUncrossed
<1>1. CatalogInv => RowHasFileUncrossed
  BY DEF CatalogInv, RowCurrent, Cleaning, InCreation, Settled, Creating,
         RowHasFileUncrossed, RowHasFile, Unsettled
<1> QED
  BY <1>1, CatalogCorrect, PTL

\* A field that is offered for searching has a column (UpdateWiretap).
THEOREM FieldsSearchable == Spec => []FieldsHaveColumns
<1>1. CatalogInv => FieldsHaveColumns
  <2> SUFFICES ASSUME CatalogInv, ~crossed, ~cut, row # Absent, ~Unsettled
               PROVE  Elems(row) \subseteq Elems(cols)
    BY DEF FieldsHaveColumns
  <2>1. Settled
    BY DEF CatalogInv, RowCurrent, Cleaning, InCreation, Creating, Unsettled
  <2>2. row \in Seq(Columns) /\ cols \in Seq(Columns) /\ Fits(row, cols)
    BY <2>1 DEF CatalogInv, TypeOK, Settled
  <2> QED
    BY <2>2, FitsColumns
<1> QED
  BY <1>1, CatalogCorrect, PTL

\* A load stores every value in its own column or is refused, however updates
\* overlap and fail halfway (createWiretapTable, appendRows).
THEOREM ValuesKept == Spec => []ValuesInPlace
<1>1. CatalogInv => ValuesInPlace
  BY DEF CatalogInv, RowCurrent, Cleaning, InCreation, Settled, Creating, ValuesInPlace, Unsettled
<1> QED
  BY <1>1, CatalogCorrect, PTL
=============================================================================
