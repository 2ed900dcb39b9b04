--------------------------- MODULE WiretapCatalog ---------------------------
(***************************************************************************)
(* One wiretap's row in the catalog and its table in a file of its own.    *)
(*                                                                         *)
(* CreateWiretap, UpdateWiretap, DeleteWiretap and a load each read the    *)
(* row, then work on the file, with nothing that spans both databases.     *)
(* Rows are appended by position, so the fields a load read from the row   *)
(* must be the table's columns in the table's order.                       *)
(*                                                                         *)
(* A field is a column the user named; the bookkeeping columns come first  *)
(* in every table and are left out.  How a file goes away under an open    *)
(* instance is WiretapHandles; here a removal waits for the write lock.    *)
(***************************************************************************)
EXTENDS Integers, Sequences

CONSTANTS Procs,      \* calls from the window and the scheduler
          FieldLists, \* the fields a user may ask for
          MaxFails,   \* bounds statements that fail, each handled by the code
          MaxStops,   \* bounds crashes, and clean-ups that fail themselves
          None

Columns == UNION {{fl[i] : i \in 1..Len(fl)} : fl \in FieldLists}

ASSUME FieldsAssumption ==
  \A fl \in FieldLists : /\ fl \in Seq(Columns)
                         /\ \A i, j \in 1..Len(fl) : fl[i] = fl[j] => i = j
ASSUME BoundAssumption  == MaxFails \in Nat /\ MaxStops \in Nat
ASSUME NoneAssumption   == None \notin Procs \cup Columns

VARIABLES
  row,       \* fields_json of the wiretap's row, or <<None>> when there is none
  file,      \* there is a file at wiretapPath
  cols,      \* the columns of its table, or <<None>> when it has none
  lock,      \* who holds the handle's writeMu
  pc,
  fields,    \* the fields a call works with: the row's when it read it, then merged
  want, next, \* UpdateWiretap's in.Fields, and which of them it is at
  crossed,   \* history: the wiretap was created while another call was under way
  cut,       \* history: a creation was stopped before it was done or cleaned up
  misplaced, \* history: <<field, column>> of the table's values that are in a wrong one
  fails, stops

data    == <<row, file, cols>>
local   == <<fields, want, next>>
history == <<crossed, cut, misplaced>>
faults  == <<fails, stops>>
vars    == <<data, lock, pc, local, history, faults>>

Absent   == <<None>>
Elems(s) == {s[i] : i \in 1..Len(s)}
Labels   == {"idle", "file", "table", "cleanFile", "cleanRow", "deleteRow",
             "remove", "lockUpdate", "alter", "lockLoad", "append"}

TypeOK ==
  /\ row \in Seq(Columns) \cup {Absent} /\ cols \in Seq(Columns) \cup {Absent}
  /\ file \in BOOLEAN /\ lock \in Procs \cup {None}
  /\ pc \in [Procs -> Labels]
  /\ fields \in [Procs -> Seq(Columns)] /\ want \in [Procs -> Seq(Columns)]
  /\ next \in [Procs -> Nat \ {0}]
  /\ crossed \in BOOLEAN /\ cut \in BOOLEAN /\ misplaced \subseteq Columns \X Columns
  /\ fails \in 0..MaxFails /\ stops \in 0..MaxStops

Init ==
  /\ row = Absent /\ file = FALSE /\ cols = Absent
  /\ lock = None
  /\ pc = [p \in Procs |-> "idle"]
  /\ fields = [p \in Procs |-> <<>>] /\ want = [p \in Procs |-> <<>>]
  /\ next = [p \in Procs |-> 1]
  /\ crossed = FALSE /\ cut = FALSE /\ misplaced = {}
  /\ fails = 0 /\ stops = 0

At(p, l)   == pc[p] = l
Goto(p, l) == pc' = [pc EXCEPT ![p] = l]
Fail       == fails < MaxFails /\ fails' = fails + 1 /\ UNCHANGED stops
Stop       == stops < MaxStops /\ stops' = stops + 1 /\ UNCHANGED fails

\* The call ends, and gives up the write lock if it has it.
Return(p) ==
  /\ Goto(p, "idle")
  /\ lock' = IF lock = p THEN None ELSE lock
  /\ fields' = [fields EXCEPT ![p] = <<>>]
  /\ want' = [want EXCEPT ![p] = <<>>]
  /\ next' = [next EXCEPT ![p] = 1]

\* removeWiretapFiles, which may fail.
RemoveFiles ==
  \/ file' = FALSE /\ cols' = Absent /\ misplaced' = {} /\ UNCHANGED faults
  \/ Stop /\ UNCHANGED <<file, cols, misplaced>>

(***************************************************************************)
(* CreateWiretap.                                                          *)
(***************************************************************************)
\* No row has the id: it is inserted, before there is a file.
CreateRow(p, fl) ==
  /\ At(p, "idle") /\ row = Absent
  /\ row' = fl
  /\ fields' = [fields EXCEPT ![p] = fl]
  /\ crossed' = (crossed \/ \E q \in Procs \ {p} : ~At(q, "idle"))
  /\ Goto(p, "file")
  /\ UNCHANGED <<file, cols, lock, want, next, cut, misplaced, faults>>

\* createHandle opens the file there is, or a new one, and may fail before or after.
CreateFile(p) ==
  /\ At(p, "file")
  /\ \/ file' = TRUE /\ Goto(p, "table") /\ UNCHANGED faults
     \/ Fail /\ Goto(p, "cleanFile") /\ file' \in {file, TRUE}
  /\ UNCHANGED <<row, cols, lock, local, history>>

\* CREATE TABLE, which fails when the file has one, or was removed.
CreateTable(p) ==
  /\ At(p, "table") /\ file /\ cols = Absent
  /\ cols' = fields[p]
  /\ Return(p)
  /\ UNCHANGED <<row, file, history, faults>>

CreateTableFails(p) ==
  /\ At(p, "table")
  /\ IF file /\ cols = Absent THEN Fail ELSE UNCHANGED faults
  /\ Goto(p, "cleanFile")
  /\ UNCHANGED <<data, lock, local, history>>

\* CreateWiretap cleans up; it ignores the error of removeWiretapFiles.
CleanFile(p) ==
  /\ At(p, "cleanFile") /\ lock = None
  /\ RemoveFiles
  /\ Goto(p, "cleanRow")
  /\ UNCHANGED <<row, lock, local, crossed, cut>>

\* Variant: the cleanup forgets the row.
CleanRowKept(p) ==
  /\ At(p, "cleanRow")
  /\ Return(p)
  /\ UNCHANGED <<data, history, faults>>

\* It ignores the row's, too.
CleanRow(p) ==
  /\ At(p, "cleanRow")
  /\ \/ row' = Absent /\ UNCHANGED <<faults, cut>>
     \/ Stop /\ UNCHANGED row /\ cut' = TRUE
  /\ Return(p)
  /\ UNCHANGED <<file, cols, crossed, misplaced>>

(***************************************************************************)
(* DeleteWiretap.                                                          *)
(***************************************************************************)
\* GetWiretap.
ReadForDelete(p) ==
  /\ At(p, "idle") /\ row # Absent
  /\ Goto(p, "deleteRow")
  /\ UNCHANGED <<data, lock, local, history, faults>>

\* DELETE ... WHERE id: whatever row has the id now, if any.
DeleteRow(p) ==
  /\ At(p, "deleteRow")
  /\ row' = Absent
  /\ Goto(p, "remove")
  /\ UNCHANGED <<file, cols, lock, local, history, faults>>

RemoveFile(p) ==
  /\ At(p, "remove") /\ lock = None
  /\ RemoveFiles
  /\ Return(p)
  /\ UNCHANGED <<row, crossed, cut>>

(***************************************************************************)
(* UpdateWiretap.                                                          *)
(***************************************************************************)
\* GetWiretap, before the lock.
ReadForUpdate(p, fl) ==
  /\ At(p, "idle") /\ row # Absent
  /\ fields' = [fields EXCEPT ![p] = row]
  /\ want' = [want EXCEPT ![p] = fl]
  /\ Goto(p, "lockUpdate")
  /\ UNCHANGED <<data, lock, next, history, faults>>

\* handle and lockWrite; without a file the call fails.
LockFor(p, from, to) ==
  /\ At(p, from)
  /\ \/ /\ file /\ lock = None
        /\ lock' = p
        /\ Goto(p, to)
        /\ UNCHANGED local
     \/ ~file /\ Return(p)
  /\ UNCHANGED <<data, history, faults>>

LockUpdate(p) == LockFor(p, "lockUpdate", "alter")

\* Variant: the new columns are put where the user has them in the form.
AlterInFront(p) ==
  LET c == want[p][next[p]] IN
  /\ At(p, "alter") /\ next[p] <= Len(want[p])
  /\ c \in Elems(fields[p]) \/ (cols # Absent /\ c \notin Elems(cols))
  /\ IF c \in Elems(fields[p]) THEN UNCHANGED <<cols, fields>>
     ELSE /\ cols' = Append(cols, c)
          /\ fields' = [fields EXCEPT ![p] = <<c>> \o @]
  /\ next' = [next EXCEPT ![p] = @ + 1]
  /\ UNCHANGED <<row, file, lock, pc, want, history, faults>>

\* A field the row did not have becomes the table's last column.
Alter(p) ==
  LET c == want[p][next[p]] IN
  /\ At(p, "alter") /\ next[p] <= Len(want[p])
  /\ c \in Elems(fields[p]) \/ (cols # Absent /\ c \notin Elems(cols))
  /\ IF c \in Elems(fields[p]) THEN UNCHANGED <<cols, fields>>
     ELSE /\ cols' = Append(cols, c)
          /\ fields' = [fields EXCEPT ![p] = Append(@, c)]
  /\ next' = [next EXCEPT ![p] = @ + 1]
  /\ UNCHANGED <<row, file, lock, pc, want, history, faults>>

\* Variant: a return that misses the unlock.
AlterFailsLocked(p) ==
  /\ At(p, "alter") /\ Fail
  /\ Goto(p, "idle")
  /\ UNCHANGED <<data, lock, local, history>>

\* Variant: a failing ALTER is logged, and the field recorded all the same.
AlterFailsRecorded(p) ==
  /\ At(p, "alter") /\ next[p] <= Len(want[p]) /\ want[p][next[p]] \notin Elems(fields[p])
  /\ Fail
  /\ fields' = [fields EXCEPT ![p] = Append(@, want[p][next[p]])]
  /\ next' = [next EXCEPT ![p] = @ + 1]
  /\ UNCHANGED <<data, lock, pc, want, history>>

\* A failing statement ends the call; the columns added before it stay.
AlterFails(p) ==
  /\ At(p, "alter")
  /\ \/ Fail
     \/ /\ next[p] <= Len(want[p]) /\ want[p][next[p]] \notin Elems(fields[p])
        /\ cols = Absent \/ want[p][next[p]] \in Elems(cols)
        /\ UNCHANGED faults
  /\ Return(p)
  /\ UNCHANGED <<data, history>>

\* UPDATE ... WHERE id: whatever row has the id now, if any.
UpdateRow(p) ==
  /\ At(p, "alter") /\ next[p] > Len(want[p])
  /\ row' = IF row = Absent THEN Absent ELSE fields[p]
  /\ Return(p)
  /\ UNCHANGED <<file, cols, history, faults>>

(***************************************************************************)
(* A load: GetWiretap or ListWiretaps, then CommitFile.                    *)
(***************************************************************************)
ReadForLoad(p) ==
  /\ At(p, "idle") /\ row # Absent
  /\ fields' = [fields EXCEPT ![p] = row]
  /\ Goto(p, "lockLoad")
  /\ UNCHANGED <<data, lock, want, next, history, faults>>

LockLoad(p) == LockFor(p, "lockLoad", "append")

Pairs(p) == {<<fields[p][i], cols[i]>> : i \in 1..Len(fields[p])}

\* The Appender takes a row of as many values as the table has columns.
AppendRows(p) ==
  /\ At(p, "append") /\ cols # Absent /\ Len(fields[p]) = Len(cols)
  /\ misplaced' = misplaced \cup {x \in Pairs(p) : x[1] # x[2]}
  /\ Return(p)
  /\ UNCHANGED <<data, crossed, cut, faults>>

AppendFails(p) ==
  /\ At(p, "append")
  /\ IF cols # Absent /\ Len(fields[p]) = Len(cols) THEN Fail ELSE UNCHANGED faults
  /\ Return(p)
  /\ UNCHANGED <<data, history>>

Creating(p) == pc[p] \in {"file", "table", "cleanFile", "cleanRow"}

\* The program dies; both databases keep what was committed.
Crash ==
  /\ Stop
  /\ \E p \in Procs : ~At(p, "idle")
  /\ lock' = None
  /\ pc' = [p \in Procs |-> "idle"]
  /\ fields' = [p \in Procs |-> <<>>] /\ want' = [p \in Procs |-> <<>>]
  /\ next' = [p \in Procs |-> 1]
  /\ cut' = (cut \/ \E p \in Procs : Creating(p))
  /\ UNCHANGED <<data, crossed, misplaced>>

Create(p) ==
  \/ \E fl \in FieldLists : CreateRow(p, fl)
  \/ CreateFile(p) \/ CreateTable(p) \/ CreateTableFails(p) \/ CleanFile(p) \/ CleanRow(p)
Delete(p) == ReadForDelete(p) \/ DeleteRow(p) \/ RemoveFile(p)
Update(p) ==
  \/ \E fl \in FieldLists : ReadForUpdate(p, fl)
  \/ LockUpdate(p) \/ Alter(p) \/ AlterFails(p) \/ UpdateRow(p)
Load(p) == ReadForLoad(p) \/ LockLoad(p) \/ AppendRows(p) \/ AppendFails(p)

Next == Crash \/ \E p \in Procs : Create(p) \/ Delete(p) \/ Update(p) \/ Load(p)

Spec == Init /\ [][Next]_vars

(***************************************************************************)
(* Properties.                                                             *)
(***************************************************************************)
\* "A row without a file is not" harmless (DeleteWiretap): every wiretap in the
\* catalog that nobody is creating or deleting can be opened.
Unsettled == \E p \in Procs : Creating(p) \/ At(p, "remove")

RowHasFile == row # Absent => (file /\ cols # Absent) \/ Unsettled

\* The promise is kept through overlapping deletes, clean-ups, updates and loads,
\* every failing statement, and crashes of anything but a creation (a file that a
\* deletion leaves behind is harmless), unless the wiretap was created while a
\* call on an earlier one of the same name, its removal say, was under way.
RowHasFileUncrossed == ~crossed /\ ~cut => RowHasFile

\* "The Appender binds positionally and ALTER ADD COLUMN appends, so the two must
\* agree" (createWiretapTable): between calls the row's fields are the columns.
FieldsAgree ==
  row # Absent /\ cols # Absent /\ (\A p \in Procs : At(p, "idle")) => row = cols

\* A field the catalog offers for searching has a column in the table, although
\* updates that overlap or stop halfway leave columns without a field.
FieldsHaveColumns ==
  ~crossed /\ ~cut /\ row # Absent => Elems(row) \subseteq Elems(cols) \/ Unsettled

\* However updates overlap, fail halfway and lose each other's fields, a load
\* stores the values of a wiretap in their own columns or is refused, unless a
\* creation was crossed, or cut short over a file that a deletion had left behind.
ValuesInPlace == ~crossed /\ ~cut /\ row # Absent => misplaced = {} \/ Unsettled

\* Calls have the write lock just while they alter the table or append to it.
LockHeld == \A p \in Procs : lock = p <=> pc[p] \in {"alter", "append"}

\* A table is in a file, and values are in a table.
TableKept == (~file => cols = Absent) /\ (cols = Absent => misplaced = {})

\* A list of fields whose values would land in their own columns, or be refused:
\* every field has a column no further to the front, and none too far behind.
Fits(f, t) == \A i \in 1..Len(f) : \E k \in i..(Len(t) - Len(f) + i) : t[k] = f[i]

\* The row and its table belong together, or else whoever is creating them is still
\* going to find the path clear, or to clean up; calls have read this row.
Knows(q)   == pc[q] \in {"lockUpdate", "alter", "lockLoad", "append"}
Cleaning   == \E p \in Procs : pc[p] \in {"cleanFile", "cleanRow"}
InCreation == \E p \in Procs : /\ pc[p] \in {"file", "table"}
                               /\ cols = Absent => /\ row = fields[p]
                                                   /\ \A q \in Procs : Knows(q) => fields[q] = row
Settled    == /\ \A p \in Procs : ~Creating(p)
              /\ file /\ cols # Absent /\ misplaced = {}
              /\ Fits(row, cols) /\ \A q \in Procs : Knows(q) => Fits(fields[q], cols)
RowCurrent ==
  ~crossed /\ ~cut =>
    /\ \A p, q \in Procs : Creating(p) /\ Creating(q) => p = q
    /\ \A p \in Procs : At(p, "remove") => row = Absent
    /\ row # Absent => Cleaning \/ InCreation \/ Settled

\* The inductive invariant behind the above.
CatalogInv == TypeOK /\ LockHeld /\ TableKept /\ RowCurrent
=============================================================================
