------------------------------ MODULE Retention ------------------------------
(***************************************************************************)
(* A wiretap's table as loads fill it and ApplyRetention empties it: rows  *)
(* past the age limit, then in up to three passes the oldest share of a    *)
(* file over its size cap, and the copy that gives the space back.         *)
(*                                                                         *)
(* Everything here holds the wiretap's write lock, so calls do not         *)
(* overlap; a statement may fail after any of them.  The size of file and  *)
(* log is read before each pass and may be anything: lines have any        *)
(* length, and what DuckDB makes of them is not known.  Fractions are      *)
(* exact, where the code has float64.                                      *)
(***************************************************************************)
EXTENDS CopySpans, ParseLines

CONSTANTS
  Contents,     \* the files there may be, each a sequence of lines
  Files,
  Days, Caps,   \* what RetentionDays and MaxSizeMB may be; 0 for neither
  Sizes,        \* what wiretapSize may report, in the units of Caps
  Fits,         \* how many rows an INSERT may have before it runs out of memory
  Start, End    \* the clock's first and last day

None == NoTime

\* A file is a sequence of lines, and what may be read as a time is a whole number.
ASSUME ContentsAssumption ==
  \A lines \in Contents :
    /\ lines \in Seq({lines[i] : i \in DOMAIN lines})
    /\ \A i \in DOMAIN lines : lines[i].kind = "object" =>
         \A k \in DOMAIN lines[i].obj : lines[i].obj[k].type \in {"text", "number"} =>
                                         lines[i].obj[k].at \in Int
ASSUME NoneAssumption == None \notin [lines : Contents, now : Start..End]
ASSUME PolicyAssumption == Days \subseteq Nat /\ Caps \subseteq Nat
                           /\ Sizes \subseteq Nat /\ Fits \subseteq Nat
                           /\ Start \in Int /\ End \in Int /\ Start <= End

VARIABLES
  table,      \* the rows, a sequence in the order of their rowids
  dead,       \* history: how many rows were deleted since the file was last copied
  now,
  source,     \* history: the file each load read, and when
  purged,     \* history: the rows retention has deleted
  pc,
  policy,     \* the row's settings
  deleted, remaining, needCompact, pass, size, \* ApplyRetention's variables
  before      \* history: how many rows there were when it began

run  == <<policy, deleted, remaining, needCompact, pass, size, before>>
vars == <<table, dead, now, source, purged, pc, run>>

RowsIn(t)      == {t[i] : i \in DOMAIN t}
Without(t, S)  == Picked(t, InOrder({i \in DOMAIN t : t[i] \notin S}))

\* Variant: a row at the cutoff is deleted, too.
OlderThanOrAt(cut) == {r \in RowsIn(table) : r.at <= cut}

OlderThan(cut) == {r \in RowsIn(table) : r.at < cut}

Init ==
  /\ table = <<>> /\ dead = 0 /\ now = Start
  /\ source = [f \in Files |-> None] /\ purged = {}
  /\ pc = "idle" /\ policy = [days |-> 0, cap |-> 0]
  /\ deleted = 0 /\ remaining = 0 /\ needCompact = FALSE
  /\ pass = 0 /\ size = 0 /\ before = 0

Day == pc = "idle" /\ now < End /\ now' = now + 1
       /\ UNCHANGED <<table, dead, source, purged, pc, run>>

\* Rows in the order of their lines: the k-th has k - 1 before it.
ByLine(rows) == [k \in 1..Cardinality(rows) |->
                   CHOOSE r \in rows : Cardinality({s \in rows : s.line < r.line}) = k - 1]

\* CommitFile: the rows are appended.
Load(f, lines) ==
  /\ pc = "idle" /\ source[f] = None
  /\ source' = [source EXCEPT ![f] = [lines |-> lines, now |-> now]]
  /\ table' = table \o ByLine(FileRows(f, lines, now))
  /\ UNCHANGED <<dead, now, purged, pc, run>>

\* deleteOlderThanLocked, which does not make the file smaller.
Delete(cut) == /\ table' = Without(table, OlderThan(cut))
               /\ purged' = purged \cup OlderThan(cut)
               /\ deleted' = deleted + Cardinality(OlderThan(cut))
               /\ dead' = dead + Cardinality(OlderThan(cut))

\* Variant: the share is that of the rows before the expiry.
ExpireByAgeShare(days, cap) ==
  /\ pc = "idle" /\ days + cap > 0
  /\ policy' = [days |-> days, cap |-> cap]
  /\ LET old == IF days > 0 THEN OlderThan(now - days) ELSE {}
         n == Cardinality(old)
     IN  /\ table' = Without(table, old) /\ purged' = purged \cup old
         /\ deleted' = n /\ remaining' = Len(table) - n /\ dead' = dead + n
         /\ needCompact' = (n > 0 /\ 4 * n >= Len(table))
  /\ pass' = 0 /\ size' \in Sizes /\ before' = Len(table) /\ pc' = "pass"
  /\ UNCHANGED <<now, source>>

\* The age limit, the count, and whether a quarter of what remains has gone.
ExpireByAge(days, cap) ==
  /\ pc = "idle" /\ days + cap > 0
  /\ policy' = [days |-> days, cap |-> cap]
  /\ LET old == IF days > 0 THEN OlderThan(now - days) ELSE {}
         n == Cardinality(old)
     IN  /\ table' = Without(table, old) /\ purged' = purged \cup old
         /\ deleted' = n /\ remaining' = Len(table) - n /\ dead' = dead + n
         /\ needCompact' = (n > 0 /\ 4 * n >= Len(table) - n)
  /\ pass' = 0 /\ size' \in Sizes /\ before' = Len(table) /\ pc' = "pass"
  /\ UNCHANGED <<now, source>>

\* The overshoot and a tenth of it, between a tenth and a half, of the rows.
Offset ==
  LET num == 11 * (size - policy.cap)
      den == 10 * size
      share == IF 10 * num < den THEN remaining \div 10
               ELSE IF 2 * num > den THEN remaining \div 2
               ELSE (remaining * num) \div den
  IN  Min({Max({share, 1}), remaining - 1})

\* ORDER BY t LIMIT 1 OFFSET offset, and a microsecond more: so many rows are older, and
\* the next one has this time.
OldestCutoff ==
  1 + CHOOSE t \in {r.at : r \in RowsIn(table)} :
        /\ Cardinality({i \in DOMAIN table : table[i].at < t}) <= Offset
        /\ Offset < Cardinality({i \in DOMAIN table : table[i].at <= t})

OverCap == policy.cap > 0 /\ pass < 3 /\ size > policy.cap

\* Variant: the rows a pass deletes are not subtracted.
TrimUncounted ==
  /\ pc = "pass" /\ OverCap
  /\ IF remaining > 1 THEN Delete(OldestCutoff) /\ UNCHANGED remaining
     ELSE UNCHANGED <<table, dead, purged, deleted, remaining>>
  /\ pc' = "compact"
  /\ UNCHANGED <<now, source, policy, needCompact, pass, size, before>>

\* Variant: the oldest are looked for from the other end.
TrimNewest ==
  /\ pc = "pass" /\ OverCap
  /\ IF remaining > 1
     THEN LET cut == 1 + CHOOSE t \in {r.at : r \in RowsIn(table)} :
                           /\ Cardinality({i \in DOMAIN table : table[i].at > t}) <= Offset
                           /\ Offset < Cardinality({i \in DOMAIN table : table[i].at >= t})
          IN  Delete(cut) /\ remaining' = remaining - Cardinality(OlderThan(cut))
     ELSE UNCHANGED <<table, dead, purged, deleted, remaining>>
  /\ pc' = "compact"
  /\ UNCHANGED <<now, source, policy, needCompact, pass, size, before>>

\* One pass of the size cap: trim, then compact.
Trim ==
  /\ pc = "pass" /\ OverCap
  /\ IF remaining > 1
     THEN Delete(OldestCutoff) /\ remaining' = remaining - Cardinality(OlderThan(OldestCutoff))
     ELSE UNCHANGED <<table, dead, purged, deleted, remaining>>
  /\ pc' = "compact"
  /\ UNCHANGED <<now, source, policy, needCompact, pass, size, before>>

\* compactLocked, if its copy comes to an end.
Compact(fit) == /\ CopySucceeds(table, fit)
                /\ table' = CopiedTable(table, fit)
                /\ dead' = 0
                /\ UNCHANGED <<now, source, purged, policy, deleted, remaining, before>>

\* Variant: one pass is all.
CompactPassOnce(fit) ==
  /\ pc = "compact" /\ Compact(fit)
  /\ needCompact' = FALSE /\ pass' = 3 /\ size' \in Sizes /\ pc' = "pass"

\* A break when at most one row is left is as good as the last pass.
CompactPass(fit) ==
  /\ pc = "compact" /\ Compact(fit)
  /\ needCompact' = FALSE
  /\ pass' = IF remaining <= 1 THEN 3 ELSE pass + 1
  /\ size' \in Sizes /\ pc' = "pass"

CompactLast(fit) ==
  /\ pc = "pass" /\ ~OverCap /\ needCompact /\ Compact(fit)
  /\ pc' = "done" /\ UNCHANGED <<needCompact, pass, size>>

Finish ==
  /\ pc = "pass" /\ ~OverCap /\ ~needCompact /\ pc' = "done"
  /\ UNCHANGED <<table, dead, now, source, purged, run>>

\* RunRetentionNow and the scheduler compact on their own account, too.
CompactWiretap(fit) == /\ pc = "idle" /\ Compact(fit)
                       /\ UNCHANGED <<pc, needCompact, pass, size>>

\* A statement or a copy fails, or the call has returned.
Return == /\ pc # "idle" /\ pc' = "idle"
          /\ policy' = [days |-> 0, cap |-> 0]
          /\ deleted' = 0 /\ remaining' = 0 /\ needCompact' = FALSE
          /\ pass' = 0 /\ size' = 0 /\ before' = 0
          /\ UNCHANGED <<table, dead, now, source, purged>>

Next ==
  \/ Day \/ Trim \/ Finish \/ Return
  \/ \E f \in Files, lines \in Contents : Load(f, lines)
  \/ \E days \in Days, cap \in Caps : ExpireByAge(days, cap)
  \/ \E fit \in Fits : CompactPass(fit) \/ CompactLast(fit) \/ CompactWiretap(fit)

Spec == Init /\ [][Next]_vars

-----------------------------------------------------------------------------
Rows == [file : Files, line : Nat \ {0}, timed : BOOLEAN, at : Int]

TypeOK ==
  /\ table \in Seq(Rows) /\ purged \subseteq Rows
  /\ source \in [Files -> [lines : Contents, now : Start..End] \cup {None}]
  /\ dead \in Nat /\ now \in Start..End
  /\ pc \in {"idle", "pass", "compact", "done"} /\ pass \in 0..3 /\ size \in Sizes \cup {0}
  /\ {deleted, remaining, before} \subseteq Nat /\ needCompact \in BOOLEAN
  /\ policy \in [days : Days \cup {0}, cap : Caps \cup {0}]

(* Every line that is a JSON object is a row with its own number and time   *)
(* until retention deletes it: none is lost between the workers' slices,    *)
(* the chunks or the spans of a copy (parseLinesConcurrently, copySpan).    *)
RowsOf(file, lines, at) ==
  {[file |-> file, line |-> i, timed |-> Line(lines[i]).ts # NoTime,
    at |-> IF Line(lines[i]).ts # NoTime THEN Line(lines[i]).ts ELSE at] :
      i \in {i \in DOMAIN lines : Line(lines[i]).ok}}
LinesOf(f) == RowsOf(f, source[f].lines, source[f].now)
Loaded     == UNION {LinesOf(f) : f \in {f \in Files : source[f] # None}}
RowsKept   == RowsIn(table) = Loaded \ purged

(* The count that the passes carry along instead of asking again is that of *)
(* the rows there are, and what is reported as deleted has gone             *)
(* (ApplyRetention).                                                        *)
CountsAgree == pc # "idle" => remaining = Len(table) /\ deleted = before - Len(table)

(* Before the first pass a compaction is asked for when enough has gone;    *)
(* after it the file holds no deleted row.                                  *)
SpaceKnown ==
  pc = "pass" => IF pass = 0 THEN needCompact = (deleted > 0 /\ 4 * deleted >= Len(table))
                             ELSE dead = 0 /\ ~needCompact

(* Every pass takes more than a tenth of what is there.                     *)
Left(part, whole) == Len(table) <= 1 \/ whole * Len(table) <= part * before
PassesTake ==
  LET made == IF pc = "compact" THEN pass + 1 ELSE pass
  IN  /\ pc = "compact" => policy.cap > 0 /\ pass < 3
      /\ pc \in {"pass", "compact"} => /\ made = 1 => Left(9, 10)
                                       /\ made = 2 => Left(81, 100)
                                       /\ made = 3 => Left(729, 1000)

RetentionInv == TypeOK /\ purged \subseteq Loaded /\ CountsAgree /\ SpaceKnown /\ PassesTake

(* No row is in the table twice, however often its span was halved on the   *)
(* way through compactions (copySpan, copyRowidRange).                      *)
RowsOnce == \A i, j \in DOMAIN table :
              i # j => <<table[i].file, table[i].line>> # <<table[j].file, table[j].line>>

(* A copy comes to its end unless an INSERT of MinBatch rows is too large:   *)
(* many rows of one microsecond are still halved by their rowids            *)
(* (copySpanByRowid, minCopyBatchRows).  A CHECKPOINT between two INSERTs   *)
(* that runs out of memory is not tried again; it ends the call (Return).   *)
CopyCopes == \A fit \in Fits : fit >= MinBatch => CopySucceeds(table, fit)

(* The size cap never takes more than half of the rows, but for the one at  *)
(* the boundary and those of the same microsecond, and takes the oldest     *)
(* (sizeCapMaxTrimFraction, oldestCutoff).                                  *)
TrimBounded ==
  [][pc = "pass" /\ pc' = "compact" =>
       LET gone == RowsIn(table) \ RowsIn(table')
       IN  gone # {} => LET last == Max({r.at : r \in gone})
                        IN  /\ 2 * Cardinality({r \in gone : r.at < last}) <= Len(table)
                            /\ \A r \in RowsIn(table') : r.at > last]_vars

(* A call that returns without error has last read a size within the cap,  *)
(* or left at most one row, or taken more than a quarter of the rows in     *)
(* three passes (sizeCapMinTrimFraction, sizeCapMaxPasses).  The file may   *)
(* still be over its cap then: how many bytes the oldest rows had is not    *)
(* known.                                                                   *)
CapPursued == pc = "done" => \/ policy.cap = 0 \/ size <= policy.cap \/ Len(table) <= 1
                             \/ 1000 * Len(table) <= 729 * before

(* When it has deleted a quarter of what remains, or made a pass for the    *)
(* cap, no deleted row is left in the file (compactAfterDeletedFraction).   *)
SpaceReturned ==
  pc = "done" /\ (pass > 0 \/ (deleted > 0 /\ 4 * deleted >= Len(table))) => dead = 0

(* Whatever is copied, halved and tried again, callers see loads, expiries  *)
(* and trims that take the oldest, each of them whole, and no other change  *)
(* of the rows (CommitFile, deleteOlderThanLocked, compactLocked).          *)
Store == INSTANCE LineStore WITH
           File <- Files, Text <- Contents, First <- Start, Last <- End, Limit <- Days,
           RowsFor <- [f \in Files |-> [t \in Contents |-> [d \in Start..End |-> RowsOf(f, t, d)]]],
           rows <- RowsIn(table), loaded <- {f \in Files : source[f] # None}, today <- now
Implements == Store!Spec
==============================================================================
