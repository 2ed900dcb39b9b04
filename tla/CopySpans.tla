------------------------------ MODULE CopySpans ------------------------------
(***************************************************************************)
(* How compaction copies a table into a new file: in spans of time, halved *)
(* until one INSERT takes at most MaxBatch rows, and in ranges of rowids   *)
(* where a single microsecond still holds more.  An INSERT over more than  *)
(* "fit" rows runs out of memory.                                          *)
(*                                                                         *)
(* A table is a sequence of rows with a time "at" in microseconds, of the  *)
(* line itself if "timed" and of its ingestion if not; its index is the    *)
(* rowid.  Spans are computed in finer units, as in Go, and DuckDB         *)
(* compares them in microseconds.                                          *)
(***************************************************************************)
EXTENDS Integers, Sequences, FiniteSets, FiniteSetsExt

CONSTANTS MaxBatch, MinBatch, \* rows per INSERT, and where halving them stops
          Micro               \* the units of a span's bounds in a microsecond

ASSUME BatchAssumption == MinBatch \in Nat \ {0} /\ MaxBatch \in Nat \ {0}
ASSUME MicroAssumption == Micro \in Nat \ {0}

Failed == 0  \* in place of a rowid: the statement failed for good

\* INSERT … SELECT gives no order; the rowids are taken in theirs: the k-th is the one
\* with k - 1 before it.
InOrder(S) == [k \in 1..Cardinality(S) |-> CHOOSE i \in S : Cardinality({j \in S : j < i}) = k - 1]

\* The rows of a table at these rowids.
Picked(table, q) == [k \in DOMAIN q |-> table[q[k]]]

\* The rows of S in a range of rowids.
Ranged(S, lo, hi) == {i \in S : lo <= i /\ i < hi}

\* Variant: a range that runs out of memory is not halved.
CopyRowidRangeOnce(S, max, fit, copied, lo, hi) ==
  LET R == Ranged(S, lo, hi)
      n == Cardinality(R)
      mid == lo + (hi - lo) \div 2
  IN  CASE n = 0 -> <<>>
        [] n > max /\ hi - lo > 1 -> copied[<<lo, mid>>] \o copied[<<mid, hi>>]
        [] OTHER -> IF n > fit THEN <<Failed>> ELSE InOrder(R)

\* copyRowidRange over the rows S of a span; "copied" are its calls for the halves.
CopyRowidRange(S, max, fit, copied, lo, hi) ==
  LET R == Ranged(S, lo, hi)
      n == Cardinality(R)
      mid == lo + (hi - lo) \div 2
      halve == hi - lo > 1 /\ (n > max \/ (n > fit /\ n > MinBatch))
  IN  CASE n = 0 -> <<>>
        [] n > 0 /\ halve -> copied[<<lo, mid>>] \o copied[<<mid, hi>>]
        [] OTHER -> IF n > fit THEN <<Failed>> ELSE InOrder(R)

CopySpanByRowid(S, max, fit) ==
  LET copied[s \in Nat \X Nat] == CopyRowidRange(S, max, fit, copied, s[1], s[2])
  IN  copied[<<Min(S), Max(S) + 1>>]

\* Variant: a span includes its upper bound.
InSpanClosed(at, lo, hi) == lo \div Micro <= at /\ at <= hi \div Micro

\* A span is half open.
InSpan(at, lo, hi) == lo \div Micro <= at /\ at < hi \div Micro

Spanned(table, P, lo, hi) == {i \in P : InSpan(table[i].at, lo, hi)}

\* copySpan over the rowids P; "copied" are its calls for the halves.
CopySpan(table, P, fit, copied, lo, hi) ==
  LET S == Spanned(table, P, lo, hi)
      n == Cardinality(S)
      mid == lo + (hi - lo) \div 2
      splittable == n > 1 /\ hi - lo > Micro
  IN  CASE n = 0 -> <<>>
        [] n > 0 /\ n <= MaxBatch /\ n <= fit -> InOrder(S)
        [] (n > MaxBatch \/ n > fit) /\ splittable -> copied[<<lo, mid>>] \o copied[<<mid, hi>>]
        [] n > MaxBatch /\ ~splittable -> CopySpanByRowid(S, MaxBatch, fit)
        [] n > fit /\ n <= MaxBatch /\ ~splittable ->
             CopySpanByRowid(S, Max({MaxBatch \div 2, MinBatch}), fit)

\* copyRange: the rowids of the rows with or without a time, in the order of the new file.
CopyRange(table, timed, fit) ==
  LET P == {i \in DOMAIN table : table[i].timed = timed}
      times == {table[i].at : i \in P}
      copied[s \in Int \X Int] == CopySpan(table, P, fit, copied, s[1], s[2])
  IN  IF P = {} THEN <<>> ELSE copied[<<Min(times) * Micro, Max(times) * Micro + Micro>>]

\* copyWiretapTo: the rows with a time, then those without.
CopyOrder(table, fit) == CopyRange(table, TRUE, fit) \o CopyRange(table, FALSE, fit)
CopySucceeds(table, fit) == \A i \in DOMAIN CopyOrder(table, fit) : CopyOrder(table, fit)[i] # Failed
CopiedTable(table, fit)  == Picked(table, CopyOrder(table, fit))
==============================================================================
