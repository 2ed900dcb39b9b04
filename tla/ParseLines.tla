------------------------------ MODULE ParseLines ------------------------------
(***************************************************************************)
(* From a file's lines to rows: chunks of ChunkLines lines, each cut into  *)
(* slices that workers parse side by side and write back by index, and the *)
(* rows numbered by their line.                                            *)
(*                                                                         *)
(* A line is blank, no JSON object, or an object from keys to values.  Of  *)
(* its fields only the time is modelled, of a value what becomes of it as  *)
(* a time: the digits of a text in one of the layouts, a number, no time.  *)
(***************************************************************************)
EXTENDS Integers, Sequences, FiniteSets, FiniteSetsExt

CONSTANTS ChunkLines, Workers,
          TimeKeys,                \* the time field's JSONKeys
          EpochLimit, EpochScale,  \* 1e12, and milliseconds in a second
          NoTime

ASSUME LinesAssumption == ChunkLines \in Nat \ {0} /\ Workers \in Nat \ {0}
ASSUME TimesAssumption == /\ TimeKeys \in Seq({TimeKeys[k] : k \in DOMAIN TimeKeys})
                          /\ EpochLimit \in Int /\ EpochScale \in Nat \ {0} /\ NoTime \notin Int

\* parseTimestamp, with parseTimeString and parseEpoch.
ParsedTime(v) ==
  CASE v.type = "text"   -> v.at
    [] v.type = "number" -> IF v.at > EpochLimit THEN v.at \div EpochScale ELSE v.at
    [] OTHER             -> NoTime

\* The first of the keys whose value is a time.
FirstTimestamp(obj) ==
  LET hits == {k \in DOMAIN TimeKeys :
                 TimeKeys[k] \in DOMAIN obj /\ ParsedTime(obj[TimeKeys[k]]) # NoTime}
  IN  IF hits = {} THEN NoTime ELSE ParsedTime(obj[TimeKeys[Min(hits)]])

Line(l) == [blank |-> l.kind = "blank", ok |-> l.kind = "object",
            ts |-> IF l.kind = "object" THEN FirstTimestamp(l.obj) ELSE NoTime]
NotParsed == [blank |-> FALSE, ok |-> FALSE, ts |-> NoTime]

\* Variant: as many slices as workers, of the rounded down size.
SlicesFloor(n) ==
  LET workers == Min({Workers, n})
      size == n \div workers
  IN  {[start |-> k * size, end |-> k * size + size] : k \in 0..(workers - 1)}

\* Each slice goes from start (not in it) to end.
Slices(n) ==
  LET workers == Min({Workers, n})
      size == (n + workers - 1) \div workers
  IN  {[start |-> k * size, end |-> Min({k * size + size, n})] : k \in {k \in 0..n : k * size < n}}

ParsedLines(lines) ==
  LET n == Len(lines)
  IN  [i \in 1..n |-> IF \E s \in Slices(n) : s.start < i /\ i <= s.end
                      THEN Line(lines[i]) ELSE NotParsed]

\* appendChunk: a row for each line that is neither blank nor skipped.
ChunkRows(file, lines, first, now) ==
  LET p == ParsedLines(lines)
      row(i) == [file |-> file, line |-> first + i - 1, timed |-> p[i].ts # NoTime,
                 at |-> IF p[i].ts # NoTime THEN p[i].ts ELSE now]
  IN  {row(i) : i \in {i \in DOMAIN lines : ~p[i].blank /\ p[i].ok}}

\* PendingFile.read: chunk after chunk, with the number of its first line.
FileRows(file, lines, now) ==
  LET chunk(k) == ChunkRows(file, SubSeq(lines, k + 1, Min({k + ChunkLines, Len(lines)})), k + 1, now)
  IN  UNION {chunk(c * ChunkLines) : c \in {c \in 0..Len(lines) : c * ChunkLines < Len(lines)}}
===============================================================================
