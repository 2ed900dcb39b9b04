------------------------------ MODULE LineStore ------------------------------
(***************************************************************************)
(* What a wiretap promises of its rows: a file that is loaded adds those   *)
(* of its lines, once and together; the age limit takes the rows before a  *)
(* day; the size cap takes the oldest, at most half of them but for the    *)
(* last one's microsecond.  Nothing else adds or takes a row, and no       *)
(* compaction does.                                                        *)
(***************************************************************************)
EXTENDS Integers, FiniteSets

CONSTANTS File, Text,    \* the files, and what they may contain
          RowsFor,       \* RowsFor[f][t][d]: the rows of a file f with text t, loaded on day d
          First, Last,   \* the clock's days
          Limit          \* the ages that a policy may have as its limit

VARIABLES rows, loaded, today

vars == <<rows, loaded, today>>

Init == rows = {} /\ loaded = {} /\ today = First

Day == today < Last /\ today' = today + 1 /\ UNCHANGED <<rows, loaded>>

Load(f, t) == /\ f \notin loaded
              /\ loaded' = loaded \cup {f}
              /\ rows' = rows \cup RowsFor[f][t][today]
              /\ UNCHANGED today

Expire(days) == /\ days > 0
                /\ rows' = {r \in rows : r.at >= today - days}
                /\ UNCHANGED <<loaded, today>>

Trim(last) == /\ last \in rows
              /\ 2 * Cardinality({r \in rows : r.at < last.at}) <= Cardinality(rows)
              /\ rows' = {r \in rows : r.at > last.at}
              /\ UNCHANGED <<loaded, today>>

Next == \/ Day \/ \E last \in rows : Trim(last)
        \/ \E f \in File, t \in Text : Load(f, t)
        \/ \E days \in Limit : Expire(days)

Spec == Init /\ [][Next]_vars
=============================================================================
