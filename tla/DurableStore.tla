---------------------------- MODULE DurableStore ----------------------------
(***************************************************************************)
(* What the store promises of its files: a wiretap's settings, rows and    *)
(* marks change when a call changes them, and at no other time.  Splitting *)
(* the old database, compacting a file, a crash and a restart are none of  *)
(* these calls.                                                            *)
(***************************************************************************)
EXTENDS Naturals

CONSTANTS Wiretap, Load

\* Per wiretap its settings' version, the loads it has rows of or has expired, its marks.
VARIABLE store

Contents == [settings : Nat, rows : SUBSET Load, expired : SUBSET Load, marks : SUBSET Load]
TypeOK   == store \in [Wiretap -> Contents]

Init == TypeOK

\* A load and its mark, an expiry of its rows (the mark stays), an update of the row.
Ingest(w, l) == /\ l \notin store[w].marks
                /\ store' = [store EXCEPT ![w].rows = @ \cup {l}, ![w].marks = @ \cup {l}]
Expire(w, l) == /\ l \in store[w].rows
                /\ store' = [store EXCEPT ![w].rows = @ \ {l}, ![w].expired = @ \cup {l}]
Update(w)    == store' = [store EXCEPT ![w].settings = @ + 1]

Next == \E w \in Wiretap : Update(w) \/ \E l \in Load : Ingest(w, l) \/ Expire(w, l)
Spec == Init /\ [][Next]_store
=============================================================================
