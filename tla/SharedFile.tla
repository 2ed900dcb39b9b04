------------------------------ MODULE SharedFile ------------------------------
(***************************************************************************)
(* What a wiretap's file promises those who use it, however many handles   *)
(* are made for it: many may search it, one may change it, and its         *)
(* replacement by a compacted copy is up to the one who changes it, and    *)
(* falls into nobody's search.                                             *)
(***************************************************************************)
CONSTANT User

VARIABLES
  searching,  \* who has a search running on the file
  changing,   \* who changes it, as a set
  replacing   \* who puts another file in its place

vars == <<searching, changing, replacing>>

Init == searching = {} /\ changing = {} /\ replacing = {}

Search(p) == /\ p \notin searching \cup changing /\ replacing = {}
             /\ searching' = searching \cup {p} /\ UNCHANGED <<changing, replacing>>
Found(p)  == /\ p \in searching
             /\ searching' = searching \ {p} /\ UNCHANGED <<changing, replacing>>

Change(p)  == /\ changing = {} /\ p \notin searching
              /\ changing' = {p} /\ UNCHANGED <<searching, replacing>>
Changed(p) == /\ changing = {p} /\ replacing = {}
              /\ changing' = {} /\ UNCHANGED <<searching, replacing>>

Replace(p)  == /\ changing = {p} /\ replacing = {} /\ searching = {}
               /\ replacing' = {p} /\ UNCHANGED <<searching, changing>>
Replaced(p) == replacing = {p} /\ replacing' = {} /\ UNCHANGED <<searching, changing>>

Next == \E p \in User : \/ Search(p) \/ Found(p) \/ Change(p) \/ Changed(p)
                        \/ Replace(p) \/ Replaced(p)

Spec == Init /\ [][Next]_vars
===============================================================================
