------------------------------ MODULE WholeFiles ------------------------------
(***************************************************************************)
(* What the marks of loaded files promise: a file comes into the table     *)
(* whole, in one step, and goes out of it as a whole when it is loaded     *)
(* once more.  In between only the age limit takes from it.                *)
(***************************************************************************)
EXTENDS Naturals

CONSTANTS File, Chunk

VARIABLES
  whole,  \* the files a load would skip
  copies  \* how often the table has each chunk of them

vars == <<whole, copies>>

Nought(f) == [copies EXCEPT ![f] = [c \in Chunk |-> 0]]
Once(f) == [copies EXCEPT ![f] = [c \in Chunk |-> 1]]

Init == whole = {} /\ copies = [f \in File |-> [c \in Chunk |-> 0]]

Load(f)   == f \notin whole /\ whole' = whole \cup {f} /\ copies' = Once(f)
Reload(f) == f \in whole /\ whole' = whole \ {f} /\ copies' = Nought(f)

Expire(old) ==
  /\ copies' = [f \in File |-> [c \in Chunk |-> IF c \in old[f] THEN 0 ELSE copies[f][c]]]
  /\ UNCHANGED whole

Next == \/ \E f \in File : Load(f) \/ Reload(f)
        \/ \E old \in [File -> SUBSET Chunk] : Expire(old)

Spec == Init /\ [][Next]_vars
===============================================================================
