------------------------------ MODULE SerialLoad ------------------------------
(***************************************************************************)
(* What loading a wiretap promises, however much is downloaded, read and   *)
(* parsed side by side: one file after another is written, from its first  *)
(* chunk on and no further than its last, and each is reported once, as    *)
(* loaded only when all of it is written.                                  *)
(***************************************************************************)
EXTENDS Naturals

CONSTANTS File, Size,  \* Size[f]: chunks in f
          Nil

VARIABLES
  writing,   \* the file that is being written
  written,   \* how many chunks of a file are
  report     \* what has been said of it

vars == <<writing, written, report>>

Init == writing = Nil /\ written = [f \in File |-> 0] /\ report = [f \in File |-> Nil]

Begin(f)  == /\ writing = Nil /\ report[f] = Nil /\ written[f] = 0
             /\ writing' = f /\ UNCHANGED <<written, report>>
Write(f)  == /\ writing = f /\ written[f] < Size[f]
             /\ written' = [written EXCEPT ![f] = @ + 1] /\ UNCHANGED <<writing, report>>
Finish(f) == /\ writing = f /\ written[f] = Size[f]
             /\ report' = [report EXCEPT ![f] = "ok"] /\ writing' = Nil /\ UNCHANGED written

\* While it is written, or before anything of it is.
GiveUp(f) == /\ report[f] = Nil /\ (writing = f \/ written[f] = 0)
             /\ report' = [report EXCEPT ![f] = "failed"]
             /\ writing' = IF writing = f THEN Nil ELSE writing
             /\ UNCHANGED written

Next == \E f \in File : Begin(f) \/ Write(f) \/ Finish(f) \/ GiveUp(f)
Spec == Init /\ [][Next]_vars
===============================================================================
