------------------------------ MODULE MCScheduler ------------------------------
(* Two wiretaps that are polled every two minutes or not at all, but may be  *)
(* of an old format; a failed re-encode waits two minutes.                   *)
EXTENDS Scheduler

CONSTANTS w1, w2

TwoWiretaps  == {w1, w2}
SomeSettings == {[auto |-> FALSE, retention |-> FALSE, interval |-> 1],
                 [auto |-> TRUE,  retention |-> TRUE,  interval |-> 2]}
=============================================================================
