---------------------------- MODULE MCFileIngest ----------------------------
(***************************************************************************)
(* Instances of FileIngest for TLC: the scheduler and one call from the    *)
(* window, which load the same files.                                      *)
(***************************************************************************)
EXTENDS FileIngest

CONSTANTS tick, window, f1, f2

BothLoaders == {tick, window}
TwoFiles    == {f1, f2}
OneFile     == {f1}
=============================================================================
