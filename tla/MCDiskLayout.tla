---------------------------- MODULE MCDiskLayout ----------------------------
(* Small instances of DiskLayout. *)
EXTENDS DiskLayout

CONSTANTS w1, w2, l1, l2

OneWiretap  == {w1}
TwoWiretaps == {w1, w2}
OneLoad     == {l1}
TwoLoads    == {l1, l2}
=============================================================================
