-------------------------- MODULE MCWiretapCatalog --------------------------
(* Small instances of WiretapCatalog: two columns in either order. *)
EXTENDS WiretapCatalog, TLC

CONSTANTS p1, p2, p3

TwoProcs   == {p1, p2}
ThreeProcs == {p1, p2, p3}
SomeFields == {<<"x">>, <<"y">>, <<"y", "x">>}
Symmetry   == Permutations(Procs)
=============================================================================
