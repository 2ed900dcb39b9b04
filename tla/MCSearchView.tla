----------------------------- MODULE MCSearchView -----------------------------
(* Small instances of SearchView: two rows of one time, and one without.    *)
EXTENDS SearchView, TLC

CONSTANTS w1, w2, r1, r2, r3, r4

TwoWiretaps == {w1, w2}
FourRows    == {r1, r2, r3, r4}
Times       == r1 :> 2 @@ r2 :> 3 @@ r3 :> 2 @@ r4 :> 0
SomeFilters == {{r1, r2, r4}, {r1, r3}}
===============================================================================
