-------------------------- MODULE MCWiretapHandles --------------------------
(***************************************************************************)
(* Instances of WiretapHandles for TLC.                                    *)
(***************************************************************************)
EXTENDS WiretapHandles, TLC

CONSTANTS p1, p2, p3, h1, h2, h3

\* As many handles as goroutines: one that opens a handle has none, the others
\* have at most one each, and the map is empty then.
TwoProcs     == {p1, p2}
TwoHandles   == {h1, h2}
ThreeProcs   == {p1, p2, p3}
ThreeHandles == {h1, h2, h3}

\* What runs on a wiretap that exists and that nobody deletes.
SharedOps == {"read", "write", "alter", "compact", "sweep"}

\* "compact" takes every step of "write" and "alter", which are left out here; a
\* compaction in several passes goes on as a "write".
MostOps == OpKinds \ {"alter", "write"}

\* Goroutines are interchangeable, and so are handles; used for safety only.
Symmetry == Permutations(Procs) \cup Permutations(Handles)
=============================================================================
