--------------------------- MODULE MCLoadPipeline ---------------------------
(* Two loads of one wiretap: one of three files, more than may be in        *)
(* flight, and one of an empty file.                                        *)
EXTENDS LoadPipeline

TwoLoads    == {"scheduler", "window"}
FourFiles   == {"a", "b", "c", "d"}
ThreeAndOne == [l \in TwoLoads |-> IF l = "scheduler" THEN <<"a", "b", "c">> ELSE <<"d">>]
FourSizes   == [f \in FourFiles |-> IF f = "d" THEN 0 ELSE 2]
=============================================================================
