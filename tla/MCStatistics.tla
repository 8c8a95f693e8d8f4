---------------------------- MODULE MCStatistics ----------------------------
(* Ticks of a second, an update cycle of 2 s (tolerance 3 s); two days     *)
(* that begin at 1 and at 10.  The clock may be set back by 3 s, within a  *)
(* day or over its begin.                                                  *)
EXTENDS Statistics

MCTimes == 0..12
MCGaps == {-3, 2, 5}
MCUnitBegins == [unit \in Unit |-> IF unit = "Day" THEN {1, 10} ELSE {1}]
=============================================================================
