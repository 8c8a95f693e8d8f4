------------------------- MODULE MCCounterSampling -------------------------
(* Half-second ticks, an update cycle of 4 s (tolerance 6 s), and a local  *)
(* clock with days of 14 s that begin at tick 4.  It is put forward by 2 s *)
(* in the second day and back again in the third, which makes these days   *)
(* 12 s and 16 s long.  A week has 2 days.                                 *)
EXTENDS LocalCalendar

MCTimes == {0} \cup 4..96
MCOffset == [t \in MCTimes \ {0} |-> IF t \in 40..63 THEN 28 ELSE 24]
MCUnitBegins == [unit \in Unit |->
                   IF unit = "Day" THEN {4, 32, 56, 88} ELSE {4, 56}]
MCJumps == {-30, -3, 9}
=============================================================================
