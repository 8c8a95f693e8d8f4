---------------------------- MODULE CounterStore ----------------------------
(***************************************************************************)
(* What the rest of the daemon relies on from its statistics: a map from   *)
(* the names of the rules to counters that outlives the process and that   *)
(* changes only by a whole check.  A check at some reading of the clock,   *)
(* which may be behind that of the check before, updates the counters of   *)
(* exactly the rules that matched, and creates those that do not exist; it *)
(* happens entirely or not at all.  A store that may lose its counters     *)
(* loses all of them, and goes on from there.                              *)
(***************************************************************************)
EXTENDS UnitCounter

CONSTANTS
  Names,   \* the names of the matching rules
  MayLose  \* whether the counters may be lost

VARIABLE store

CounterMap == [Names -> Counter \cup {NoCounter}]

(* Statistics::rate: a counter that is new is made for the unit "Day". *)
Rated(counters, matches, now) ==
  [n \in Names |->
     IF n \notin matches THEN counters[n]
     ELSE doUpdate(IF counters[n] = NoCounter THEN NewCounter("Day") ELSE counters[n], now)]

NoCounters == [n \in Names |-> NoCounter]

Init == store = NoCounters

Check(matches, now) == store' = Rated(store, matches, now)

Lose == MayLose /\ store' = NoCounters

Next ==
  \/ \E matches \in SUBSET Names, now \in Times \ {Epoch} : Check(matches, now)
  \/ Lose

Spec == Init /\ [][Next]_store

=============================================================================
