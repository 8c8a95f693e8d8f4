---------------------------- MODULE UnitCounter ----------------------------
(***************************************************************************)
(* A counter of the seconds an application was active within the current   *)
(* unit (day or week): common/source/CUnitCounter.cpp and the factory that *)
(* makes counters, as operators on a counter value.  The modules that keep *)
(* counters as state (CounterSampling, Statistics, SessionController) use  *)
(* these operators.                                                        *)
(*                                                                         *)
(* Time is a reading of std::chrono::system_clock in ticks.  The local     *)
(* calendar enters as the set of readings at which a unit begins, which    *)
(* need not be equally spaced: a day with a DST switch has 23 or 25 hours. *)
(***************************************************************************)
EXTENDS Integers

CONSTANTS
  TicksPerSecond,  \* resolution of system_clock
  Times,           \* the clock readings that occur, time_point() among them
  UnitBegins,      \* for each unit, the readings at which it begins
  UpdateCycle      \* seconds: the update cycle every counter is made with

Unit == {"Day", "Week"}

Epoch == 0  \* time_point(): what a counter that was never updated holds

(* b is the last begin of a unit at or before point. *)
IsUnitBegin(unit, b, point) ==
  /\ b \in UnitBegins[unit]
  /\ b <= point
  /\ \A c \in UnitBegins[unit] : c <= point => c <= b

ASSUME TicksAssumption == TicksPerSecond \in Nat \ {0}
ASSUME CycleAssumption == UpdateCycle \in Nat \ {0}
ASSUME TimesAssumption == Epoch \in Times /\ Times \subseteq Nat

(* The clock is past the first begin of a unit after the epoch, and a week *)
(* begins where a day begins.                                              *)
ASSUME CalendarAssumption ==
  /\ UnitBegins \in [Unit -> SUBSET (Nat \ {Epoch})]
  /\ UnitBegins["Week"] \subseteq UnitBegins["Day"]
  /\ \A unit \in Unit, t \in Times \ {Epoch} :
       \E b \in UnitBegins[unit] : IsUnitBegin(unit, b, t)

-----------------------------------------------------------------------------

Counter == [unit : Unit, active : Int, previousRun : Times]

(* CUnitCounterFactory::create(Unit): active 0 and a default time_point. *)
NewCounter(unit) == [unit |-> unit, active |-> 0, previousRun |-> Epoch]

(* What a map of counters holds for a name without a counter. *)
NoCounter == [unit |-> "None", active |-> 0, previousRun |-> Epoch]

(* CDayCounter::getUnitBegin and CWeekCounter::getUnitBegin *)
getUnitBegin(unit, point) ==
  IF point = Epoch THEN point
                   ELSE CHOOSE b \in UnitBegins[unit] : IsUnitBegin(unit, b, point)

isNewUnit(unit, pointA, pointB) ==
  getUnitBegin(unit, pointA) > getUnitBegin(unit, pointB)

(* Mutant: no tolerance for a late run. *)
isConsecutiveRun_Strict(previous, now) ==
  previous >= now - UpdateCycle * TicksPerSecond

(* previous >= now - 1.5 * m_cycle, times two to stay in the integers. *)
isConsecutiveRun(previous, now) ==
  2 * previous >= 2 * now - 3 * UpdateCycle * TicksPerSecond

(* duration_cast<seconds>(to - from) truncates towards zero. *)
SecondsBetween(from, to) ==
  IF to >= from THEN (to - from) \div TicksPerSecond
                ELSE -((from - to) \div TicksPerSecond)

(* Mutants of doUpdate: the time stamp of the run is stored one cycle early; *)
(* the unit change is not looked at; a gap in the runs resets the counter. *)
doUpdate_StampEarly(counter, now) ==
  [counter EXCEPT !.previousRun = now - UpdateCycle * TicksPerSecond]

doUpdate_NoReset(counter, now) ==
  [counter EXCEPT
     !.previousRun = now,
     !.active = IF isConsecutiveRun(counter.previousRun, now)
                THEN @ + SecondsBetween(counter.previousRun, now)
                ELSE @]

doUpdate_GapResets(counter, now) ==
  [counter EXCEPT
     !.previousRun = now,
     !.active = IF isNewUnit(counter.unit, now, counter.previousRun)
                   \/ ~isConsecutiveRun(counter.previousRun, now)
                THEN 0
                ELSE @ + SecondsBetween(counter.previousRun, now)]

(* AUnitCounterBase::doUpdate: previousRun is replaced in any case; active *)
(* is reset by the first run in a unit, kept by a run that does not follow *)
(* directly on the previous one, and grows by the difference otherwise.    *)
doUpdate(counter, now) ==
  LET previousRun == counter.previousRun
      newUnit == isNewUnit(counter.unit, now, previousRun)
      consecutive == isConsecutiveRun(previousRun, now)
      added == SecondsBetween(previousRun, now)
  IN [unit |-> counter.unit,
      active |-> IF newUnit THEN 0
                 ELSE IF consecutive THEN counter.active + added
                 ELSE counter.active,
      previousRun |-> now]

(* exceedsLimit as a boost::rational: numerator and positive denominator,  *)
(* not reduced (its users only compare it with 1).  A limit of 0 seconds   *)
(* means no limit.                                                         *)
exceedsLimit(counter, limit) ==
  IF limit = 0 THEN <<0, 1>>
  ELSE IF limit < 0 THEN <<-counter.active, -limit>>
  ELSE <<counter.active, limit>>

(* The comparison CSessionController makes: ratio > rational(1). *)
ExceedsOne(ratio) == ratio[1] > ratio[2]

=============================================================================
