---------------------------- MODULE LocalCalendar ----------------------------
(***************************************************************************)
(* How CDayCounter::getUnitBegin and CWeekCounter::getUnitBegin find the   *)
(* begin of a unit in local time, with localtime(), the gregorian date and *)
(* mktime().  The zone is the offset of the local clock at each reading;   *)
(* a DST switch is a change of the offset.                                 *)
(***************************************************************************)
EXTENDS CounterSampling

CONSTANTS
  DayTicks,     \* ticks the local clock shows from midnight to midnight
  DaysPerWeek,  \* 7; smaller in bounded instances
  Offset        \* for each reading, what the local clock is ahead of it

Readings == Times \ {Epoch}

ASSUME DayAssumption == DayTicks \in Nat \ {0} /\ DaysPerWeek \in Nat \ {0}
ASSUME OffsetAssumption == Offset \in [Readings -> Int]

(* localtime(): the local clock at a reading, and the date it shows. *)
LocalTime(t) == t + Offset[t]
Date(t) == LocalTime(t) \div DayTicks

(* to_tm, with the hour, minute and second set to zero. *)
Midnight(date) == date * DayTicks

(* mktime() with tm_isdst = -1: the reading at which the local clock shows *)
(* this time.                                                              *)
mktime(local) == CHOOSE b \in Readings : LocalTime(b) = local

Monday == 1
DaysSinceMonday(date) == (date - Monday) % DaysPerWeek

(* The date itself, or the Monday before it if it is not a Monday. *)
FirstDate(unit, date) == IF unit = "Day" THEN date ELSE date - DaysSinceMonday(date)

(* Mutant: tm_isdst is left as localtime() has set it. *)
localUnitBegin_KeepsIsdst(unit, point) ==
  IF point = Epoch THEN point
  ELSE Midnight(FirstDate(unit, Date(point))) - Offset[point]

(* getUnitBegin, as the program computes it. *)
localUnitBegin(unit, point) ==
  IF point = Epoch THEN point
                   ELSE mktime(Midnight(FirstDate(unit, Date(point))))

(* The number of the day, or of the week, that the local clock is in. *)
UnitNumber(unit, t) ==
  IF unit = "Day" THEN Date(t) ELSE (Date(t) - Monday) \div DaysPerWeek

(* What the units are: one begins at the first reading of its number. *)
ASSUME BeginsAssumption ==
  \A unit \in Unit :
    UnitBegins[unit] =
      {b \in Readings : \A s \in Readings :
                          s < b => UnitNumber(unit, s) # UnitNumber(unit, b)}

(* The zone switches neither at nor over a midnight: the local clock shows *)
(* every midnight that begins a unit, once, and no later time before it    *)
(* nor an earlier time after it.                                           *)
ASSUME ZoneAssumption ==
  \A unit \in Unit, t \in Readings :
    \E b \in Readings :
      /\ LocalTime(b) = Midnight(FirstDate(unit, Date(t)))
      /\ \A s \in Readings : /\ s < b => LocalTime(s) < LocalTime(b)
                             /\ s > b => LocalTime(s) > LocalTime(b)

-----------------------------------------------------------------------------

(* The program's way to the begin of a unit ends at the first moment of    *)
(* the local day or week, also in the days of 23 and 25 hours and after    *)
(* the clock was set: isNewUnit compares the local dates of the two runs.  *)
CalendarIsLocal ==
  \A unit \in Unit, t \in {now, counter.previousRun} :
    localUnitBegin(unit, t) = getUnitBegin(unit, t)

=============================================================================
