------------------------ MODULE LocalCalendar_proofs ------------------------
(***************************************************************************)
(* getUnitBegin, as the program computes it from local dates, finds the    *)
(* begin of the unit: for every zone that switches neither at nor over a   *)
(* midnight, every length of the day and every length of the week.         *)
(***************************************************************************)
EXTENDS LocalCalendar, CounterSampling_proofs

LEMMA QuotientAtLeast ==
  ASSUME NEW n \in Nat \ {0}, NEW a \in Int, NEW k \in Int
  PROVE  /\ a \div n \in Int
         /\ a >= k * n <=> a \div n >= k
<1>1. PICK q \in Int : q = a \div n
  OBVIOUS
<1>2. PICK r \in 0..(n - 1) : r = a % n
  OBVIOUS
<1>3. a = n * q + r
  BY <1>1, <1>2
<1>4. n * q = q * n
  BY <1>1
<1>5. ASSUME q >= k PROVE a >= k * n
  <2>1. PICK d \in Nat : q = k + d
    <3>1. q - k \in Nat /\ q = k + (q - k)
      BY <1>5
    <3> QED
      BY <3>1
  <2>2. q * n = k * n + d * n
    BY <2>1
  <2>3. d * n \in Nat /\ k * n \in Int
    BY <2>1
  <2> QED
    BY <1>2, <1>3, <1>4, <2>2, <2>3
<1>6. ASSUME q < k PROVE a < k * n
  <2>1. PICK d \in Nat : k = q + 1 + d
    <3>1. k - q - 1 \in Nat /\ k = q + 1 + (k - q - 1)
      BY <1>6
    <3> QED
      BY <3>1
  <2>2. k * n = q * n + n + d * n
    BY <2>1
  <2>3. d * n \in Nat /\ q * n \in Int
    BY <1>1, <2>1
  <2> QED
    BY <1>2, <1>3, <1>4, <2>2, <2>3
<1>7. k * n \in Int
  OBVIOUS
<1> QED
  BY <1>1, <1>5, <1>6, <1>7

LEMMA QuotientAndRest ==
  ASSUME NEW n \in Nat \ {0}, NEW a \in Int
  PROVE  \E q, r \in Int : q = a \div n /\ r = a % n /\ a = q * n + r
<1>1. PICK q \in Int : q = a \div n
  OBVIOUS
<1>2. PICK r \in 0..(n - 1) : r = a % n
  OBVIOUS
<1>3. a = n * q + r
  BY <1>1, <1>2
<1>4. n * q = q * n
  BY <1>1
<1>5. r \in Int
  BY <1>2
<1>6. a = q * n + r
  BY <1>3, <1>4
<1> QED
  BY <1>1, <1>2, <1>5, <1>6

LEMMA ReadingFacts ==
  ASSUME NEW t \in Readings
  PROVE  /\ t \in Nat /\ t \in Times
         /\ LocalTime(t) \in Int
         /\ Date(t) \in Int
<1>1. t \in Nat /\ t \in Times /\ Offset[t] \in Int
  BY TimesAssumption, OffsetAssumption DEF Readings
<1>2. LocalTime(t) \in Int
  BY <1>1 DEF LocalTime
<1> QED
  BY <1>1, <1>2, QuotientAtLeast, DayAssumption DEF Date

(* The date on which the unit with number k begins. *)
BeginDate(unit, k) == IF unit = "Day" THEN k ELSE k * DaysPerWeek + Monday

LEMMA FirstDateIsBeginDate ==
  ASSUME NEW unit \in Unit, NEW t \in Readings
  PROVE  /\ UnitNumber(unit, t) \in Int
         /\ FirstDate(unit, Date(t)) = BeginDate(unit, UnitNumber(unit, t))
<1>1. Date(t) \in Int
  BY ReadingFacts
<1>2. CASE unit = "Day"
  BY <1>1, <1>2 DEF UnitNumber, FirstDate, BeginDate
<1>3. CASE unit # "Day"
  <2>1. PICK a \in Int : a = Date(t) - Monday
    BY <1>1 DEF Monday
  <2>2. PICK q, r \in Int : /\ q = a \div DaysPerWeek
                           /\ r = a % DaysPerWeek
                           /\ a = q * DaysPerWeek + r
    BY <2>1, QuotientAndRest, DayAssumption
  <2>3. q * DaysPerWeek \in Int
    BY <2>2, DayAssumption
  <2>4. Date(t) - r = q * DaysPerWeek + Monday
    BY <1>1, <2>1, <2>2, <2>3 DEF Monday
  <2>5. UnitNumber(unit, t) = q /\ FirstDate(unit, Date(t)) = Date(t) - r
    BY <1>3, <2>1, <2>2 DEF UnitNumber, FirstDate, DaysSinceMonday
  <2> QED
    BY <1>3, <2>2, <2>4, <2>5 DEF BeginDate
<1> QED
  BY <1>2, <1>3

(* The local clock has reached the midnight at which a unit begins exactly *)
(* if it is in this unit or a later one.                                   *)
LEMMA ReachedIsNumber ==
  ASSUME NEW unit \in Unit, NEW s \in Readings, NEW k \in Int
  PROVE  /\ Midnight(BeginDate(unit, k)) \in Int
         /\ LocalTime(s) >= Midnight(BeginDate(unit, k)) <=> UnitNumber(unit, s) >= k
<1>1. LocalTime(s) \in Int /\ Date(s) \in Int
  BY ReadingFacts
<1>2. BeginDate(unit, k) \in Int
  BY DayAssumption DEF BeginDate, Monday
<1>3. /\ Midnight(BeginDate(unit, k)) \in Int
      /\ LocalTime(s) >= Midnight(BeginDate(unit, k)) <=> Date(s) >= BeginDate(unit, k)
  BY <1>1, <1>2, DayAssumption, QuotientAtLeast DEF Midnight, Date
<1>4. CASE unit = "Day"
  BY <1>3, <1>4 DEF BeginDate, UnitNumber
<1>5. CASE unit # "Day"
  <2>1. PICK a \in Int : a = Date(s) - Monday
    BY <1>1 DEF Monday
  <2>2. a >= k * DaysPerWeek <=> a \div DaysPerWeek >= k
    BY <2>1, QuotientAtLeast, DayAssumption
  <2>3. k * DaysPerWeek \in Int
    BY DayAssumption
  <2>4. a >= k * DaysPerWeek <=> Date(s) >= BeginDate(unit, k)
    BY <1>1, <1>5, <2>1, <2>3 DEF BeginDate, Monday
  <2> QED
    BY <1>3, <1>5, <2>1, <2>2, <2>4 DEF UnitNumber
<1> QED
  BY <1>4, <1>5

(* What mktime returns for a reading is the last begin at or before it.    *)
LEMMA LocalBeginIsBegin ==
  ASSUME NEW unit \in Unit, NEW t \in Readings
  PROVE  LET b == mktime(Midnight(FirstDate(unit, Date(t))))
         IN b \in UnitBegins[unit] /\ IsUnitBegin(unit, b, t)
<1> DEFINE k == UnitNumber(unit, t)
           m == Midnight(BeginDate(unit, k))
<1>1. k \in Int /\ FirstDate(unit, Date(t)) = BeginDate(unit, k)
  BY FirstDateIsBeginDate
<1> HIDE DEF k
<1>2. m \in Int
  BY <1>1, ReachedIsNumber
<1>3. PICK b \in Readings :
        /\ LocalTime(b) = m
        /\ \A s \in Readings : /\ s < b => LocalTime(s) < LocalTime(b)
                               /\ s > b => LocalTime(s) > LocalTime(b)
  BY <1>1, ZoneAssumption
<1> HIDE DEF m
<1>4. \A s \in Readings : s \in Nat /\ LocalTime(s) \in Int
  BY ReadingFacts
<1>5. mktime(m) = b
  <2>1. ASSUME NEW s \in Readings, LocalTime(s) = m PROVE s = b
    BY <1>2, <1>3, <1>4, <2>1
  <2> QED
    BY <1>3, <2>1 DEF mktime
<1>6. \A s \in Readings : UnitNumber(unit, s) \in Int
  BY FirstDateIsBeginDate
<1>7. \A s \in Readings : LocalTime(s) >= m <=> UnitNumber(unit, s) >= k
  BY <1>1, ReachedIsNumber DEF m
<1>8. b <= t
  <2>1. LocalTime(t) >= m
    BY <1>1, <1>7 DEF k
  <2> QED
    BY <1>2, <1>3, <1>4, <2>1
<1>9. ASSUME NEW s \in Readings, s < b PROVE UnitNumber(unit, s) < k
  <2>1. LocalTime(s) < m
    BY <1>3, <1>9
  <2> QED
    BY <1>1, <1>2, <1>4, <1>6, <1>7, <2>1
<1>10. ASSUME NEW s \in Readings, b <= s PROVE UnitNumber(unit, s) >= k
  <2>1. LocalTime(s) >= m
    BY <1>2, <1>3, <1>4, <1>10
  <2> QED
    BY <1>7, <2>1
<1>11. ASSUME NEW s \in Readings, b <= s, s <= t PROVE UnitNumber(unit, s) = k
  <2>1. UnitNumber(unit, s) >= k
    BY <1>10, <1>11
  <2>2. CASE UnitNumber(unit, s) > k
    <3> DEFINE j == UnitNumber(unit, s)
    <3>1. /\ j \in Int
          /\ FirstDate(unit, Date(s)) = BeginDate(unit, j)
      BY FirstDateIsBeginDate
    <3>2. PICK c \in Readings :
            /\ LocalTime(c) = Midnight(BeginDate(unit, j))
            /\ \A x \in Readings : /\ x < c => LocalTime(x) < LocalTime(c)
                                   /\ x > c => LocalTime(x) > LocalTime(c)
      BY <3>1, ZoneAssumption
    <3>3. LocalTime(s) >= Midnight(BeginDate(unit, j))
      BY <3>1, ReachedIsNumber
    <3>4. ~(LocalTime(t) >= Midnight(BeginDate(unit, j)))
      <4>1. ~(UnitNumber(unit, t) >= j)
        BY <1>1, <2>2, <3>1 DEF k
      <4> QED
        BY <3>1, <4>1, ReachedIsNumber
    <3> HIDE DEF j
    <3> QED
      BY <1>4, <1>11, <3>2, <3>3, <3>4
  <2> QED
    BY <1>1, <1>6, <2>1, <2>2
<1>12. UnitNumber(unit, b) = k
  BY <1>4, <1>8, <1>11
<1>13. b \in UnitBegins[unit]
  <2>1. \A s \in Readings : s < b => UnitNumber(unit, s) # UnitNumber(unit, b)
    BY <1>1, <1>6, <1>9, <1>12
  <2> QED
    BY <2>1, BeginsAssumption
<1>14. ASSUME NEW c \in UnitBegins[unit], c <= t PROVE c <= b
  <2>1. /\ c \in Readings
        /\ \A s \in Readings : s < c => UnitNumber(unit, s) # UnitNumber(unit, c)
    BY BeginsAssumption
  <2>2. CASE b < c
    BY <1>4, <1>11, <1>12, <1>14, <2>1, <2>2
  <2> QED
    BY <1>4, <2>1, <2>2
<1> QED
  BY <1>1, <1>5, <1>8, <1>13, <1>14 DEF IsUnitBegin, m

(* There is one such begin. *)
LEMMA LocalBeginIsUnitBegin ==
  ASSUME NEW unit \in Unit, NEW t \in Times
  PROVE  localUnitBegin(unit, t) = getUnitBegin(unit, t)
<1>1. CASE t = Epoch
  BY <1>1 DEF localUnitBegin, getUnitBegin
<1>2. CASE t # Epoch
  <2>1. t \in Readings
    BY <1>2 DEF Readings
  <2>2. PICK b : b = localUnitBegin(unit, t)
    OBVIOUS
  <2>3. b \in UnitBegins[unit] /\ IsUnitBegin(unit, b, t)
    BY <1>2, <2>1, <2>2, LocalBeginIsBegin DEF localUnitBegin
  <2>4. UnitBegins[unit] \subseteq Nat
    BY CalendarAssumption
  <2>5. ASSUME NEW c \in UnitBegins[unit], IsUnitBegin(unit, c, t) PROVE c = b
    BY <2>3, <2>4, <2>5 DEF IsUnitBegin
  <2>6. (CHOOSE c \in UnitBegins[unit] : IsUnitBegin(unit, c, t)) = b
    BY <2>3, <2>5
  <2> QED
    BY <1>2, <2>2, <2>6 DEF getUnitBegin
<1> QED
  BY <1>1, <1>2

(* At every check, and wherever the clock is set to, CDayCounter and       *)
(* CWeekCounter find the first moment of the local day and week.           *)
THEOREM UnitsAreLocal == Spec => []CalendarIsLocal
<1>1. TypeOK => CalendarIsLocal
  BY LocalBeginIsUnitBegin DEF TypeOK, Counter, CalendarIsLocal
<1> QED
  BY <1>1, TypeCorrect, PTL

(* What UnitCounter assumes of the begins of units is what the local days  *)
(* and weeks are: each week begins with a day, and every reading has a     *)
(* begin of its day and of its week.                                       *)
THEOREM LocalCalendarIsCalendar ==
  /\ \A unit \in Unit : UnitBegins[unit] \subseteq Nat \ {Epoch}
  /\ UnitBegins["Week"] \subseteq UnitBegins["Day"]
  /\ \A unit \in Unit, t \in Times \ {Epoch} :
       \E b \in UnitBegins[unit] : IsUnitBegin(unit, b, t)
<1>1. \A unit \in Unit : UnitBegins[unit] \subseteq Nat \ {Epoch}
  BY BeginsAssumption, TimesAssumption DEF Readings
<1>2. ASSUME NEW b \in UnitBegins["Week"] PROVE b \in UnitBegins["Day"]
  <2>1. /\ b \in Readings
        /\ \A s \in Readings : s < b => UnitNumber("Week", s) # UnitNumber("Week", b)
    BY BeginsAssumption DEF Unit
  <2>2. \A s \in Readings : s < b => UnitNumber("Day", s) # UnitNumber("Day", b)
    BY <2>1 DEF UnitNumber
  <2> QED
    BY <2>1, <2>2, BeginsAssumption DEF Unit
<1>3. ASSUME NEW unit \in Unit, NEW t \in Times \ {Epoch}
      PROVE  \E b \in UnitBegins[unit] : IsUnitBegin(unit, b, t)
  BY LocalBeginIsBegin DEF Readings
<1> QED
  BY <1>1, <1>2, <1>3

=============================================================================
