------------------------ MODULE UnitCounter_proofs ------------------------
(***************************************************************************)
(* What the operators of UnitCounter return, for every calendar, update    *)
(* cycle and resolution of the clock: the lemmas that the theorems about   *)
(* the modules with counters rest on.                                      *)
(***************************************************************************)
EXTENDS UnitCounter, TLAPS

(* Truncating division loses less than one unit of the divisor. *)
LEMMA DivisionBounds ==
  ASSUME NEW n \in Nat \ {0}, NEW d \in Nat
  PROVE  /\ d \div n \in Nat
         /\ (d \div n) * n <= d
         /\ d <= (d \div n) * n + n - 1
<1>1. PICK q \in Nat : q = d \div n
  OBVIOUS
<1>2. PICK r \in 0..(n - 1) : r = d % n
  OBVIOUS
<1>3. d = n * q + r
  BY <1>1, <1>2
<1>4. n * q = q * n
  BY <1>1
<1>5. PICK p \in Int : p = q * n
  BY <1>1
<1>6. d = p + r
  BY <1>3, <1>4, <1>5
<1>7. p <= d /\ d <= p + n - 1
  BY <1>6, <1>2, <1>5
<1> QED
  BY <1>1, <1>5, <1>7

LEMMA SecondsBetweenBounds ==
  ASSUME NEW from \in Nat, NEW to \in Nat, from <= to
  PROVE  /\ SecondsBetween(from, to) \in Nat
         /\ SecondsBetween(from, to) * TicksPerSecond <= to - from
         /\ to - from <= SecondsBetween(from, to) * TicksPerSecond + TicksPerSecond - 1
<1>1. to - from \in Nat
  OBVIOUS
<1>2. SecondsBetween(from, to) = (to - from) \div TicksPerSecond
  BY DEF SecondsBetween
<1> QED
  BY <1>1, <1>2, DivisionBounds, TicksAssumption

(* Truncation towards zero: a difference is rounded up if it is negative.  *)
LEMMA SecondsBetweenAtMost ==
  ASSUME NEW from \in Nat, NEW to \in Nat
  PROVE  /\ SecondsBetween(from, to) \in Int
         /\ SecondsBetween(from, to) * TicksPerSecond <= to - from + TicksPerSecond - 1
<1>1. TicksPerSecond \in Nat \ {0}
  BY TicksAssumption
<1>2. CASE from <= to
  <2>1. PICK z \in Int : z = SecondsBetween(from, to) * TicksPerSecond /\ z <= to - from
    BY <1>1, <1>2, SecondsBetweenBounds
  <2> QED
    BY <1>1, <1>2, <2>1, SecondsBetweenBounds
<1>3. CASE ~(from <= to)
  <2>1. PICK q \in Nat : q = (from - to) \div TicksPerSecond
    BY <1>1, <1>3, DivisionBounds
  <2>2. from - to <= q * TicksPerSecond + TicksPerSecond - 1
    BY <1>1, <1>3, <2>1, DivisionBounds
  <2>3. SecondsBetween(from, to) = -q
    BY <1>3, <2>1 DEF SecondsBetween
  <2>4. (-q) * TicksPerSecond = -(q * TicksPerSecond)
    BY <1>1, <2>1
  <2>5. PICK z \in Int : z = q * TicksPerSecond
    BY <1>1, <2>1
  <2> QED
    BY <1>1, <2>1, <2>2, <2>3, <2>4, <2>5
<1> QED
  BY <1>2, <1>3

(* A unit begins after the epoch and at or before the moment asked for. *)
LEMMA UnitBeginBounds ==
  ASSUME NEW unit \in Unit, NEW t \in Times \ {Epoch}
  PROVE  /\ getUnitBegin(unit, t) \in Nat \ {Epoch}
         /\ getUnitBegin(unit, t) <= t
<1> DEFINE begin == CHOOSE b \in UnitBegins[unit] : IsUnitBegin(unit, b, t)
<1>1. \E b \in UnitBegins[unit] : IsUnitBegin(unit, b, t)
  BY CalendarAssumption
<1>2. begin \in UnitBegins[unit] /\ IsUnitBegin(unit, begin, t)
  BY <1>1
<1>3. getUnitBegin(unit, t) = begin
  BY DEF getUnitBegin
<1>4. UnitBegins[unit] \subseteq Nat \ {Epoch}
  BY CalendarAssumption
<1> HIDE DEF begin
<1> QED
  BY <1>2, <1>3, <1>4 DEF IsUnitBegin

LEMMA UnitBeginAtMost ==
  ASSUME NEW unit \in Unit, NEW t \in Times
  PROVE  /\ getUnitBegin(unit, t) \in Nat
         /\ getUnitBegin(unit, t) <= t
<1>1. CASE t = Epoch
  BY <1>1 DEF getUnitBegin, Epoch
<1>2. CASE t # Epoch
  BY <1>2, UnitBeginBounds
<1> QED
  BY <1>1, <1>2

(* The later the moment, the later the unit it is in begins. *)
LEMMA UnitBeginMonotone ==
  ASSUME NEW unit \in Unit, NEW s \in Times, NEW t \in Times, s <= t
  PROVE  getUnitBegin(unit, s) <= getUnitBegin(unit, t)
<1>1. s \in Nat /\ t \in Nat
  BY TimesAssumption
<1>2. CASE s = Epoch
  <2>1. getUnitBegin(unit, s) = 0
    BY <1>2 DEF getUnitBegin, Epoch
  <2> QED
    BY <2>1, UnitBeginAtMost
<1>3. CASE s # Epoch
  <2> DEFINE begin(x) == CHOOSE b \in UnitBegins[unit] : IsUnitBegin(unit, b, x)
  <2>1. t # Epoch
    BY <1>1, <1>3 DEF Epoch
  <2>2. begin(s) \in UnitBegins[unit] /\ IsUnitBegin(unit, begin(s), s)
    BY <1>3, CalendarAssumption
  <2>3. begin(t) \in UnitBegins[unit] /\ IsUnitBegin(unit, begin(t), t)
    BY <2>1, CalendarAssumption
  <2>4. getUnitBegin(unit, s) = begin(s) /\ getUnitBegin(unit, t) = begin(t)
    BY <1>3, <2>1 DEF getUnitBegin
  <2>5. UnitBegins[unit] \subseteq Nat
    BY CalendarAssumption
  <2> HIDE DEF begin
  <2>6. begin(s) <= t
    BY <1>1, <2>2, <2>5 DEF IsUnitBegin
  <2> QED
    BY <2>2, <2>3, <2>4, <2>6 DEF IsUnitBegin
<1> QED
  BY <1>2, <1>3

(* The three outcomes of doUpdate. *)
LEMMA UpdateOutcome ==
  ASSUME NEW c \in Counter, NEW t \in Times
  PROVE  LET d == doUpdate(c, t)
         IN /\ d \in Counter
            /\ d.unit = c.unit
            /\ d.previousRun = t
            /\ isNewUnit(c.unit, t, c.previousRun) => d.active = 0
            /\ ~isNewUnit(c.unit, t, c.previousRun) =>
                 d.active \in {c.active, c.active + SecondsBetween(c.previousRun, t)}
            /\ /\ ~isNewUnit(c.unit, t, c.previousRun)
               /\ isConsecutiveRun(c.previousRun, t)
               => d.active = c.active + SecondsBetween(c.previousRun, t)
<1>1. SecondsBetween(c.previousRun, t) \in Int
  BY SecondsBetweenAtMost, TimesAssumption DEF Counter
<1> QED
  BY <1>1 DEF doUpdate, Counter

(* What an update leaves in the counter still fits into the unit: a new    *)
(* unit starts from 0; otherwise the unit of the run is that of the        *)
(* previous run or, if the clock was set back, an earlier one, and the     *)
(* counter gains the time between them, rounded up if it is negative.      *)
LEMMA UpdateGains ==
  ASSUME NEW c \in Counter, NEW t \in Times \ {Epoch}, NEW e \in Nat, NEW slack \in Nat,
         SecondsBetween(c.previousRun, t) * TicksPerSecond <= t - c.previousRun + slack,
         c.active * TicksPerSecond <= c.previousRun - getUnitBegin(c.unit, c.previousRun) + e,
         c.previousRun <= t \/ isConsecutiveRun(c.previousRun, t)
  PROVE  LET d == doUpdate(c, t)
         IN d.active * TicksPerSecond
              <= d.previousRun - getUnitBegin(d.unit, d.previousRun) + e + slack
<1> DEFINE d == doUpdate(c, t)
           s == SecondsBetween(c.previousRun, t)
<1>1. /\ c.unit \in Unit /\ c.active \in Int
      /\ c.previousRun \in Nat /\ c.previousRun \in Times
      /\ t \in Nat /\ TicksPerSecond \in Nat
  BY TimesAssumption, TicksAssumption DEF Counter
<1>2. s \in Int
  BY <1>1, SecondsBetweenAtMost
<1>3. PICK b \in Nat : b = getUnitBegin(c.unit, t) /\ b <= t
  BY <1>1, UnitBeginAtMost
<1>4. PICK p \in Nat : p = getUnitBegin(c.unit, c.previousRun) /\ p <= c.previousRun
  BY <1>1, UnitBeginAtMost
<1>5. d.unit = c.unit /\ d.previousRun = t
  BY <1>1, UpdateOutcome
<1>6. CASE isNewUnit(c.unit, t, c.previousRun)
  <2>1. d.active = 0
    BY <1>1, <1>6, UpdateOutcome
  <2> QED
    BY <1>1, <1>3, <1>5, <2>1
<1>7. CASE ~isNewUnit(c.unit, t, c.previousRun)
  <2>1. b <= p
    BY <1>3, <1>4, <1>7 DEF isNewUnit
  <2>2. PICK x \in Int : x = c.active * TicksPerSecond
    BY <1>1
  <2>3. x <= c.previousRun - p + e
    BY <1>4, <2>2
  <2>4. CASE d.active = c.active + s
    <3>1. PICK y \in Int : y = s * TicksPerSecond
      BY <1>1, <1>2
    <3>2. d.active * TicksPerSecond = x + y
      BY <1>1, <1>2, <2>2, <2>4, <3>1
    <3>3. y <= t - c.previousRun + slack
      BY <3>1
    <3> QED
      BY <1>1, <1>3, <1>4, <1>5, <2>1, <2>3, <3>2, <3>3
  <2>5. CASE d.active = c.active /\ c.previousRun <= t
    BY <1>1, <1>3, <1>4, <1>5, <2>1, <2>2, <2>3, <2>5
  <2>6. isConsecutiveRun(c.previousRun, t) => d.active = c.active + s
    BY <1>1, <1>7, UpdateOutcome
  <2>7. d.active = c.active \/ d.active = c.active + s
    BY <1>1, <1>7, UpdateOutcome
  <2> QED
    BY <2>4, <2>5, <2>6, <2>7
<1> QED
  BY <1>6, <1>7

(* A clock that goes on costs nothing, and takes nothing off. *)
LEMMA UpdateFitsUnit ==
  ASSUME NEW c \in Counter, NEW t \in Times \ {Epoch}, c.previousRun <= t, NEW e \in Nat,
         c.active * TicksPerSecond
           <= c.previousRun - getUnitBegin(c.unit, c.previousRun) + e
  PROVE  LET d == doUpdate(c, t)
         IN /\ c.active >= 0 => d.active >= 0
            /\ d.active * TicksPerSecond
                 <= d.previousRun - getUnitBegin(d.unit, d.previousRun) + e
<1>1. /\ c.previousRun \in Nat /\ t \in Nat /\ t \in Times /\ c.active \in Int
      /\ c.unit \in Unit /\ TicksPerSecond \in Nat
  BY TimesAssumption, TicksAssumption DEF Counter
<1>2. /\ SecondsBetween(c.previousRun, t) \in Nat
      /\ SecondsBetween(c.previousRun, t) * TicksPerSecond <= t - c.previousRun + 0
  <2>1. PICK p \in Nat : p = c.previousRun
    BY <1>1
  <2>2. PICK q \in Nat : q = SecondsBetween(p, t) /\ q * TicksPerSecond <= t - p
    BY <1>1, <2>1, SecondsBetweenBounds
  <2>3. q * TicksPerSecond \in Int
    BY <1>1, <2>2
  <2> QED
    BY <1>1, <2>1, <2>2, <2>3
<1>3. c.active >= 0 => doUpdate(c, t).active >= 0
  BY <1>1, <1>2, UpdateOutcome
<1> DEFINE d == doUpdate(c, t)
<1>5. d.active * TicksPerSecond <= d.previousRun - getUnitBegin(d.unit, d.previousRun) + e + 0
  BY <1>2, UpdateGains
<1>6. d.previousRun = t /\ d.unit = c.unit /\ getUnitBegin(c.unit, t) \in Nat
  BY <1>1, UpdateOutcome, UnitBeginAtMost
<1> QED
  BY <1>1, <1>3, <1>5, <1>6

(* A run that sees the clock behind the previous run is consecutive, and   *)
(* costs less than a second.                                               *)
LEMMA UpdateSetBack ==
  ASSUME NEW c \in Counter, NEW t \in Times \ {Epoch}, t < c.previousRun, NEW e \in Nat,
         c.active * TicksPerSecond
           <= c.previousRun - getUnitBegin(c.unit, c.previousRun) + e
  PROVE  LET d == doUpdate(c, t)
         IN d.active * TicksPerSecond
              <= d.previousRun - getUnitBegin(d.unit, d.previousRun) + e + (TicksPerSecond - 1)
<1>1. c.previousRun \in Nat /\ t \in Nat /\ TicksPerSecond \in Nat \ {0}
  BY TimesAssumption, TicksAssumption DEF Counter
<1>2. PICK slack \in Nat : slack = TicksPerSecond - 1
  BY <1>1
<1>3. SecondsBetween(c.previousRun, t) * TicksPerSecond <= t - c.previousRun + slack
  <2>1. PICK z \in Int : z = SecondsBetween(c.previousRun, t) * TicksPerSecond
    BY <1>1, SecondsBetweenAtMost
  <2> QED
    BY <1>1, <1>2, <2>1, SecondsBetweenAtMost
<1>4. isConsecutiveRun(c.previousRun, t)
  <2>1. PICK k \in Nat : k = 3 * UpdateCycle * TicksPerSecond
    BY <1>1, CycleAssumption
  <2> QED
    BY <1>1, <2>1 DEF isConsecutiveRun
<1> QED
  BY <1>2, <1>3, <1>4, UpdateGains

-----------------------------------------------------------------------------
(* A counter over any sequence of updates and clock settings.  n is how    *)
(* often the clock was set back, t what it reads now.                      *)

LEMMA SlackMonotone ==
  ASSUME NEW m \in Nat, NEW n \in Nat, m <= n
  PROVE  /\ m * (TicksPerSecond - 1) \in Nat
         /\ n * (TicksPerSecond - 1) \in Nat
         /\ m * (TicksPerSecond - 1) <= n * (TicksPerSecond - 1)
<1>1. PICK k \in Nat : k = TicksPerSecond - 1
  BY TicksAssumption
<1>2. PICK d \in Nat : n = m + d
  <2>1. n - m \in Nat /\ n = m + (n - m)
    OBVIOUS
  <2> QED
    BY <2>1
<1>3. n * k = m * k + d * k
  BY <1>2
<1>4. m * k \in Nat /\ d * k \in Nat
  BY <1>1
<1> QED
  BY <1>1, <1>3, <1>4

(* While the clock is behind the last run, the set-back that brought it    *)
(* there has not cost its fraction of a second yet: the next run charges it. *)
Charged(previousRun, t, n) == IF t < previousRun THEN n - 1 ELSE n

(* Only a clock that was set back is behind the last run; and the counter  *)
(* fits into its unit, but for what the set-backs have cost.               *)
FitsUnit(c, t, n) ==
  /\ t < c.previousRun => n >= 1
  /\ n = 0 => c.active >= 0
  /\ c.active * TicksPerSecond
       <= c.previousRun - getUnitBegin(c.unit, c.previousRun)
            + Charged(c.previousRun, t, n) * (TicksPerSecond - 1)

LEMMA ChargedGrows ==
  ASSUME NEW p \in Nat, NEW s \in Nat, NEW t \in Nat, NEW m \in Nat, NEW n \in Nat,
         s < p => m >= 1,
         m <= n,
         t < s => n = m + 1
  PROVE  /\ Charged(p, s, m) \in Nat /\ Charged(p, t, n) \in Nat
         /\ Charged(p, s, m) <= Charged(p, t, n)
         /\ t < p => n >= 1
BY DEF Charged

LEMMA CounterNumbers ==
  ASSUME NEW c \in Counter
  PROVE  /\ c.active \in Int /\ c.previousRun \in Nat /\ c.previousRun \in Times
         /\ c.unit \in Unit
         /\ getUnitBegin(c.unit, c.previousRun) \in Nat
         /\ c.active * TicksPerSecond \in Int
<1>1. /\ c.active \in Int /\ c.previousRun \in Nat /\ c.previousRun \in Times
      /\ c.unit \in Unit
  BY TimesAssumption DEF Counter
<1>2. getUnitBegin(c.unit, c.previousRun) \in Nat
  BY <1>1, UnitBeginAtMost
<1>3. PICK a \in Int : a = c.active
  BY <1>1
<1>4. a * TicksPerSecond \in Int
  BY TicksAssumption
<1> QED
  BY <1>1, <1>2, <1>3, <1>4

(* The clock may move to either side of the last run; what was charged for *)
(* set-backs never becomes less.                                           *)
LEMMA ClockKeepsFit ==
  ASSUME NEW c \in Counter, NEW s \in Nat, NEW t \in Nat, NEW m \in Nat, NEW n \in Nat,
         m <= n, t < s => n = m + 1, FitsUnit(c, s, m)
  PROVE  FitsUnit(c, t, n)
<1>1. PICK p \in Nat : p = c.previousRun
  BY CounterNumbers
<1>2. PICK g \in Nat : g = getUnitBegin(c.unit, c.previousRun)
  BY CounterNumbers
<1>3. PICK a \in Int : a = c.active * TicksPerSecond
  BY CounterNumbers
<1>4. s < p => m >= 1
  BY <1>1 DEF FitsUnit
<1>5. PICK x \in Nat : x = Charged(p, s, m)
  BY <1>4, ChargedGrows
<1>6. PICK y \in Nat : y = Charged(p, t, n)
  BY <1>4, ChargedGrows
<1>7. x <= y
  BY <1>4, <1>5, <1>6, ChargedGrows
<1>8. PICK e \in Nat : e = x * (TicksPerSecond - 1)
  BY <1>7, SlackMonotone
<1>9. PICK f \in Nat : f = y * (TicksPerSecond - 1) /\ e <= f
  BY <1>7, <1>8, SlackMonotone
<1>10. a <= p - g + e
  BY <1>1, <1>2, <1>3, <1>5, <1>8 DEF FitsUnit
<1>11. a <= p - g + f
  BY <1>9, <1>10
<1>12. n = 0 => c.active >= 0
  BY DEF FitsUnit
<1>13. t < p => n >= 1
  BY <1>4, ChargedGrows
<1> QED
  BY <1>1, <1>2, <1>3, <1>6, <1>9, <1>11, <1>12, <1>13 DEF FitsUnit

(* A run charges no more than the time since the last one, and a fraction  *)
(* of a second if the clock is behind that one.                            *)
LEMMA UpdateKeepsFit ==
  ASSUME NEW c \in Counter, NEW t \in Times \ {Epoch}, NEW n \in Nat, FitsUnit(c, t, n)
  PROVE  FitsUnit(doUpdate(c, t), t, n)
<1>1. t \in Nat /\ t \in Times /\ TicksPerSecond \in Nat \ {0}
  BY TimesAssumption, TicksAssumption
<1>2. PICK d \in Counter : d = doUpdate(c, t)
  BY <1>1, UpdateOutcome
<1>3. d.previousRun = t
  BY <1>1, <1>2, UpdateOutcome
<1>4. PICK f \in Nat : f = n * (TicksPerSecond - 1)
  BY SlackMonotone
<1>5. PICK g \in Nat : g = getUnitBegin(d.unit, d.previousRun)
  BY CounterNumbers
<1>6. PICK a \in Int : a = d.active * TicksPerSecond
  BY CounterNumbers
<1>7. c.previousRun \in Nat
  BY CounterNumbers
<1>8. CASE c.previousRun <= t
  <2>1. ~(t < c.previousRun)
    BY <1>1, <1>7, <1>8
  <2>2. c.active * TicksPerSecond
          <= c.previousRun - getUnitBegin(c.unit, c.previousRun) + f
    BY <1>4, <2>1 DEF FitsUnit, Charged
  <2>3. /\ c.active >= 0 => d.active >= 0
        /\ a <= d.previousRun - g + f
    BY <1>2, <1>5, <1>6, <1>8, <2>2, UpdateFitsUnit
  <2>4. n = 0 => d.active >= 0
    BY <2>3 DEF FitsUnit
  <2>5. Charged(d.previousRun, t, n) = n /\ ~(t < d.previousRun)
    BY <1>1, <1>3 DEF Charged
  <2> QED
    BY <1>2, <1>4, <1>5, <1>6, <2>3, <2>4, <2>5 DEF FitsUnit
<1>9. CASE t < c.previousRun
  <2>1. PICK m \in Nat : n = m + 1 /\ m = Charged(c.previousRun, t, n)
    BY <1>9 DEF FitsUnit, Charged
  <2>2. PICK e \in Nat : e = m * (TicksPerSecond - 1)
    BY SlackMonotone
  <2>3. f = e + (TicksPerSecond - 1)
    <3>1. PICK k \in Nat : k = TicksPerSecond - 1
      BY <1>1
    <3>2. n * k = m * k + k
      BY <2>1, <3>1
    <3> QED
      BY <1>4, <2>2, <3>1, <3>2
  <2>4. c.active * TicksPerSecond
          <= c.previousRun - getUnitBegin(c.unit, c.previousRun) + e
    BY <2>1, <2>2 DEF FitsUnit
  <2>5. a <= d.previousRun - g + e + (TicksPerSecond - 1)
    BY <1>2, <1>5, <1>6, <1>9, <2>4, UpdateSetBack
  <2>6. a <= d.previousRun - g + f
    BY <1>1, <1>3, <2>3, <2>5
  <2>7. n # 0 /\ Charged(d.previousRun, t, n) = n /\ ~(t < d.previousRun)
    BY <1>1, <1>3, <2>1 DEF Charged
  <2> QED
    BY <1>2, <1>4, <1>5, <1>6, <2>6, <2>7 DEF FitsUnit
<1> QED
  BY <1>1, <1>7, <1>8, <1>9

(* A counter that was never run fits. *)
LEMMA NewFits ==
  ASSUME NEW t \in Nat, NEW unit \in Unit
  PROVE  /\ NewCounter(unit) \in Counter
         /\ FitsUnit(NewCounter(unit), t, 0)
<1>1. NewCounter(unit) = [unit |-> unit, active |-> 0, previousRun |-> Epoch]
  BY DEF NewCounter
<1>2. Epoch \in Times /\ Epoch = 0
  BY TimesAssumption DEF Epoch
<1>3. getUnitBegin(unit, Epoch) = 0
  BY DEF getUnitBegin, Epoch
<1>4. Charged(0, t, 0) = 0 /\ 0 * (TicksPerSecond - 1) = 0 /\ 0 * TicksPerSecond = 0
  BY TicksAssumption DEF Charged
<1>5. NewCounter(unit) \in Counter
  BY <1>1, <1>2 DEF Counter
<1>6. PICK c \in Counter : c = NewCounter(unit)
  BY <1>5
<1>7. c.active = 0 /\ c.previousRun = 0 /\ getUnitBegin(c.unit, c.previousRun) = 0
  BY <1>1, <1>2, <1>3, <1>6
<1>8. ~(t < 0)
  OBVIOUS
<1>9. FitsUnit(c, t, 0)
  BY <1>4, <1>7, <1>8 DEF FitsUnit
<1> QED
  BY <1>6, <1>9

(* What the fit says for a counter on file. *)
LEMMA FitsWithin ==
  ASSUME NEW c \in Counter, NEW t \in Nat, NEW n \in Nat, FitsUnit(c, t, n)
  PROVE  /\ n = 0 => c.active >= 0
         /\ c.active * TicksPerSecond
              <= c.previousRun - getUnitBegin(c.unit, c.previousRun)
                   + n * (TicksPerSecond - 1)
<1>1. PICK p \in Nat : p = c.previousRun
  BY CounterNumbers
<1>2. PICK g \in Nat : g = getUnitBegin(c.unit, c.previousRun)
  BY CounterNumbers
<1>3. PICK a \in Int : a = c.active * TicksPerSecond
  BY CounterNumbers
<1>4. PICK m \in Nat : m = Charged(p, t, n) /\ m <= n
  BY <1>1 DEF FitsUnit, Charged
<1>5. PICK e \in Nat : e = m * (TicksPerSecond - 1)
  BY SlackMonotone
<1>6. PICK f \in Nat : f = n * (TicksPerSecond - 1) /\ e <= f
  BY <1>4, <1>5, SlackMonotone
<1>7. a <= p - g + e
  BY <1>1, <1>2, <1>3, <1>4, <1>5 DEF FitsUnit
<1>8. a <= p - g + f
  BY <1>6, <1>7
<1> QED
  BY <1>1, <1>2, <1>3, <1>6, <1>8 DEF FitsUnit

=============================================================================
