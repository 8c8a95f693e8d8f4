----------------------- MODULE CounterSampling_proofs -----------------------
(***************************************************************************)
(* What CounterSampling promises, for every calendar, duty cycle, update   *)
(* cycle, resolution of the clock and limit.                               *)
(***************************************************************************)
EXTENDS CounterSampling, UnitCounter_proofs

LEMMA GapsAreNat == Gaps \subseteq Nat
<1>1. ASSUME NEW o \in Nat PROVE DutyCycle * TicksPerSecond + o \in Nat
  BY SamplingAssumption, TicksAssumption
<1> QED
  BY <1>1, SamplingAssumption DEF Gaps

-----------------------------------------------------------------------------

(* The counter fits into its unit, but for what the set-backs have cost;   *)
(* and it holds the last check when that found the application.            *)
ChargeFits == FitsUnit(counter, now, setBacks)

PresentIsStamped == present => counter.previousRun = now

IInv == TypeOK /\ ChargeFits /\ PresentIsStamped

LEMMA InitIInv == Init => IInv
<1> SUFFICES ASSUME Init PROVE IInv
  OBVIOUS
<1>1. now \in Nat /\ now \in Times \ {Epoch} /\ Epoch \in Times /\ Epoch = 0
  BY SamplingAssumption, TimesAssumption DEF Init, Epoch
<1>2. counter = [unit |-> "Day", active |-> 0, previousRun |-> Epoch]
  BY DEF Init, NewCounter
<1>3. TypeOK
  <2>1. counter \in Counter
    BY <1>1, <1>2 DEF Counter, Unit
  <2>2. played \in Nat /\ checks \in Nat /\ base \in Int /\ setBacks \in Nat
    BY DEF Init
  <2>3. present \in BOOLEAN
    BY DEF Init
  <2> QED
    BY <1>1, <2>1, <2>2, <2>3 DEF TypeOK
<1>4. PresentIsStamped
  BY DEF Init, PresentIsStamped
<1>5. ChargeFits
  <2>1. FitsUnit(NewCounter("Day"), now, 0)
    BY <1>1, NewFits DEF Unit
  <2> QED
    BY <2>1 DEF Init, ChargeFits
<1> QED
  BY <1>3, <1>4, <1>5 DEF IInv

LEMMA NextIInv == IInv /\ [Next]_vars => IInv'
<1> SUFFICES ASSUME IInv, [Next]_vars PROVE IInv'
  OBVIOUS
<1>1. /\ counter \in Counter /\ counter.previousRun \in Nat
      /\ now \in Nat /\ now \in Times /\ setBacks \in Nat
      /\ counter.active \in Int /\ played \in Nat /\ checks \in Nat
  BY TimesAssumption DEF IInv, TypeOK, Counter
<1>2. ASSUME NEW gap \in Gaps, CheckMatched(gap) PROVE IInv'
  <2>1. /\ gap \in Nat
        /\ now' = now + gap /\ now' \in Times
        /\ counter' = doUpdate(counter, now')
        /\ present' = TRUE /\ setBacks' = setBacks
    BY <1>2, GapsAreNat DEF CheckMatched
  <2>2. now' \in Times \ {Epoch} /\ now' \in Nat /\ now <= now'
    BY <1>1, <2>1, SamplingAssumption, TimesAssumption DEF IInv, TypeOK, Epoch
  <2>3. /\ counter' \in Counter
        /\ counter'.previousRun = now'
        /\ counter'.active \in Int
    BY <1>1, <2>1, <2>2, UpdateOutcome DEF Counter
  <2>4. played' \in Nat /\ checks' \in Nat /\ base' \in Int
    BY <1>1, <1>2, <2>1, <2>3 DEF CheckMatched, IInv, TypeOK
  <2>5. TypeOK'
    BY <1>1, <2>1, <2>2, <2>3, <2>4 DEF TypeOK
  <2>6. PresentIsStamped'
    BY <2>3 DEF PresentIsStamped
  <2>7. ChargeFits'
    <3>1. FitsUnit(counter, now', setBacks)
      BY <1>1, <2>2, ClockKeepsFit DEF IInv, ChargeFits
    <3>2. FitsUnit(doUpdate(counter, now'), now', setBacks)
      BY <1>1, <2>2, <3>1, UpdateKeepsFit
    <3> QED
      BY <2>1, <3>2 DEF ChargeFits
  <2> QED
    BY <2>5, <2>6, <2>7 DEF IInv
<1>3. ASSUME NEW gap \in Gaps, CheckUnmatched(gap) PROVE IInv'
  <2>1. /\ gap \in Nat
        /\ now' = now + gap /\ now' \in Times
        /\ counter' = counter
        /\ present' = FALSE /\ setBacks' = setBacks
    BY <1>3, GapsAreNat DEF CheckUnmatched
  <2>2. now' \in Times \ {Epoch} /\ now' \in Nat /\ now <= now'
    BY <1>1, <2>1, TimesAssumption DEF IInv, TypeOK, Epoch
  <2>3. played' \in Nat /\ checks' \in Nat /\ base' \in Int
    BY <1>1, <1>3 DEF CheckUnmatched
  <2>4. TypeOK'
    BY <1>1, <2>1, <2>2, <2>3 DEF TypeOK
  <2>5. FitsUnit(counter, now', setBacks)
    BY <1>1, <2>2, ClockKeepsFit DEF IInv, ChargeFits
  <2> QED
    BY <2>1, <2>4, <2>5 DEF IInv, ChargeFits, PresentIsStamped
<1>4. ASSUME NEW jump \in Jumps, SetClock(jump) PROVE IInv'
  <2>1. /\ jump \in Int
        /\ now' = now + jump /\ now' \in Times \ {Epoch} /\ now' \in Nat
        /\ counter' = counter
        /\ present' = FALSE
        /\ setBacks' = IF jump < 0 THEN setBacks + 1 ELSE setBacks
    BY <1>4, SamplingAssumption, TimesAssumption DEF SetClock
  <2>2. /\ setBacks' \in Nat /\ setBacks <= setBacks'
        /\ now' < now => setBacks' = setBacks + 1
    BY <1>1, <2>1
  <2>3. played' \in Nat /\ checks' \in Nat /\ base' \in Int
    BY <1>1, <1>4 DEF SetClock
  <2>4. TypeOK'
    BY <1>1, <2>1, <2>2, <2>3 DEF TypeOK
  <2>5. FitsUnit(counter, now', setBacks')
    BY <1>1, <2>1, <2>2, ClockKeepsFit DEF IInv, ChargeFits
  <2> QED
    BY <2>1, <2>4, <2>5 DEF IInv, ChargeFits, PresentIsStamped
<1>5. CASE UNCHANGED vars
  BY <1>5 DEF vars, streak, IInv, TypeOK, PresentIsStamped, ChargeFits
<1> QED
  BY <1>2, <1>3, <1>4, <1>5 DEF Next

LEMMA SpecIInv == Spec => []IInv
<1> QED
  BY InitIInv, NextIInv, PTL DEF Spec

(* The counter and the history of the current streak keep their types.     *)
THEOREM TypeCorrect == Spec => []TypeOK
<1>1. IInv => TypeOK
  BY DEF IInv
<1> QED
  BY <1>1, SpecIInv, PTL

(* AUnitCounterBase::doUpdate never charges an application more than the   *)
(* part of the unit that has passed, for every calendar, duty cycle,       *)
(* overrun, early wake-up and clock that goes on; each time the clock is   *)
(* set back costs it less than a second.                                   *)
THEOREM ChargeFitsUnit == Spec => []ActiveWithinUnit
<1>1. IInv => ActiveWithinUnit
  BY FitsWithin, TimesAssumption DEF IInv, TypeOK, ChargeFits, ActiveWithinUnit
<1> QED
  BY <1>1, SpecIInv, PTL

(* A counter is rated above 1 when there is a limit and it is beyond it.   *)
LEMMA ExceedsMeansOverLimit ==
  ASSUME NEW c, c.active \in Int
  PROVE  ExceedsOne(exceedsLimit(c, Limit)) <=> Limit # 0 /\ c.active > Limit
<1>1. Limit \in Nat
  BY SamplingAssumption
<1>2. CASE Limit = 0
  BY <1>2 DEF ExceedsOne, exceedsLimit
<1>3. CASE Limit # 0
  <2>1. exceedsLimit(c, Limit) = <<c.active, Limit>>
    BY <1>1, <1>3 DEF exceedsLimit
  <2> QED
    BY <1>3, <2>1 DEF ExceedsOne
<1> QED
  BY <1>2, <1>3

(* An application over its limit stays over it until a unit begins, for    *)
(* every schedule of the checks: only a clock behind the last run takes    *)
(* time back.                                                              *)
THEOREM OverLimitStays == Spec => StaysExceeding
<1>1. IInv /\ [Next]_vars =>
        [Exceeding => \/ Exceeding'
                      \/ isNewUnit(counter.unit, now', counter.previousRun)
                      \/ now' < counter.previousRun]_vars
  <2> SUFFICES ASSUME IInv, Next, Exceeding,
                      ~isNewUnit(counter.unit, now', counter.previousRun),
                      ~(now' < counter.previousRun)
               PROVE  Exceeding'
    BY DEF vars
  <2>1. /\ counter \in Counter /\ counter.previousRun \in Nat
        /\ now \in Nat /\ counter.active \in Int
    BY TimesAssumption DEF IInv, TypeOK, Counter
  <2>2. Limit \in Nat /\ Limit # 0 /\ counter.active > Limit
    BY <2>1, ExceedsMeansOverLimit, SamplingAssumption DEF Exceeding
  <2>3. counter'.active \in Int /\ counter'.active >= counter.active
    <3>1. ASSUME NEW gap \in Gaps, CheckMatched(gap)
          PROVE  counter'.active \in Int /\ counter'.active >= counter.active
      <4>1. /\ now' \in Times /\ counter.previousRun <= now' /\ now' \in Nat
            /\ counter' = doUpdate(counter, now')
        BY <2>1, <3>1, GapsAreNat DEF CheckMatched
      <4>2. SecondsBetween(counter.previousRun, now') \in Nat
        BY <2>1, <4>1, SecondsBetweenBounds
      <4> QED
        BY <2>1, <4>1, <4>2, UpdateOutcome
    <3>2. ASSUME NEW gap \in Gaps, CheckUnmatched(gap)
          PROVE  counter'.active \in Int /\ counter'.active >= counter.active
      BY <2>1, <3>2 DEF CheckUnmatched
    <3>3. ASSUME NEW jump \in Jumps, SetClock(jump)
          PROVE  counter'.active \in Int /\ counter'.active >= counter.active
      BY <2>1, <3>3 DEF SetClock
    <3> QED
      BY <3>1, <3>2, <3>3 DEF Next
  <2>4. ExceedsOne(exceedsLimit(counter', Limit))
    BY <2>1, <2>2, <2>3, ExceedsMeansOverLimit
  <2> QED
    BY <2>4 DEF Exceeding, ExceedsOne, exceedsLimit
<1> QED
  BY <1>1, SpecIInv, PTL DEF Spec, StaysExceeding

(* No two checks are further apart than the tolerance of isConsecutiveRun. *)
GapsWithinTolerance ==
  \A gap \in Gaps : 2 * gap <= 3 * UpdateCycle * TicksPerSecond

(* When no two checks are further apart than one and a half update cycles, *)
(* AUnitCounterBase::doUpdate counts uninterrupted use but for a fraction  *)
(* of a second per check: for every update cycle, duty cycle and calendar. *)
THEOREM UseIsCounted ==
  ASSUME GapsWithinTolerance
  PROVE  Spec => []ContinuousUseIsCounted
<1>1. Init => ContinuousUseIsCounted
  BY DEF Init, ContinuousUseIsCounted
<1>2. IInv /\ ContinuousUseIsCounted /\ [Next]_vars => ContinuousUseIsCounted'
  <2> SUFFICES ASSUME IInv, ContinuousUseIsCounted, [Next]_vars
               PROVE  ContinuousUseIsCounted'
    OBVIOUS
  <2>1. /\ counter \in Counter /\ counter.previousRun \in Nat /\ counter.active \in Int
        /\ now \in Nat
        /\ present => counter.previousRun = now
        /\ base \in Int /\ played \in Nat /\ checks \in Nat
        /\ TicksPerSecond \in Nat \ {0}
    BY TimesAssumption, TicksAssumption DEF IInv, TypeOK, Counter, PresentIsStamped
  <2>2. ASSUME NEW gap \in Gaps, CheckMatched(gap) PROVE ContinuousUseIsCounted'
    <3>1. /\ gap \in Nat
          /\ now' = now + gap /\ now' \in Times /\ now' \in Nat
          /\ counter' = doUpdate(counter, now')
      BY <2>1, <2>2, GapsAreNat DEF CheckMatched
    <3>2. counter'.active \in Int
      BY <2>1, <3>1, UpdateOutcome DEF Counter
    <3>3. CASE present /\ ~isNewUnit(counter.unit, now', counter.previousRun)
      <4> DEFINE s == SecondsBetween(counter.previousRun, now')
      <4>1. /\ played' = played + gap /\ checks' = checks + 1 /\ base' = base
        BY <2>2, <3>3 DEF CheckMatched
      <4>2. counter.previousRun = now
        BY <2>1, <3>3
      <4>3. isConsecutiveRun(counter.previousRun, now')
        <5>1. 2 * gap <= 3 * UpdateCycle * TicksPerSecond
          BY GapsWithinTolerance DEF GapsWithinTolerance
        <5>2. PICK k \in Int : k = 3 * UpdateCycle * TicksPerSecond
          BY <2>1, CycleAssumption
        <5> QED
          BY <2>1, <3>1, <4>2, <5>1, <5>2 DEF isConsecutiveRun
      <4>4. counter'.active = counter.active + s
        BY <2>1, <3>1, <3>3, <4>3, UpdateOutcome
      <4>5. /\ s \in Nat
            /\ s * TicksPerSecond <= gap
            /\ gap <= s * TicksPerSecond + TicksPerSecond - 1
        BY <2>1, <3>1, <4>2, SecondsBetweenBounds
      <4>6. /\ (counter'.active - base') * TicksPerSecond
                 = (counter.active - base) * TicksPerSecond + s * TicksPerSecond
            /\ checks' * (TicksPerSecond - 1)
                 = checks * (TicksPerSecond - 1) + TicksPerSecond - 1
        <5>1. counter'.active - base' = (counter.active - base) + s
          BY <2>1, <4>1, <4>4, <4>5
        <5>2. (counter'.active - base') * TicksPerSecond
                 = (counter.active - base) * TicksPerSecond + s * TicksPerSecond
          BY <5>1, <2>1, <4>5
        <5> QED
          BY <5>2, <2>1, <4>1
      <4>7. PICK x \in Int : x = (counter.active - base) * TicksPerSecond
        BY <2>1
      <4>8. PICK y \in Int : y = checks * (TicksPerSecond - 1)
        BY <2>1
      <4>9. PICK z \in Int : z = s * TicksPerSecond
        BY <2>1, <4>5
      <4>10. x <= played /\ played <= x + y
        BY <3>3, <4>7, <4>8 DEF ContinuousUseIsCounted
      <4> HIDE DEF s
      <4>11. /\ (counter'.active - base') * TicksPerSecond <= played'
             /\ played' <= (counter'.active - base') * TicksPerSecond
                              + checks' * (TicksPerSecond - 1)
        BY <2>1, <3>1, <4>1, <4>5, <4>6, <4>7, <4>8, <4>9, <4>10
      <4> QED
        BY <4>11 DEF ContinuousUseIsCounted
    <3>4. CASE ~(present /\ ~isNewUnit(counter.unit, now', counter.previousRun))
      <4>1. played' = 0 /\ checks' = 0 /\ base' = counter'.active
        BY <2>2, <3>4 DEF CheckMatched
      <4> QED
        BY <2>1, <3>2, <4>1 DEF ContinuousUseIsCounted
    <3> QED
      BY <3>3, <3>4
  <2>3. ASSUME NEW gap \in Gaps, CheckUnmatched(gap) PROVE ContinuousUseIsCounted'
    BY <2>3 DEF CheckUnmatched, ContinuousUseIsCounted
  <2>4. ASSUME NEW jump \in Jumps, SetClock(jump) PROVE ContinuousUseIsCounted'
    BY <2>4 DEF SetClock, ContinuousUseIsCounted
  <2>5. CASE UNCHANGED vars
    BY <2>5 DEF vars, streak, ContinuousUseIsCounted
  <2> QED
    BY <2>2, <2>3, <2>4, <2>5 DEF Next
<1> QED
  BY <1>1, <1>2, SpecIInv, PTL DEF Spec

(* While the clock has not been set back a streak begins at no less than 0. *)
BaseIsCount == setBacks = 0 => base >= 0

LEMMA SpecBaseIsCount == Spec => []BaseIsCount
<1>1. Init => BaseIsCount
  BY DEF Init, BaseIsCount
<1>2. IInv /\ IInv' /\ BaseIsCount /\ [Next]_vars => BaseIsCount'
  <2> SUFFICES ASSUME IInv, IInv', BaseIsCount, [Next]_vars, setBacks' = 0 PROVE base' >= 0
    BY DEF BaseIsCount
  <2>1. setBacks = 0
    BY DEF Next, CheckMatched, CheckUnmatched, SetClock, vars, IInv, TypeOK
  <2>2. counter.active >= 0 /\ counter'.active >= 0
    BY <2>1 DEF IInv, ChargeFits, FitsUnit
  <2>3. base' \in {base, counter.active, counter'.active}
    BY DEF Next, CheckMatched, CheckUnmatched, SetClock, vars, streak
  <2> QED
    BY <2>1, <2>2, <2>3 DEF BaseIsCount
<1> QED
  BY <1>1, <1>2, SpecIInv, PTL DEF Spec

(* What CUnitCounterFactory.cpp asks for is enough: when the cycle of the  *)
(* checks matches the update cycle of the counters, and the clock is not   *)
(* set back, an application in uninterrupted use for longer than its limit *)
(* is rated above 1, for every limit, resolution and calendar.             *)
THEOREM OveruseIsFound ==
  ASSUME GapsWithinTolerance
  PROVE  Spec => []TimelyOveruseIsExceeding
<1>1. IInv /\ BaseIsCount /\ ContinuousUseIsCounted => TimelyOveruseIsExceeding
  <2> SUFFICES ASSUME IInv, BaseIsCount, ContinuousUseIsCounted, setBacks = 0,
                      present, Limit > 0, played >= (Limit + checks + 1) * TicksPerSecond
               PROVE  Exceeding
    BY DEF TimelyOveruseIsExceeding, OveruseIsExceeding
  <2>1. /\ counter.active \in Int /\ base \in Int /\ base >= 0
        /\ played \in Nat /\ checks \in Nat
        /\ TicksPerSecond \in Nat \ {0} /\ Limit \in Nat
    BY TicksAssumption, SamplingAssumption DEF IInv, TypeOK, Counter, BaseIsCount
  <2>2. PICK d \in Int : d = counter.active - base
    BY <2>1
  <2>3. played <= d * TicksPerSecond + checks * (TicksPerSecond - 1)
    BY <2>2 DEF ContinuousUseIsCounted
  <2>4. PICK c \in Int : c = checks * TicksPerSecond
    BY <2>1
  <2>5. PICK l \in Int : l = Limit * TicksPerSecond
    BY <2>1
  <2>6. PICK g \in Int : g = d * TicksPerSecond
    BY <2>1
  <2>7. checks * (TicksPerSecond - 1) = c - checks
    BY <2>1, <2>4
  <2>8. (Limit + checks + 1) * TicksPerSecond = l + c + TicksPerSecond
    BY <2>1, <2>4, <2>5
  <2>9. g >= l + TicksPerSecond
    BY <2>1, <2>3, <2>4, <2>5, <2>6, <2>7, <2>8
  <2>10. d > Limit
    <3>1. ASSUME d <= Limit PROVE g <= l
      <4>1. PICK k \in Nat : Limit = d + k
        <5>1. Limit - d \in Nat /\ Limit = d + (Limit - d)
          BY <2>1, <3>1
        <5> QED
          BY <5>1
      <4>2. l = g + k * TicksPerSecond /\ k * TicksPerSecond \in Nat
        BY <2>1, <2>5, <2>6, <4>1
      <4> QED
        BY <4>2
    <3> QED
      BY <2>1, <2>9, <3>1
  <2>11. counter.active > Limit /\ Limit # 0
    BY <2>1, <2>2, <2>10
  <2> QED
    BY <2>1, <2>11, ExceedsMeansOverLimit DEF Exceeding
<1> QED
  BY <1>1, SpecIInv, SpecBaseIsCount, UseIsCounted, PTL

=============================================================================
