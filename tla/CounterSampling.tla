-------------------------- MODULE CounterSampling --------------------------
(***************************************************************************)
(* One application, the counter the daemon keeps for it, and the checks    *)
(* that sample it.  The daemon checks once per duty cycle (--check-interval*)
(* of main.cpp), later by what the cycle itself takes (HTTP time-outs, the *)
(* waits of the termination loop) and earlier when the wait of             *)
(* CDaemonRunningStrategy::run wakes spuriously.  At a check the           *)
(* application is found running or not; only when it is found does         *)
(* Statistics::rate update its counter.                                    *)
(*                                                                         *)
(* The wait is measured by a steady clock, the counter by system_clock,    *)
(* which may be set between two checks, forward or back.                   *)
(***************************************************************************)
EXTENDS UnitCounter

CONSTANTS
  DutyCycle,   \* seconds the daemon waits between two cycles
  Overruns,    \* ticks a cycle itself may take
  EarlyWakes,  \* ticks after which a spurious wake-up may end the wait
  Limit,       \* the limit of the rule, in seconds
  Start,       \* the clock reading of the first check
  Jumps,       \* ticks by which the clock may be set
  MaxSetBacks  \* bound: how often it is set back

ASSUME SamplingAssumption ==
  /\ DutyCycle \in Nat \ {0}
  /\ Overruns \subseteq Nat
  /\ EarlyWakes \subseteq Nat
  /\ Limit \in Nat
  /\ Start \in Times \ {Epoch}
  /\ Jumps \subseteq Int
  /\ MaxSetBacks \in Nat

VARIABLES
  now,      \* the system clock at the last check or as it was set since
  counter,  \* the counter kept for the application
  (* History of the current streak: the checks that found the application  *)
  (* running one after the other, within one unit.                         *)
  present,  \* whether the last check found it running
  played,   \* ticks since the first check of the streak
  checks,   \* checks of the streak after the first one
  base,     \* counter.active at the first check of the streak
  setBacks  \* history: how often the clock was set back

streak == <<present, played, checks, base>>
vars == <<now, counter, streak, setBacks>>

(* Ticks from one check to the next. *)
Gaps == {DutyCycle * TicksPerSecond + o : o \in Overruns} \cup EarlyWakes

Init ==
  /\ now = Start
  /\ counter = NewCounter("Day")
  /\ present = FALSE
  /\ played = 0
  /\ checks = 0
  /\ base = 0
  /\ setBacks = 0

(* A check that finds the application: Statistics::rate -> doUpdate. *)
CheckMatched(gap) ==
  /\ now + gap \in Times
  /\ now' = now + gap
  /\ counter' = doUpdate(counter, now')
  /\ present' = TRUE
  /\ IF present /\ ~isNewUnit(counter.unit, now', counter.previousRun)
     THEN /\ played' = played + gap
          /\ checks' = checks + 1
          /\ UNCHANGED base
     ELSE /\ played' = 0
          /\ checks' = 0
          /\ base' = counter'.active
  /\ UNCHANGED setBacks

(* A check that does not find it: its counter is not touched. *)
CheckUnmatched(gap) ==
  /\ now + gap \in Times
  /\ now' = now + gap
  /\ present' = FALSE
  /\ played' = 0
  /\ checks' = 0
  /\ base' = counter.active
  /\ UNCHANGED <<counter, setBacks>>

(* The system clock is set, by hand or by NTP; no streak goes across that. *)
SetClock(jump) ==
  /\ now + jump \in Times \ {Epoch}
  /\ jump < 0 => setBacks < MaxSetBacks
  /\ now' = now + jump
  /\ setBacks' = IF jump < 0 THEN setBacks + 1 ELSE setBacks
  /\ present' = FALSE
  /\ played' = 0
  /\ checks' = 0
  /\ base' = counter.active
  /\ UNCHANGED counter

Next ==
  \/ \E gap \in Gaps : CheckMatched(gap) \/ CheckUnmatched(gap)
  \/ \E jump \in Jumps : SetClock(jump)

Spec == Init /\ [][Next]_vars

-----------------------------------------------------------------------------

TypeOK ==
  /\ now \in Times \ {Epoch}
  /\ counter \in Counter
  /\ present \in BOOLEAN
  /\ played \in Nat
  /\ checks \in Nat
  /\ base \in Int
  /\ setBacks \in Nat

(* An application is never charged more than the part of the current unit  *)
(* that has passed: what IUnitCounter::getActive documents as the seconds  *)
(* marked as active within the current unit fits into that unit, whatever  *)
(* the checks found, however late they came, and across unit changes.      *)
(* Setting the clock back can gain time, and make the count negative, but  *)
(* it costs no more than the fraction of a second that is truncated.       *)
ActiveWithinUnit ==
  /\ setBacks = 0 => counter.active >= 0
  /\ counter.active * TicksPerSecond
       <= counter.previousRun - getUnitBegin(counter.unit, counter.previousRun)
            + setBacks * (TicksPerSecond - 1)

(* Time in use is counted: over a streak of checks that found the          *)
(* application, the counter gained the time that passed, less at most the  *)
(* fraction of a second that duration_cast drops at each check.  That is   *)
(* so while no two checks are further apart than the tolerance of          *)
(* isConsecutiveRun, one and a half update cycles: a later one is not      *)
(* counted at all.                                                         *)
ContinuousUseIsCounted ==
  present =>
    LET counted == (counter.active - base) * TicksPerSecond
    IN /\ counted <= played
       /\ played <= counted + checks * (TicksPerSecond - 1)

(* Once over its limit, an application stays over it until the unit ends,  *)
(* whatever happens in between: this is what lets the daemon terminate it  *)
(* again when it is restarted (README.md).  Only a clock that is behind    *)
(* the last run takes time off.                                            *)
Exceeding == ExceedsOne(exceedsLimit(counter, Limit))

StaysExceeding ==
  [][Exceeding => \/ Exceeding'
                  \/ isNewUnit(counter.unit, now', counter.previousRun)
                  \/ now' < counter.previousRun]_vars

(* An application in uninterrupted use for longer than its limit, allowing *)
(* one second lost per check, is rated above 1: CUnitCounterFactory.cpp    *)
(* says the update cycle of a counter has to match the cycle its update is *)
(* called with, otherwise counters do not work properly.                   *)
OveruseIsExceeding ==
  present /\ Limit > 0 /\ played >= (Limit + checks + 1) * TicksPerSecond => Exceeding

(* What is left of that promise when the duty cycle fits the update cycle: *)
(* no overuse is missed, whatever its checks' delays add up to and however *)
(* often the clock is set forward.  Set back over the begin of a unit it   *)
(* leaves a negative count, which hides as much overuse.                   *)
TimelyOveruseIsExceeding == setBacks = 0 => OveruseIsExceeding

=============================================================================
