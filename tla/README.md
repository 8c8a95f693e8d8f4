# Formal models of ZockZilla

TLA+ modules that model the daemon of this repository (`src/source/gsc`,
`src/source/gsclib`), TLC configurations that check them on small instances, and
theorems about them with proofs for TLAPS. File names below are relative to
`src/source/gsclib` unless they begin with `src/`.

## 1. The system

The daemon watches the processes of a machine. Once per check interval it reads
its configuration, lists the processes it may signal, matches their command
lines with rules, adds the time that passed to the counter of each rule that
matched, writes the counters to a file and a report to InfluxDB, and ends the
processes of those rules whose counter is over its limit.

| Component | State | Operations | Talks to |
|---|---|---|---|
| Unit counter (`common/source/CUnitCounter.cpp`, `CUnitCounterFactory.cpp`) | unit, `m_active`, `m_previousRun`, the update cycle | `doUpdate`, `exceedsLimit`, `getUnitBegin`, `serialize`, `create` | called by Statistics; reads the local calendar |
| Statistics (`common/source/CStatistics.cpp`) | `m_counter`, `m_now`; the counter file | constructor, `load`, `rate`, `save`, destructor | made and destroyed in each cycle by the controller |
| Matching (`common/source/CMatchingRule.cpp`, `CMatcher.cpp`) | a set of rules | `matches`, `add`, `deserialize`, `serialize` | called by the controller |
| Session controller (`common/source/CSessionController.cpp`) | `m_matcher`, the InfluxDB adapter | constructor, the cycle, `load`, `save` | all of the others |
| Running strategy (`common/source/CRunningStrategy.cpp`) | `m_terminate`, mutex, condition variable | `run`, `cancel` | calls the cycle; cancelled by a signal handler |
| Signal handling (`infrastructure/linux/source/CSignalHandler.cpp`) | the dispositions and the function map | install, dispatch, restore | calls `cancel()` |
| Processes (`infrastructure/linux/source/CProcess.cpp`, `CSystem.cpp`) | the kernel's process table | list, `isRunning`, `isSignallable`, `terminateAndWait`, `killAndWait` | called by the controller |
| InfluxDB adapter (`common/source/CInfluxAdapter.cpp`) | an HTTP client with a thread pool | constructor, `insert` | called by the controller |
| `main()` (`src/source/gsc/source/main.cpp`) | life times, options | start, unwinding, exit | makes strategy, handler and controller |
| Init script (`src/source/gsc/etc/gsc`) | the pid file | start, stop, restart | starts the process, sends it SIGTERM |
| Logger, time formatting | - | - | called by all |

What is hard in it:

- *Time.* Counters are sampled. A check may be late by what the cycle itself
  takes, early after a spurious wake-up, or fall on the other side of midnight;
  a sample counts only if it follows on the last one within one and a half
  update cycles. Days have 23 or 25 hours when the local clock switches, and the
  system clock may be set between two samples.
- *Concurrency.* There is one thread of the program's own, but SIGTERM is handled
  in the middle of whatever it does, or beside it on a thread of the HTTP
  client; the handler locks a mutex and wakes a condition variable, and
  `m_terminate` is read once without the lock.
- *Persistence.* All that is known is in one file that is rewritten in place
  once per cycle, by a process that may be killed at any step.
- *The process table* changes between any two system calls, also while a command
  line is open and not read yet.
- *Start and stop.* A SIGTERM may come before its handler is installed, and the
  init script does not wait for the process it stops.
- *Failure.* An exception in a cycle ends the daemon, except where it is caught:
  when the InfluxDB adapter is made, and when a save fails in a destructor.

What makes the components correct: a counter never holds more than the time
that passed in its unit and never misses continuous use; a limit once exceeded
stays exceeded until the unit ends or the clock is set back, over restarts; the
store changes by whole checks; only processes of exceeded kill rules are ended, not before their grace
period is over, and all of them are; a SIGTERM ends the daemon soon.

## 2. The modules

| Module | Models | EXTENDS |
|---|---|---|
| `UnitCounter` | a counter value and its operations, as operators | |
| `CounterSampling` | one application and its counter under every schedule of checks and every setting of the clock | `UnitCounter` |
| `LocalCalendar` | how the begin of a day or week is computed from local time | `CounterSampling` |
| `CounterStore` | abstract: a map of counters that changes by whole checks, and may be lost as a whole | `UnitCounter` |
| `Statistics` | the life of the Statistics object and the counter file, with crashes and failing writes; implements `CounterStore` | `UnitCounter` |
| `RunningStrategy` | the daemon process: start, `run()` and `cancel()` statement by statement, the SIGTERM handler, the end of `main()` | |
| `InitScript` | the init script composed with that process | `RunningStrategy` |
| `Enforcement` | abstract: a cycle matches processes, decides on some of them, and ends these one by one and nothing else | |
| `ProcessTermination` | listing, reading and ending processes beside a changing process table; implements `Enforcement` | |
| `Matcher` | rules, matching, loading and saving them, as operators | |
| `SessionController` | whole cycles beside users, an administrator, the InfluxDB server and the calendar; implements `Enforcement` | `Matcher` |
| `UnitCounter_proofs`, `CounterSampling_proofs`, `LocalCalendar_proofs`, `Statistics_proofs`, `ProcessTermination_proofs`, `SessionController_proofs` | lemmas and theorems about the module of that name | the module, `TLAPS` |
| `RunningStrategy_proofs` | lemmas and theorems about the daemon process, alone and under the init script | `InitScript`, `TLAPS` |
| `StatisticsStore_proofs` | what `Statistics` promises over time: the refinement and what is remembered | `Statistics_proofs` |
| `MC*` | instances for TLC | the module |

How state and actions correspond to the code:

- **UnitCounter.** A counter is `[unit, active, previousRun]`. Its update cycle
  is the constant `UpdateCycle`, because every counter of the program is made
  with the same (default) one. Time is a clock reading in ticks, with the epoch
  as the value of `time_point()`. Where a unit begins is the constant
  `UnitBegins`, a set of readings for days and one for weeks; they need not be
  equally spaced. `1.5 * m_cycle` is multiplied out by two, `duration_cast`
  truncates towards zero, and `exceedsLimit` is a numerator and a denominator.
- **CounterSampling.** One step is one check, which finds the application or
  not. `Gaps` are the distances of two checks: the duty cycle and an overrun, or
  an early wake-up. `SetClock` puts the system clock forward or back between two
  checks: the waits use a steady clock (`wait_for`), the counters `system_clock`.
  The other variables record the current streak of checks that found the
  application, and how often the clock was set back.
- **LocalCalendar.** `Offset` is what the local clock is ahead of each reading; a
  DST switch is a change of it. `localUnitBegin` is `getUnitBegin` line by line:
  the local date, the Monday before it for a week, midnight of it, and `mktime`.
  `UnitBegins` is tied by `BeginsAssumption` to what a unit is: the first reading
  of a local day or week. The run and the theorem show that the two agree, so that
  `getUnitBegin` of `UnitCounter` may stand for the code everywhere else.
- **Statistics.** `pc` follows one cycle through the constructor (which writes a
  first file if there is none), `load`, `rate`, the destructor's `save`, and the
  controller's enforcement, which comes after the object is gone. A save is two
  steps, opening (which truncates) and writing; `Crash` may come between any
  two steps, `CrashInSave` inside of a save, `OpenFails` and `WriteFails` are the
  errors of a save, which end the process in the constructor and are logged in
  the destructor. The file is a kind and a set of entries. Reading the cycle's
  two uses of the file together, a save *takes effect* when the file is opened,
  if it is not interrupted: that is the refinement mapping `durable`. A save that
  is interrupted is the store's `Lose`: the file is then empty or torn, and
  nothing of it is ever read again in part. `Construct` takes the time: a gap of
  `Gaps` may be negative, up to `MaxSetBacks` times, because `system_clock` may be
  set back between two cycles (or two daemons), and `doUpdate` then takes time off.
  The histories record when a name was last terminated, whether a save was ever
  interrupted, how often the clock was set back, and in `known` whose enforced
  excess neither an interrupted save nor a check with a clock behind the counter's
  last run has touched since.
- **RunningStrategy.** `pc` is the main thread's place, from the start of `main()`
  over `run()`, at the granularity of mutex operations and accesses to
  `m_terminate`, to its end; `handler[t]` is thread t's place in `cancel()`. While a
  signal is handled on the main thread, that thread does not move. The unlocked
  read of line 27 races with a store on another thread; it may return the old
  value until that thread has released the mutex (`published`). Before the handler
  is installed and after it was replaced a SIGTERM has its default action.
- **InitScript.** The script is called up to `MaxCalls` times, one call at a time,
  after the boot has called `start`. `StopDaemon` and `StartDaemon` are what
  start-stop-daemon does: both look for the process of the pid file; `--stop`
  sends one SIGTERM and returns, `--start` does nothing if the process runs.
  `DaemonStep` is every step of `RunningStrategy` but its own `SendTerm`.
- **ProcessTermination.** The process table maps a pid to none, a running
  process or a zombie. `kill` is what kill(2) returns, and `isRunning` compares
  that with `-ESRCH`, as the code does. The table is walked twice
  (`CSessionController.cpp:77` and `CSystem.cpp:55`), and a command line is opened
  and read in two steps three times: for both listings and for the processes that
  can be signalled. Between the two steps the process may go: `Read` then throws. A
  zombie has an empty command line, which a rule may match (`Matching`).
- **Enforcement.** What a cycle promises about the processes it ends, seen from
  outside: `alive` are the pids at which a process runs that was not sent SIGKILL,
  `match` those the cycle has matched, `due` those it has still to end. `ProcessTermination`
  implements it with `due` as the rest of the loop and the process in hand, and `Alive`
  as what runs and is not `doomed`; `SessionController` with `due` as `todo`.
- **Matcher.** A rule is a record; the text of its expressions enters as the set of
  command lines they match. An element of the file is a record with the fields it
  has: `IsRule` says which are accepted, `RuleOf` has the defaults.
- **SessionController.** What is at the configuration path is one of the six
  kinds the code tells apart; without a file the constructor writes an example
  (`WriteExample`), which the administrator may copy. A counter is its `level`, in
  units of what one cycle adds and saturating at `Cap`: what `doUpdate` may do with
  it is to reset it (if a unit has begun since), to keep it, to let it grow by
  one, or to lower it (if the clock was set back); `since` says what the clock did.
  `rated` is what the cycle decides by, `level` what is on file: a save that fails
  leaves the older `level`, which the next cycle starts from. Listing the processes, updating and saving the counters, and ending one
  process are single steps here. That ending one may be seen so is what
  `ImplementsEnforcement` says of `ProcessTermination`; that updating and saving may,
  `ImplementsStore` of `Statistics`. That listing and the
  constructor of Statistics may throw is kept (`ListThrows`, `RateThrows`), and so is
  that the report may (`InsertThrows`): the server may answer each request or not,
  but none takes a line with a name that breaks it (`Unwritable`).

The composition: `SessionController` is the program's cycle, with
`Matcher`'s operators and the promises of the others: `CounterStore`'s atomic
update, the calls of `RunningStrategy`, and `Enforcement`. The last one is checked and
proved from both sides: the loop with all its signals, waits and failures
(`ProcessTermination`) and the whole cycle with one step per ended process
(`SessionController`) implement the same specification, so that the coarse step of
the one is what the fine steps of the other add up to.

## 3. The runs

All bounds are constants of the `MC*` modules and `.cfg` files.

| Run | Shows | Bounds, and why they are enough |
|---|---|---|
| `sampling` | `ActiveWithinUnit`: what is charged fits into the part of the unit that has passed, up to a fraction of a second for each time the clock was set back. `ContinuousUseIsCounted`: continuous use is counted to less than a second per check. `TimelyOveruseIsExceeding`: so continuous use for longer than the limit is found, unless the clock was set back. `StaysExceeding`: over the limit means over it until the unit ends. `CalendarIsLocal`: the computed begin of a unit is the first moment of the local day or week. | Half-second ticks (so that seconds are truncated), update cycle 4 s, tolerance 6 s; checks on time, half a second and 2 s late (the last just tolerated), and early; 4 days, of which two are shorter and longer because the local clock is set by 2 s, 2 weeks; the system clock is set forward by 4.5 s, and back once by 1.5 s (within the tolerance) or 15 s (into the day before). Each kind of update happens several times in one unit and over the begin of one. |
| `sampling_check_interval` (violation) | With a check interval of twice the update cycle, permanent use never exceeds a limit. | the same, without settings of the clock |
| `service` | `TermEndsDaemon`: every daemon that was sent a SIGTERM ends. `StopBound`: after at most one more cycle and one more wait. `WaiterIsNotified`: a waiting one at once. `CancelOnLiveStrategy`: the strategy outlives the main thread's handler (not one on another thread, see section 5). `OwnerGoesOn`: the thread that owns `m_mutex` does not wait for it. `TermIsNotLost`: a SIGTERM is pending, handled or stored, or the process has ended. | 3 calls of the script (a stop, a restart and a start in any order), 2 pool threads beside main: two handlers compete for the mutex while main does; a SIGTERM before the handler is installed, while it is, during the unwinding, and after the handler was replaced. `InterruptsOwner = FALSE`: a signal does not hit the main thread while it owns the mutex. With such signals daemons hang, which is what `strategy_signal_on_owner` shows; `TermEndsDaemon` holds for all others. |
| `strategy_signal_on_owner` (violation) | A signal that hits the main thread while it owns the mutex deadlocks it. | 1 signal. |
| `restart` (violation) | A restart may leave no daemon, or one that is about to end. | 1 call, no pool threads. |
| `statistics` | `ImplementsStore`: cycles, crashes, restarts and saves that fail or are interrupted implement a store that changes by whole checks, or is lost as a whole. `ExcessIsRemembered`: an excess that was recorded and enforced is found again by each later check of the day, unless a save was interrupted since or a check found the clock behind the counter's last run. `NeverOvercharged`: no counter on file holds more than the time that passed, up to a fraction of a second for each time the clock was set back. `FileIsAccepted`: the daemon's own file never keeps it from starting unless a save was interrupted. | All four faults; 2 names, of which each cycle matches any; clock readings 0 to 12 s in 2 days (and what is before them), update cycle 2 s, limit 3 s, gaps on time and not tolerated, and one set-back by 3 s, within the day or over its begin: enough for an excess, a crash or a set-back, and checks afterwards, in one day and the next. |
| `statistics_torn` (violation) | A crash inside of a save loses what was recorded. | as `statistics`, with gaps early, on time and just tolerated, and no set-back |
| `termination` | `MatchedAreKilled`: after the loop no process of the match runs that was not sent SIGKILL. `GraceBeforeKill`: SIGKILL only after the whole time-out. `ImplementsEnforcement`: the loop implements `Enforcement`. `CycleEnds`: every cycle ends. `OffendersGo`: a matching process that may be signalled does not stay while the daemon is up. | 2 processes, 2 programs, a rule that matches one of them and the empty command line, time-out 2 s: each may heed, ignore, exit, exec, turn into a zombie and be reaped before, in or after each step and wait. |
| `termination_gone` (violation) | A process that has gone within the time-out is nevertheless treated as one that has not. | as `termination`, without a match of the empty command line |
| `termination_reaped` (violation) | A process that is reaped while its command line is read ends the daemon. | as `termination_gone` |
| `session` | `OnlyExceedingAreTerminated` and `EnforcedWhileUp`: what is ended had to be, and what has to be ended is, while files are edited, programs start and quit, the server answers or does not, days begin, the clock is set back and saves fail. `NoneIsSpared`: when the loop is through, nothing that was matched and exceeds the limit of a kill rule runs, in however many matches it was. `ImplementsEnforcement`: the cycle implements `Enforcement`. `SavedIsLoaded`: rules that are saved load as they were. | 2 processes, 2 programs (one is matched by two rules, and one rule matches both, so that a match has two processes), 2 names (one with a blacklist that two rules use, one that breaks the report and is the example's), rules with defaults, 5 files (one with an element that is no rule, one without rules, none), levels up to 2 with limit 1. |
| `session_influx` (violation) | An InfluxDB server that stops answering ends the daemon before it enforces. | as `session`, without faults and with names that fit |

The type invariants are part of the runs `sampling`, `service`, `statistics`,
`termination` and `session`. Every property of a passing run has a mutant in
`PROJECT.json`: an operator beside the definition it replaces
(`doUpdate_NoReset`, `Check_Blind`, ...) that makes a plausible mistake, which the
property notices.

Deadlock is not checked where the model ends with its last clock reading
(`sampling*`, `statistics*`), and in `strategy_signal_on_owner`.

### Fairness

- `RunningStrategy`, `InitScript`: the main thread and the handler's threads go on if
  they can (weak fairness); a cycle ends because all of its waits have time-outs
  (`CProcess.cpp:96,108`, the HTTP client's default time-out of
  `CInfluxAdapter.cpp:17`). Taking the mutex is strongly fair: the main thread
  holds it only around the wait, which leaves it free for a whole duty cycle,
  and each handler for three statements. Delivering a pending signal is strongly
  fair: a handler is not installed or not free only for a time. The shell ends the
  sleep of a restart. Nothing calls the script.
- `ProcessTermination`: the daemon's thread runs and its sleeps end; a process
  that was sent SIGKILL exits. Nothing is assumed of processes otherwise.
- `SessionController`: the cycle goes on. Nothing is assumed of users, the
  administrator, the server, the calendar or the clock, and nothing restarts a daemon that
  has ended.
- `CounterSampling`, `Statistics`: none; their properties are about safety.

### What the violations show

1. `sampling_check_interval`: `CStatistics.cpp:83` and `:119` make counters with
   the default update cycle of 60 s, whatever `--check-interval` is;
   `CUnitCounterFactory.cpp:35-37` says that it has to match.
2. `strategy_signal_on_owner`: `cancel()` runs inside of a signal handler and locks
   a mutex (`CRunningStrategy.cpp:34`) that the interrupted thread may own.
3. `restart`: `src/source/gsc/etc/gsc:33-35` waits one second for a daemon that may
   need longer to end; the start then finds it running, does nothing and reports
   that it has started one.
4. `statistics_torn`: the counter file is rewritten in place
   (`CStatistics.cpp:104`); a crash in a save loses the counters of the day.
5. `termination_gone`: `CProcess.cpp:66` compares kill(2)'s result with `-ESRCH`, which
   it never is.
6. `termination_reaped`: `CProcess.cpp:40` tests the stream after it was opened, and
   line 43 reads through an iterator that throws when read(2) fails; it does, with
   ESRCH, if the process was reaped in between, and nothing catches it.
7. `session_influx`: `CSessionController.cpp:98` is neither inside of the handler of
   lines 94-96 nor behind the enforcement.

## 4. The proofs

The theorems hold for all values of the constants that satisfy the assumptions
the modules state, and TLC evaluates those assumptions in each run.

**`CounterSampling_proofs`.** From `TicksAssumption`, `CycleAssumption`,
`TimesAssumption`, `CalendarAssumption` and `SamplingAssumption`:
`TypeCorrect`, `ChargeFitsUnit` (`ActiveWithinUnit`) and `OverLimitStays`
(`StaysExceeding`); and, assuming that no gap exceeds the tolerance,
`UseIsCounted` (`ContinuousUseIsCounted`) and `OveruseIsFound`
(`TimelyOveruseIsExceeding`): what the run `sampling_check_interval` refutes,
`OveruseIsExceeding`, holds for every check interval that fits the update cycle, as
long as the clock is not set back. `ActiveWithinUnit` is not inductive by
itself: it needs that the counter's stamp is ahead of the clock only if the clock
was set back, and that it is the clock of the last check if that check found the
application; `IInv` adds these and the bounds of the streak. The lemma
`UpdateOutcome` says what `doUpdate` can do: reset, keep, or add; `SecondsBetweenBounds`
how much it adds; `UnitBeginBounds` that the begin of a unit is before its readings.
An addition fits because a consecutive update in the same unit adds no more than
the clock went on since the stamp, and one that goes back takes off at least what
the clock lost, but for a fraction of a second.

**`LocalCalendar_proofs`.** `UnitsAreLocal` (`CalendarIsLocal`), from `DayAssumption`,
`OffsetAssumption`, `BeginsAssumption` and `ZoneAssumption`. The lemma `LocalBeginIsBegin`
shows that the reading `mktime` finds is the first of its unit and that no later unit
begins before the moment in question: `ReachedIsNumber` says, from the fact that dates and
weeks are quotients (`QuotientAtLeast`), that the local clock has reached the midnight
of a unit's begin exactly in that unit and later ones. `LocalBeginIsUnitBegin` concludes,
as there is one such begin. `LocalCalendarIsCalendar` shows that the local calendar meets
`CalendarAssumption`, from which the theorems about `CounterSampling` follow: that
assumption holds for every zone of `ZoneAssumption`.

**`RunningStrategy_proofs`.** For any set of threads and any number of signals:
`TypeCorrect`, `CancelledRunStops` (`StopBound`), `CancelWakesWaiter`
(`WaiterIsNotified`) and `NoCancelAfterFree` (`CancelOnLiveStrategy`). The invariants say
where the main thread can be for each number of cycles and waits that began after
the store, that a waiter which was not notified yet has its notifier on the way,
and that the main thread is not in a handler when it unwinds. `TermsAreKept`
(`TermIsNotLost`) needs that a thread which has left the store has stored
(`StoredOnceLeft`). `OnlyInterruptedOwnerIsStuck` (`OwnerGoesOn`) is the other side of
`strategy_signal_on_owner`, without an assumption on signals: the owner of the mutex is
always at a statement it can execute, except where its own handler has interrupted
`run()` while it owned it (`OwnerInterrupted`). Its invariant `MutexInv` is mutual
exclusion in both directions (whoever is inside owns the mutex, the owner is inside)
and that `run()` holds the mutex only while the handler is installed, because the
default action of a SIGTERM would leave it owned. `ServiceStops` lifts all of them
to `ServiceSpec`: a daemon's steps and the script's
SIGTERM are steps of `RunningStrategy`, and a start establishes its initial state.

**`Statistics_proofs`.** Under all four faults and for any names, limit, gaps and
calendar: `TypeCorrect` and `NothingChargedTwice` (`NeverOvercharged`). The
inductive invariant adds to the types that every counter, in memory and on
file, is `Sane`: made for a day, stamped ahead of the clock only if the clock was set
back, and within its unit up to a fraction of a second for each set-back. `NeverOvercharged` alone is not inductive because it speaks of the file,
which is written from memory. The lemma `RoundTrip` shows that a saved and
loaded file holds the same counters, `UpdateIsSane` that an update keeps them
sane (from `UpdateKeepsFit` of `UnitCounter_proofs`).

**`StatisticsStore_proofs`.** Under all four faults: `Implementation`
(`ImplementsStore`), `ExcessIsFoundAgain` (`ExcessIsRemembered`) and
`FileAlwaysAccepted` (`FileIsAccepted`). `FileMatchesPlace` says for each place of a
cycle what the file and the memory are to each other, so that the step that opens
the file to save is a `Store!Check`, a step that interrupts a save is a `Store!Lose`
or leaves a store that is empty already, and every other step leaves `durable`.
`ExcessIsKept` says that the durable counter of a name in `known` still has a value
over the limit or is of a later day;
the lemma `UpdateRecalls` shows that an update keeps that, because units begin in
the order of the moments they contain (`UnitBeginMonotone`). From it follows
`TerminatedIsTerminatedAgain`: if no save is interrupted (`Interruptions` is empty),
`TerminatedAgain` holds until a check first finds the clock set back. In the run
`statistics_torn`, where the clock is not set back, the interrupted save is thus the only
cause; crashes elsewhere and saves that cannot open the file are not. After a set-back
an application may be used again for as long as the clock lost within the day: `doUpdate` takes that
time off.

**`ProcessTermination_proofs`.** From `TerminationAssumption`, for any processes,
programs and time-out: `TypeCorrect`, `NoneIsLeftBehind` (`MatchedAreKilled`) and
`GraceIsGranted` (`GraceBeforeKill`). `MatchedAreKilled` speaks of the end of the loop;
the invariant says of every place in it that a process of the match is still to be
terminated, is the current one, has been sent SIGKILL or does not run
(`DoneAreKilled`). That needs `TargetsAreOwned`, as SIGKILL must reach the process, and
`InHandIsListed`, as a listed pid is not used again. The grace period needs that the
current process has been waited for as long as `second` says (`GraceIsSlept`).

`LoopEnforces` (`ImplementsEnforcement`) is the refinement. Of the table's steps an exec
and a reaping are stutters, a start is a `Start` because a pid that is in use in a cycle is
not used again, an exit or a death is a `Leave`. The listings stutter but for the
read that adds to the match, and for the one that throws: it is an `Abort`, since
nothing waits to be ended outside of the loop (`TodoIsOfLoop`). The step that begins the
loop is a `Decide`. SIGTERM and the waits change nothing that `Enforcement` sees; `Kill` is
its `End`, whether SIGKILL reaches the process (`TargetsAreOwned`) or it has gone.

**`SessionController_proofs`.** From `ControllerAssumption`, for any files, rules,
processes and programs: `TypeCorrect`, `RulesAreSaved` (`SavedIsLoaded`) and
`NoneIsEndedWithoutCause` (`OnlyExceedingAreTerminated`). `RoundTrip` is the lemma on data
behind the second: saving and loading a set of rules with different names gives
that set, and the invariant says that the rules in memory are one. The third needs
that the matches of a cycle were made by the rules in memory, and still hold: what
a matched process runs is on the whitelist and not on the blacklist of a rule of
that name, unless it has gone; and that what is still to be terminated is due by
those matches and the counters of this cycle.

`AllThatExceedsIsEnded` (`NoneIsSpared`) is its converse, and needs the converse of
each part (`LoopInv`): the matches hold every process that a rule matches
(`MatchesAreAll`), what an exceeded kill rule has matched is still to be ended or
has gone (`EndedAreGone`), and only the loop has something to end (`TodoIsOfLoop`).
`CycleEnforces` (`ImplementsEnforcement`) maps the cycle to `Enforcement`: listing
is a `Match`, the report (after which the loop begins) a `Decide`, and every exception
an `Abort`, which is possible only before the loop.

**`UnitCounter_proofs`** holds the lemmas about the operators of `UnitCounter` that
these proofs and those of `CounterSampling` share: `FitsUnit` is the bound of a counter
with its slack for set-backs, which a clock that moves (`ClockKeepsFit`) and an update
(`UpdateKeepsFit`) keep.

**Only model-checked:** the liveness properties (`TermEndsDaemon`, `CycleEnds`,
`OffendersGo`, `EnforcedWhileUp`), which need fairness and are beyond the prover.
Every safety property of a passing run is proved.

## 5. What is not modelled

- Zones that switch their clock at a midnight, where `mktime` has to choose for a
  time that is skipped or shown twice (`ZoneAssumption`).
- How far below zero `active` gets when the clock is set back over the begin of a
  unit: the model does what the code does (`SecondsBetween` is negative), and
  `ActiveWithinUnit` says only that the count is not negative if the clock was never
  set back. No document says what should happen.
- The text of regular expressions, XML and log messages, option parsing, the
  logger, `TimeUtility`, and the conversion of a limit from text. An expression is the
  set of command lines it matches.
- The re-use of a pid within one cycle, or of the pid in a stale pid file.
- A handler on a thread of the HTTP client's pool that is still inside `cancel()`
  when `main()` has left `run()` and destroys what it uses: `CancelOnLiveStrategy`
  speaks of the main thread only. With pool threads it does not hold in the model
  either, but whether the kernel ever picks such a thread is not the program's choice.
- What follows when the daemon has ended by an exception: nothing restarts it, so
  `EnforcedWhileUp` speaks of a daemon that is up.
- The loss of the counter file in `SessionController`; `Statistics` has it. If every save
  fails, the levels on file never grow, and no limit is reached but by what is
  already there: the code only logs that.
- Two daemons at a time: start-stop-daemon does not start a second one while the
  pid file's process runs.
- A run without `-d`, which is one cycle and nothing else (`CStraightRunningStrategy`).
- A process in one cycle is one program to the end of that cycle in
  `SessionController`; that it may exec another is in `ProcessTermination`.
- The comparison of rules and of rule sets (`IMatchingRule.cpp`), which only tests
  use, and `ping()` of the InfluxDB adapter, which nothing calls.
- Integer overflow: `active` is a count of seconds within a week.

## 6. Plan

1. (done) `UnitCounter`, `CounterSampling`; `RunningStrategy`; `Statistics` with
   `CounterStore`; `ProcessTermination`; `Matcher`, `SessionController`.
2. (done) `LocalCalendar`; clock steps in `CounterSampling`; interrupted saves in the
   refinement; `InitScript`; the listing's passes in `ProcessTermination`; the example
   file, saving and the elements of a file in `Matcher` and `SessionController`.
3. (done) The proofs about `ProcessTermination`, `SessionController`, `LocalCalendar` and the
   composition of `InitScript`.
4. (done) `Enforcement` and the two refinements of it; the mutex and the signals of
   `RunningStrategy`; under what conditions the properties hold that the violations refute.
5. (done) The clock set back in `Statistics` and `SessionController`, failing saves in the
   latter, and the owner of the mutex without an assumption on signals.
6. Open: `SessionController` composed with `CounterStore` in place of levels; handlers on
   pool threads that outlive the strategy, with the kernel's choice of a thread.
