----------------------------- MODULE Statistics -----------------------------
(***************************************************************************)
(* The statistics of the daemon (common/source/CStatistics.cpp): in every  *)
(* cycle CSessionController makes a Statistics object, which loads the     *)
(* counter file, rates the matches and is destroyed at once, which saves   *)
(* the file; only then limits are enforced.  Nothing is kept in memory     *)
(* from one cycle to the next.  The file is written in place: it is        *)
(* truncated when it is opened and complete when all is written.           *)
(*                                                                         *)
(* The process may be stopped or crash at any step and is started again.   *)
(***************************************************************************)
EXTENDS UnitCounter

CONSTANTS
  Names,   \* the names of the matching rules
  Limit,   \* their limit in seconds
  Gaps,    \* ticks the clock moves from one cycle to the next
  Start,   \* the clock reading before the first cycle
  Faults,  \* of "crash", "crashInSave", "openFails", "writeFails"
  MaxSetBacks  \* bound: how often a cycle finds the clock set back

ASSUME StatisticsAssumption ==
  /\ Limit \in Nat \ {0}
  /\ Gaps \subseteq Int
  /\ Start \in Times \ {Epoch}
  /\ Faults \subseteq {"crash", "crashInSave", "openFails", "writeFails"}
  /\ MaxSetBacks \in Nat

VARIABLES
  pc,            \* where the cycle is; "down" while there is no process
  now,           \* the clock; m_now during a cycle
  file,          \* the counter file
  m_counter,     \* the counters in memory
  rated,         \* the names rate() was called with
  recorded,      \* whether the save of this cycle succeeded
  failed,        \* history: the last process was ended by an exception
  terminatedAt,  \* history: for each name, when its excess was last enforced
                 \* after it had been recorded
  known,         \* history: the names whose enforced excess nothing can have
                 \* taken from the file since: neither a save cut short nor
                 \* a check that found the clock behind the counter's last run
  setBacks,      \* history: how often a cycle found the clock set back
  interrupted    \* history: whether a save was ever cut short

histories == <<terminatedAt, known, setBacks, interrupted>>
vars == <<pc, now, file, m_counter, rated, recorded, failed, histories>>

PCs == {"idle", "createOpen", "createWrite", "load", "rate",
        "saveOpen", "saveWrite", "enforce", "down"}

NoCounters == [n \in Names |-> NoCounter]

(* The abstract store that this module implements: what a load would find. *)
CounterMap == [Names -> Counter \cup {NoCounter}]

(* A counter in the file: its name and what AUnitCounterBase::serialize    *)
(* puts there, which does not include the update cycle.                    *)
Entry == [name : Names, unit : Unit, active : Int, previousRun : Times]

serialize(name, counter) ==
  [name |-> name, unit |-> counter.unit,
   active |-> counter.active, previousRun |-> counter.previousRun]

(* CUnitCounterFactory::create(ptree): the kind of counter the unit says. *)
create(entry) ==
  [unit |-> entry.unit, active |-> entry.active, previousRun |-> entry.previousRun]

(* save() writes an entry for each counter, load() makes them again. *)
Saved(counters) == {serialize(n, counters[n]) : n \in {m \in Names : counters[m] # NoCounter}}

Loaded(entries) ==
  [n \in Names |-> IF \E e \in entries : e.name = n
                   THEN create(CHOOSE e \in entries : e.name = n)
                   ELSE NoCounter]

File(kind, entries) == [kind |-> kind, entries |-> entries]

FileKinds == {"absent", "directory", "empty", "torn", "valid"}

(* A counter file is there from an earlier run, or not, or something else  *)
(* has its path.                                                           *)
Init ==
  /\ pc = "down"
  /\ now = Start
  /\ file \in {File(kind, {}) : kind \in {"absent", "directory", "valid"}}
  /\ m_counter = NoCounters
  /\ rated = {}
  /\ recorded = FALSE
  /\ failed = FALSE
  /\ terminatedAt = [n \in Names |-> Epoch]
  /\ known = {}
  /\ setBacks = 0
  /\ interrupted = FALSE

-----------------------------------------------------------------------------

(* The object is gone, and with it all that was in memory. *)
Forget ==
  /\ m_counter' = NoCounters
  /\ rated' = {}
  /\ recorded' = FALSE

(* An exception leaves the constructor and ends the process. *)
Fail ==
  /\ pc' = "down"
  /\ failed' = TRUE
  /\ Forget

(* main() *)
StartProcess ==
  /\ pc = "down"
  /\ pc' = "idle"
  /\ failed' = FALSE
  /\ UNCHANGED <<now, file, m_counter, rated, recorded, histories>>

(* The object is constructed: m_now is the reading of system_clock, which  *)
(* may have been set back since the last cycle; what the constructor does  *)
(* depends on what is at the path.                                         *)
Construct(gap) ==
  /\ pc = "idle"
  /\ now + gap \in Times \ {Epoch}
  /\ gap < 0 => setBacks < MaxSetBacks
  /\ now' = now + gap
  /\ setBacks' = IF gap < 0 THEN setBacks + 1 ELSE setBacks
  /\ IF file.kind = "directory"
     THEN Fail
     ELSE /\ pc' = IF file.kind = "absent" THEN "createOpen" ELSE "load"
          /\ UNCHANGED <<m_counter, rated, recorded, failed>>
  /\ UNCHANGED <<file, terminatedAt, known, interrupted>>

(* save(): write_xml opens the file, which creates or truncates it.  If    *)
(* that fails it throws: out of the constructor, or into the handler of    *)
(* the destructor, which logs it.                                          *)
OpenForSave ==
  /\ pc \in {"createOpen", "saveOpen"}
  /\ file' = File("empty", {})
  /\ pc' = IF pc = "createOpen" THEN "createWrite" ELSE "saveWrite"
  /\ UNCHANGED <<now, m_counter, rated, recorded, failed, histories>>

OpenFails ==
  /\ "openFails" \in Faults
  /\ \/ pc = "createOpen" /\ Fail
     \/ /\ pc = "saveOpen"
        /\ pc' = "enforce"
        /\ UNCHANGED <<m_counter, rated, recorded, failed>>
  /\ UNCHANGED <<now, file, histories>>

(* Mutant: only the counters of this cycle are saved. *)
WriteSave_RatedOnly ==
  /\ pc \in {"createWrite", "saveWrite"}
  /\ file' = File("valid", {e \in Saved(m_counter) : e.name \in rated})
  /\ recorded' = (pc = "saveWrite")
  /\ pc' = IF pc = "createWrite" THEN "load" ELSE "enforce"
  /\ UNCHANGED <<now, m_counter, rated, failed, histories>>

(* save(): every counter is written and the file closed. *)
WriteSave ==
  /\ pc \in {"createWrite", "saveWrite"}
  /\ file' = File("valid", Saved(m_counter))
  /\ recorded' = (pc = "saveWrite")
  /\ pc' = IF pc = "createWrite" THEN "load" ELSE "enforce"
  /\ UNCHANGED <<now, m_counter, rated, failed, histories>>

(* A save is cut short: the counters that were on file are gone. *)
Interrupt ==
  /\ file' \in {File("empty", {}), File("torn", {})}
  /\ known' = {}
  /\ interrupted' = TRUE
  /\ UNCHANGED <<terminatedAt, setBacks>>

(* The disk is full: what has been written so far stays. *)
WriteFails ==
  /\ "writeFails" \in Faults
  /\ \/ pc = "createWrite" /\ Fail
     \/ /\ pc = "saveWrite"
        /\ pc' = "enforce"
        /\ UNCHANGED <<m_counter, rated, recorded, failed>>
  /\ Interrupt
  /\ UNCHANGED now

(* Mutant: a file without counters is refused. *)
Load_Strict ==
  /\ pc = "load"
  /\ IF file.entries = {}
     THEN Fail
     ELSE /\ m_counter' = Loaded(file.entries)
          /\ pc' = "rate"
          /\ UNCHANGED <<rated, recorded, failed>>
  /\ UNCHANGED <<now, file, histories>>

(* load(): a torn file is an XML error, which ends the process; an empty   *)
(* one is a document without counters.                                     *)
Load ==
  /\ pc = "load"
  /\ IF file.kind = "torn"
     THEN Fail
     ELSE /\ m_counter' = Loaded(file.entries)
          /\ pc' = "rate"
          /\ UNCHANGED <<rated, recorded, failed>>
  /\ UNCHANGED <<now, file, histories>>

(* Mutant: a new entry is time-stamped but gets no counter. *)
RatedCounters_NotMade(matches) ==
  [n \in Names |->
     IF n \notin matches THEN m_counter[n]
     ELSE IF m_counter[n] = NoCounter THEN [NoCounter EXCEPT !.previousRun = now]
     ELSE doUpdate(m_counter[n], now)]

(* rate(): counters are looked up by name and made for a day if new. *)
RatedCounters(matches) ==
  [n \in Names |->
     IF n \notin matches THEN m_counter[n]
     ELSE doUpdate(IF m_counter[n] = NoCounter THEN NewCounter("Day") ELSE m_counter[n], now)]

Rate(matches) ==
  /\ pc = "rate"
  /\ m_counter' = RatedCounters(matches)
  /\ rated' = matches
  /\ pc' = "saveOpen"
  /\ known' = known \ {n \in matches : m_counter[n].previousRun > now}
  /\ UNCHANGED <<now, file, recorded, failed, terminatedAt, setBacks, interrupted>>

Exceeding(n) == ExceedsOne(exceedsLimit(m_counter[n], Limit))

(* CSessionController, after the object is gone: limits are enforced. *)
Enforce ==
  LET excess == {n \in rated : recorded /\ Exceeding(n)}
  IN /\ pc = "enforce"
     /\ terminatedAt' = [n \in Names |-> IF n \in excess THEN now ELSE terminatedAt[n]]
     /\ known' = known \cup excess
     /\ pc' = "idle"
     /\ Forget
     /\ UNCHANGED <<now, file, failed, setBacks, interrupted>>

(* The process dies between two of its steps: killed, or with the machine. *)
Crash ==
  /\ "crash" \in Faults
  /\ pc \notin {"down", "createWrite", "saveWrite"}
  /\ pc' = "down"
  /\ Forget
  /\ UNCHANGED <<now, file, failed, histories>>

(* It dies while the file is truncated and not complete. *)
CrashInSave ==
  /\ "crashInSave" \in Faults
  /\ pc \in {"createWrite", "saveWrite"}
  /\ pc' = "down"
  /\ Forget
  /\ Interrupt
  /\ UNCHANGED <<now, failed>>

Next ==
  \/ StartProcess
  \/ \E gap \in Gaps : Construct(gap)
  \/ OpenForSave \/ OpenFails
  \/ WriteSave \/ WriteFails
  \/ Load
  \/ \E matches \in SUBSET Names : Rate(matches)
  \/ Enforce
  \/ Crash \/ CrashInSave

Spec == Init /\ [][Next]_vars

-----------------------------------------------------------------------------

TypeOK ==
  /\ pc \in PCs
  /\ now \in Times \ {Epoch}
  /\ file.kind \in FileKinds
  /\ file.entries \subseteq Entry
  /\ \A e, f \in file.entries : e.name = f.name => e = f
  /\ m_counter \in CounterMap
  /\ rated \subseteq Names
  /\ recorded \in BOOLEAN
  /\ failed \in BOOLEAN
  /\ terminatedAt \in [Names -> Times]
  /\ known \subseteq Names
  /\ setBacks \in Nat
  /\ interrupted \in BOOLEAN

(* What the file stands for.  A save takes effect when the file is opened: *)
(* if it is not interrupted, that is what the next load finds.             *)
durable == IF pc = "saveWrite" THEN m_counter ELSE Loaded(file.entries)

Interruptions == Faults \cap {"crashInSave", "writeFails"}

Store == INSTANCE CounterStore WITH store <- durable, MayLose <- Interruptions # {}

(* Loading, rating and saving in place implement a store that changes by   *)
(* whole checks, over crashes between the steps, restarts and saves that   *)
(* cannot open the file.  If saves may be cut short, the counters may be   *)
(* lost, but only all together: no check is ever kept in part.             *)
ImplementsStore == Store!Spec

(* README.md:4-6: what was terminated is terminated again when it is       *)
(* restarted.  Once the excess of an application has been recorded and     *)
(* enforced, every later check of that day that finds it rates it as       *)
(* exceeding, in this process or after a crash in a later one.  The code   *)
(* keeps that only while no save is cut short and the clock is not set     *)
(* back.                                                                   *)
TerminatedAgain ==
  pc = "enforce" =>
    \A n \in rated :
      terminatedAt[n] # Epoch /\ ~isNewUnit("Day", now, terminatedAt[n]) => Exceeding(n)

(* The same for the names in known.  An excess is forgotten in two ways    *)
(* only: a save is cut short, which loses all; or a check finds this       *)
(* application while the clock is behind its last run, which takes that    *)
(* time off its counter.  Neither a crash elsewhere nor a save that cannot *)
(* open the file does, nor a clock that was set back and is right again at *)
(* the next check of the application; and after either of the two the      *)
(* daemon keeps again what it records from then on.                        *)
ExcessIsRemembered ==
  pc = "enforce" =>
    \A n \in rated \cap known : ~isNewUnit("Day", now, terminatedAt[n]) => Exceeding(n)

(* Crashes, failed and interrupted saves and restarts lose time but never  *)
(* charge time twice: what is on file fits into the part of the unit that  *)
(* had passed when it was rated.  Each time the clock is set back costs at *)
(* most the fraction of a second that is truncated, and may leave a        *)
(* negative count.                                                         *)
NeverOvercharged ==
  \A e \in file.entries :
    /\ setBacks = 0 => e.active >= 0
    /\ e.active * TicksPerSecond
         <= e.previousRun - getUnitBegin(e.unit, e.previousRun)
              + setBacks * (TicksPerSecond - 1)

(* A counter file never keeps the daemon from running unless a save was    *)
(* cut short: an exception ends it only when there is no file yet or the   *)
(* path is not a file's.                                                   *)
FileIsAccepted ==
  ~interrupted /\ failed => file.kind \in {"absent", "directory"}

=============================================================================
