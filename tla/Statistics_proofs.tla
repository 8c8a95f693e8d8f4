------------------------- MODULE Statistics_proofs -------------------------
(***************************************************************************)
(* What Statistics promises, for every calendar, set of names, limit and   *)
(* schedule of cycles.                                                     *)
(***************************************************************************)
EXTENDS Statistics, UnitCounter_proofs

(* The counter that stands for none is no counter. *)
LEMMA NoCounterIsNone == NoCounter \notin Counter
BY DEF NoCounter, Counter, Unit

LEMMA NoCountersType == NoCounters \in CounterMap
BY DEF NoCounters, CounterMap

(* What load() makes of a file: nothing, or what an entry of the name says.*)
LEMMA LoadedOutcome ==
  ASSUME NEW entries, entries \subseteq Entry, NEW n \in Names
  PROVE  \/ Loaded(entries)[n] = NoCounter
         \/ \E e \in entries : Loaded(entries)[n] = create(e)
<1>1. CASE \E e \in entries : e.name = n
  <2> DEFINE e == CHOOSE e \in entries : e.name = n
  <2>1. e \in entries
    BY <1>1
  <2>2. Loaded(entries)[n] = create(e)
    BY <1>1 DEF Loaded
  <2> QED
    BY <2>1, <2>2
<1>2. CASE ~(\E e \in entries : e.name = n)
  BY <1>2 DEF Loaded
<1> QED
  BY <1>1, <1>2

LEMMA LoadedType ==
  ASSUME NEW entries, entries \subseteq Entry
  PROVE  Loaded(entries) \in CounterMap
<1>1. ASSUME NEW e \in Entry PROVE create(e) \in Counter
  BY DEF Entry, create, Counter
<1>2. ASSUME NEW n \in Names PROVE Loaded(entries)[n] \in Counter \cup {NoCounter}
  BY <1>1, LoadedOutcome
<1>3. Loaded(entries) = [n \in Names |-> Loaded(entries)[n]]
  BY DEF Loaded
<1> QED
  BY <1>2, <1>3 DEF CounterMap

LEMMA LoadedNothing == Loaded({}) = NoCounters
BY DEF Loaded, NoCounters

(* What save() writes: one entry for each counter. *)
LEMMA SavedOutcome ==
  ASSUME NEW cs \in CounterMap
  PROVE  /\ Saved(cs) \subseteq Entry
         /\ \A e, f \in Saved(cs) : e.name = f.name => e = f
         /\ \A e \in Saved(cs) : create(e) = cs[e.name] /\ cs[e.name] # NoCounter
<1>1. ASSUME NEW e \in Saved(cs)
      PROVE  /\ e.name \in Names
             /\ e = serialize(e.name, cs[e.name])
             /\ cs[e.name] # NoCounter
  BY DEF Saved, serialize
<1>2. ASSUME NEW e \in Saved(cs) PROVE cs[e.name] \in Counter
  BY <1>1 DEF CounterMap
<1>3. ASSUME NEW n \in Names, NEW c \in Counter
      PROVE  serialize(n, c) \in Entry /\ create(serialize(n, c)) = c
  BY DEF serialize, create, Entry, Counter
<1> QED
  BY <1>1, <1>2, <1>3

(* A file that was saved and loaded holds the same counters. *)
LEMMA RoundTrip ==
  ASSUME NEW cs \in CounterMap
  PROVE  Loaded(Saved(cs)) = cs
<1>1. ASSUME NEW n \in Names PROVE Loaded(Saved(cs))[n] = cs[n]
  <2>1. CASE cs[n] = NoCounter
    <3>1. ~(\E e \in Saved(cs) : e.name = n)
      BY <2>1, SavedOutcome
    <3> QED
      BY <2>1, <3>1 DEF Loaded
  <2>2. CASE cs[n] # NoCounter
    <3>1. serialize(n, cs[n]) \in Saved(cs) /\ serialize(n, cs[n]).name = n
      BY <2>2 DEF Saved, serialize
    <3> DEFINE e == CHOOSE e \in Saved(cs) : e.name = n
    <3>2. e \in Saved(cs) /\ e.name = n
      BY <3>1
    <3>3. Loaded(Saved(cs))[n] = create(e)
      BY <3>1 DEF Loaded
    <3> HIDE DEF e
    <3> QED
      BY <3>2, <3>3, SavedOutcome
  <2> QED
    BY <2>1, <2>2
<1>2. /\ Loaded(Saved(cs)) = [n \in Names |-> Loaded(Saved(cs))[n]]
      /\ cs = [n \in Names |-> cs[n]]
  BY DEF Loaded, CounterMap
<1> QED
  BY <1>1, <1>2

(* The abstract store computes updates as the program does. *)
LEMMA SameRated ==
  ASSUME NEW matches
  PROVE  RatedCounters(matches) = Store!Rated(m_counter, matches, now)
<1>1. ASSUME NEW c, NEW t PROVE Store!doUpdate(c, t) = doUpdate(c, t)
  BY DEF Store!doUpdate, doUpdate, Store!isNewUnit, isNewUnit, Store!getUnitBegin, getUnitBegin,
         Store!IsUnitBegin, IsUnitBegin, Store!isConsecutiveRun, isConsecutiveRun,
         Store!SecondsBetween, SecondsBetween, Store!Epoch, Epoch
<1>2. Store!NoCounter = NoCounter /\ Store!NewCounter("Day") = NewCounter("Day")
  BY DEF Store!NoCounter, NoCounter, Store!NewCounter, NewCounter, Store!Epoch, Epoch
<1> QED
  BY <1>1, <1>2 DEF RatedCounters, Store!Rated

-----------------------------------------------------------------------------
(* Under all faults: types, and no counter holds more than passed.         *)

(* A counter as the program can have made it when the clock reads t and    *)
(* was set back n times.                                                   *)
Sane(c, t, n) ==
  /\ c \in Counter
  /\ c.unit = "Day"
  /\ FitsUnit(c, t, n)

CountersAreSane ==
  /\ \A n \in Names : m_counter[n] # NoCounter => Sane(m_counter[n], now, setBacks)
  /\ \A e \in file.entries : Sane(create(e), now, setBacks)

IInv == TypeOK /\ CountersAreSane

(* It stays sane while the clock goes on, and when it is set back.         *)
LEMMA SaneLater ==
  ASSUME NEW c, NEW s \in Nat, NEW t \in Nat, NEW m \in Nat, NEW n \in Nat,
         m <= n, t < s => n = m + 1, Sane(c, s, m)
  PROVE  Sane(c, t, n)
BY ClockKeepsFit DEF Sane

(* An update keeps a counter sane, and a new counter is. *)
LEMMA UpdateIsSane ==
  ASSUME NEW c, NEW t \in Times \ {Epoch}, NEW n \in Nat, Sane(c, t, n)
  PROVE  Sane(doUpdate(c, t), t, n)
<1>1. c \in Counter /\ c.unit = "Day" /\ t \in Times
  BY DEF Sane
<1>2. doUpdate(c, t) \in Counter /\ doUpdate(c, t).unit = "Day"
  BY <1>1, UpdateOutcome
<1>3. FitsUnit(doUpdate(c, t), t, n)
  BY <1>1, UpdateKeepsFit DEF Sane
<1> QED
  BY <1>2, <1>3 DEF Sane

LEMMA NewIsSane ==
  ASSUME NEW t \in Times \ {Epoch}, NEW n \in Nat
  PROVE  Sane(NewCounter("Day"), t, n)
<1>1. t \in Nat /\ "Day" \in Unit
  BY TimesAssumption DEF Unit
<1>2. NewCounter("Day") \in Counter /\ FitsUnit(NewCounter("Day"), t, 0)
  BY <1>1, NewFits
<1>3. FitsUnit(NewCounter("Day"), t, n)
  BY <1>1, <1>2, ClockKeepsFit
<1> QED
  BY <1>2, <1>3 DEF Sane, NewCounter

(* What a load finds is sane if the file is. *)
LEMMA LoadedIsSane ==
  ASSUME NEW entries, entries \subseteq Entry, NEW t, NEW m,
         \A e \in entries : Sane(create(e), t, m),
         NEW n \in Names, Loaded(entries)[n] # NoCounter
  PROVE  Sane(Loaded(entries)[n], t, m)
BY LoadedOutcome

LEMMA InitIInv == Init => IInv
<1> SUFFICES ASSUME Init PROVE IInv
  OBVIOUS
<1>1. PICK kind \in FileKinds : file = File(kind, {})
  BY DEF Init, FileKinds
<1>2. file.kind \in FileKinds /\ file.entries = {}
  BY <1>1 DEF File
<1>3. TypeOK
  <2>1. now \in Times \ {Epoch} /\ pc \in PCs /\ rated \subseteq Names
        /\ m_counter \in CounterMap
    BY NoCountersType, StatisticsAssumption DEF Init, PCs
  <2>2. recorded \in BOOLEAN /\ failed \in BOOLEAN
    BY DEF Init
  <2>3. terminatedAt \in [Names -> Times] /\ known \subseteq Names
        /\ setBacks \in Nat /\ interrupted \in BOOLEAN
    BY TimesAssumption DEF Init
  <2> QED
    BY <1>2, <2>1, <2>2, <2>3 DEF TypeOK
<1>4. CountersAreSane
  BY <1>2 DEF CountersAreSane, Init, NoCounters
<1> QED
  BY <1>3, <1>4 DEF IInv

(* A step that leaves the clock and the file, and of the counters keeps    *)
(* those of before or none, keeps the counters sane.                       *)
LEMMA SaneUnchanged ==
  ASSUME IInv, now' = now, setBacks' = setBacks,
         file'.entries = file.entries \/ file'.entries = {},
         m_counter' = m_counter \/ m_counter' = NoCounters
  PROVE  CountersAreSane'
<1>1. ASSUME NEW n \in Names, m_counter'[n] # NoCounter PROVE Sane(m_counter'[n], now, setBacks)
  BY <1>1 DEF IInv, CountersAreSane, NoCounters
<1>2. ASSUME NEW e \in file'.entries PROVE Sane(create(e), now, setBacks)
  BY DEF IInv, CountersAreSane
<1> QED
  BY <1>1, <1>2 DEF CountersAreSane

(* The object goes, and with it the counters in memory. *)
LEMMA ForgetType ==
  ASSUME Forget
  PROVE  /\ m_counter' = NoCounters /\ m_counter' \in CounterMap
         /\ rated' \subseteq Names /\ recorded' \in BOOLEAN
BY NoCountersType DEF Forget

LEMMA FailType ==
  ASSUME Fail
  PROVE  /\ m_counter' = NoCounters /\ m_counter' \in CounterMap
         /\ rated' \subseteq Names /\ recorded' \in BOOLEAN
         /\ pc' \in PCs /\ failed' \in BOOLEAN
BY ForgetType DEF Fail, PCs

LEMMA EmptyFileType ==
  ASSUME NEW kind \in FileKinds, file' = File(kind, {})
  PROVE  /\ file'.entries = {} /\ file'.kind \in FileKinds
         /\ file'.entries \subseteq Entry
         /\ \A e, f \in file'.entries : e.name = f.name => e = f
BY DEF File

LEMMA NextIInv == IInv /\ [Next]_vars => IInv'
<1> SUFFICES ASSUME IInv, [Next]_vars PROVE IInv'
  OBVIOUS
<1>1. TypeOK /\ CountersAreSane /\ now \in Nat /\ setBacks \in Nat
  BY TimesAssumption DEF IInv, TypeOK
<1> USE DEF histories
<1>2. CASE StartProcess
  <2>1. TypeOK'
    BY <1>1, <1>2 DEF StartProcess, TypeOK, PCs
  <2>2. CountersAreSane'
    BY <1>2, SaneUnchanged DEF StartProcess
  <2> QED
    BY <2>1, <2>2 DEF IInv
<1>3. ASSUME NEW gap \in Gaps, Construct(gap) PROVE IInv'
  <2>1. /\ now' \in Times \ {Epoch} /\ now' \in Nat
        /\ setBacks' \in Nat /\ setBacks <= setBacks'
        /\ now' < now => setBacks' = setBacks + 1
    <3>1. gap \in Int /\ now' = now + gap /\ now' \in Times \ {Epoch} /\ now' \in Nat
      BY <1>3, StatisticsAssumption, TimesAssumption DEF Construct
    <3>2. setBacks' = IF gap < 0 THEN setBacks + 1 ELSE setBacks
      BY <1>3 DEF Construct
    <3> QED
      BY <1>1, <3>1, <3>2
  <2>2. /\ file' = file /\ terminatedAt' = terminatedAt
        /\ known' = known /\ interrupted' = interrupted
    BY <1>3 DEF Construct
  <2>3. /\ m_counter' = m_counter \/ m_counter' = NoCounters
        /\ m_counter' \in CounterMap /\ rated' \subseteq Names /\ recorded' \in BOOLEAN
        /\ pc' \in PCs /\ failed' \in BOOLEAN
    <3>1. CASE file.kind = "directory"
      BY <1>3, <3>1, FailType DEF Construct
    <3>2. CASE file.kind # "directory"
      BY <1>1, <1>3, <3>2 DEF Construct, TypeOK, PCs
    <3> QED
      BY <3>1, <3>2
  <2>4. TypeOK'
    BY <1>1, <2>1, <2>2, <2>3 DEF TypeOK
  <2>5. CountersAreSane'
    <3>1. ASSUME NEW n \in Names, m_counter'[n] # NoCounter PROVE Sane(m_counter'[n], now', setBacks')
      BY <1>1, <2>1, <2>3, <3>1, SaneLater DEF CountersAreSane, NoCounters
    <3>2. ASSUME NEW e \in file'.entries PROVE Sane(create(e), now', setBacks')
      BY <1>1, <2>1, <2>2, SaneLater DEF CountersAreSane
    <3> QED
      BY <3>1, <3>2 DEF CountersAreSane
  <2> QED
    BY <2>4, <2>5 DEF IInv
<1>4. CASE OpenForSave
  <2>1. file' = File("empty", {}) /\ "empty" \in FileKinds
    BY <1>4 DEF OpenForSave, FileKinds
  <2>2. TypeOK'
    <3>1. pc' \in PCs
      BY <1>4 DEF OpenForSave, PCs
    <3> QED
      BY <1>1, <1>4, <2>1, <3>1, EmptyFileType DEF OpenForSave, TypeOK
  <2>3. CountersAreSane'
    BY <1>4, <2>1, EmptyFileType, SaneUnchanged DEF OpenForSave
  <2> QED
    BY <2>2, <2>3 DEF IInv
<1>5. CASE OpenFails
  <2>1. /\ m_counter' = m_counter \/ m_counter' = NoCounters
        /\ m_counter' \in CounterMap /\ rated' \subseteq Names /\ recorded' \in BOOLEAN
        /\ pc' \in PCs /\ failed' \in BOOLEAN
    <3>1. CASE pc = "createOpen"
      BY <1>5, <3>1, FailType DEF OpenFails
    <3>2. CASE pc = "saveOpen"
      BY <1>1, <1>5, <3>2 DEF OpenFails, TypeOK, PCs
    <3> QED
      BY <1>5, <3>1, <3>2 DEF OpenFails
  <2>2. now' = now /\ file' = file /\ UNCHANGED histories
    BY <1>5 DEF OpenFails
  <2>3. TypeOK'
    BY <1>1, <2>1, <2>2 DEF TypeOK
  <2>4. CountersAreSane'
    BY <2>1, <2>2, SaneUnchanged
  <2> QED
    BY <2>3, <2>4 DEF IInv
<1>6. CASE WriteSave
  <2>1. m_counter \in CounterMap
    BY <1>1 DEF TypeOK
  <2>2. file'.kind \in FileKinds /\ file'.entries = Saved(m_counter)
    BY <1>6 DEF WriteSave, File, FileKinds
  <2>3. /\ now' = now /\ m_counter' = m_counter /\ rated' = rated
        /\ failed' = failed /\ UNCHANGED histories
        /\ pc' \in PCs /\ recorded' \in BOOLEAN
    BY <1>6 DEF WriteSave, PCs
  <2>4. TypeOK'
    BY <1>1, <2>1, <2>2, <2>3, SavedOutcome DEF TypeOK
  <2>5. CountersAreSane'
    <3>1. ASSUME NEW e \in Saved(m_counter) PROVE Sane(create(e), now, setBacks)
      <4>1. create(e) = m_counter[e.name] /\ m_counter[e.name] # NoCounter /\ e.name \in Names
        BY <2>1, SavedOutcome DEF Entry
      <4> QED
        BY <1>1, <4>1 DEF CountersAreSane
    <3> QED
      BY <1>1, <2>2, <2>3, <3>1 DEF CountersAreSane
  <2> QED
    BY <2>4, <2>5 DEF IInv
<1>7. CASE WriteFails
  <2>1. PICK kind \in FileKinds : file' = File(kind, {})
    BY <1>7 DEF WriteFails, Interrupt, FileKinds
  <2>2. /\ m_counter' = m_counter \/ m_counter' = NoCounters
        /\ m_counter' \in CounterMap /\ rated' \subseteq Names /\ recorded' \in BOOLEAN
        /\ pc' \in PCs /\ failed' \in BOOLEAN
    <3>1. CASE pc = "createWrite"
      BY <1>7, <3>1, FailType DEF WriteFails
    <3>2. CASE pc = "saveWrite"
      BY <1>1, <1>7, <3>2 DEF WriteFails, TypeOK, PCs
    <3> QED
      BY <1>7, <3>1, <3>2 DEF WriteFails
  <2>3. /\ now' = now /\ terminatedAt' = terminatedAt /\ setBacks' = setBacks
        /\ known' = {} /\ interrupted' = TRUE
    BY <1>7 DEF WriteFails, Interrupt
  <2>4. TypeOK'
    BY <1>1, <2>1, <2>2, <2>3, EmptyFileType DEF TypeOK
  <2>5. CountersAreSane'
    BY <2>1, <2>2, <2>3, EmptyFileType, SaneUnchanged
  <2> QED
    BY <2>4, <2>5 DEF IInv
<1>8. CASE Load
  <2>1. now' = now /\ file' = file /\ UNCHANGED histories
    BY <1>8 DEF Load
  <2>2. CASE file.kind = "torn"
    <3>1. Fail
      BY <1>8, <2>2 DEF Load
    <3>2. TypeOK'
      BY <1>1, <2>1, <3>1, FailType DEF TypeOK
    <3>3. CountersAreSane'
      BY <2>1, <3>1, FailType, SaneUnchanged
    <3> QED
      BY <3>2, <3>3 DEF IInv
  <2>3. CASE file.kind # "torn"
    <3>1. /\ m_counter' = Loaded(file.entries) /\ pc' \in PCs
          /\ rated' = rated /\ recorded' = recorded /\ failed' = failed
      BY <1>8, <2>3 DEF Load, PCs
    <3>2. TypeOK'
      BY <1>1, <2>1, <3>1, LoadedType DEF TypeOK
    <3>3. CountersAreSane'
      <4>1. file.entries \subseteq Entry /\ \A e \in file.entries : Sane(create(e), now, setBacks)
        BY <1>1 DEF TypeOK, CountersAreSane
      <4> QED
        BY <2>1, <3>1, <4>1, LoadedIsSane DEF CountersAreSane
    <3> QED
      BY <3>2, <3>3 DEF IInv
  <2> QED
    BY <2>2, <2>3
<1>9. ASSUME NEW matches \in SUBSET Names, Rate(matches) PROVE IInv'
  <2>1. /\ now' = now /\ file' = file /\ terminatedAt' = terminatedAt
        /\ known' \subseteq known /\ setBacks' = setBacks /\ interrupted' = interrupted
        /\ recorded' = recorded /\ failed' = failed /\ rated' = matches
        /\ m_counter' = RatedCounters(matches) /\ pc' \in PCs
    BY <1>9 DEF Rate, PCs
  <2>2. ASSUME NEW n \in Names
        PROVE  m_counter'[n] # NoCounter => Sane(m_counter'[n], now, setBacks)
    <3>1. CASE n \notin matches
      <4>1. m_counter'[n] = m_counter[n]
        BY <2>1, <3>1 DEF RatedCounters
      <4> QED
        BY <1>1, <4>1 DEF CountersAreSane
    <3>2. CASE n \in matches
      <4>1. m_counter'[n] = doUpdate(IF m_counter[n] = NoCounter THEN NewCounter("Day")
                                     ELSE m_counter[n], now)
        BY <2>1, <3>2 DEF RatedCounters
      <4>2. now \in Times \ {Epoch}
        BY <1>1 DEF TypeOK
      <4>3. CASE m_counter[n] = NoCounter
        BY <1>1, <4>1, <4>2, <4>3, NewIsSane, UpdateIsSane
      <4>4. CASE m_counter[n] # NoCounter
        BY <1>1, <4>1, <4>2, <4>4, UpdateIsSane DEF CountersAreSane
      <4> QED
        BY <4>3, <4>4
    <3> QED
      BY <3>1, <3>2
  <2>3. m_counter' \in CounterMap
    <3>1. ASSUME NEW n \in Names PROVE m_counter'[n] \in Counter \cup {NoCounter}
      BY <2>2 DEF Sane
    <3>2. m_counter' = [n \in Names |-> m_counter'[n]]
      BY <2>1 DEF RatedCounters
    <3> QED
      BY <3>1, <3>2 DEF CounterMap
  <2>4. TypeOK'
    BY <1>1, <2>1, <2>3 DEF TypeOK
  <2>5. CountersAreSane'
    BY <1>1, <2>1, <2>2 DEF CountersAreSane
  <2> QED
    BY <2>4, <2>5 DEF IInv
<1>10. CASE Enforce
  <2>1. /\ Forget /\ now' = now /\ file' = file /\ failed' = failed /\ pc' \in PCs
        /\ setBacks' = setBacks /\ interrupted' = interrupted
    BY <1>10 DEF Enforce, PCs
  <2>2. terminatedAt' \in [Names -> Times] /\ known' \subseteq Names
    BY <1>1, <1>10 DEF Enforce, TypeOK
  <2>3. TypeOK'
    BY <1>1, <2>1, <2>2, ForgetType DEF TypeOK
  <2>4. CountersAreSane'
    BY <2>1, ForgetType, SaneUnchanged
  <2> QED
    BY <2>3, <2>4 DEF IInv
<1>11. CASE Crash
  <2>1. /\ Forget /\ now' = now /\ file' = file /\ failed' = failed /\ pc' \in PCs
        /\ UNCHANGED histories
    BY <1>11 DEF Crash, PCs
  <2>2. TypeOK'
    BY <1>1, <2>1, ForgetType DEF TypeOK
  <2>3. CountersAreSane'
    BY <2>1, ForgetType, SaneUnchanged
  <2> QED
    BY <2>2, <2>3 DEF IInv
<1>12. CASE CrashInSave
  <2>1. PICK kind \in FileKinds : file' = File(kind, {})
    BY <1>12 DEF CrashInSave, Interrupt, FileKinds
  <2>2. /\ Forget /\ now' = now /\ failed' = failed /\ pc' \in PCs
        /\ terminatedAt' = terminatedAt /\ setBacks' = setBacks
        /\ known' = {} /\ interrupted' = TRUE
    BY <1>12 DEF CrashInSave, Interrupt, PCs
  <2>3. TypeOK'
    BY <1>1, <2>1, <2>2, ForgetType, EmptyFileType DEF TypeOK
  <2>4. CountersAreSane'
    BY <2>1, <2>2, ForgetType, EmptyFileType, SaneUnchanged
  <2> QED
    BY <2>3, <2>4 DEF IInv
<1>13. CASE UNCHANGED vars
  <2>1. TypeOK'
    BY <1>1, <1>13 DEF vars, TypeOK
  <2>2. CountersAreSane'
    BY <1>13, SaneUnchanged DEF vars
  <2> QED
    BY <2>1, <2>2 DEF IInv
<1> QED
  BY <1>2, <1>3, <1>4, <1>5, <1>6, <1>7, <1>8, <1>9, <1>10, <1>11, <1>12, <1>13 DEF Next

LEMMA SpecIInv == Spec => []IInv
BY InitIInv, NextIInv, PTL DEF Spec

(* Type correctness, under all faults. *)
THEOREM TypeCorrect == Spec => []TypeOK
<1>1. IInv => TypeOK
  BY DEF IInv
<1> QED
  BY <1>1, SpecIInv, PTL

(* Crashes, failing and interrupted saves and restarts never make a        *)
(* counter hold more than the time that passed in its unit, but for less   *)
(* than a second for each time the clock is set back.                      *)
THEOREM NothingChargedTwice == Spec => []NeverOvercharged
<1>1. IInv => NeverOvercharged
  <2> SUFFICES ASSUME IInv, NEW e \in file.entries
               PROVE  /\ setBacks = 0 => e.active >= 0
                      /\ e.active * TicksPerSecond
                           <= e.previousRun - getUnitBegin(e.unit, e.previousRun)
                                + setBacks * (TicksPerSecond - 1)
    BY DEF NeverOvercharged
  <2>1. PICK c \in Counter : c = create(e) /\ FitsUnit(c, now, setBacks)
    BY DEF IInv, CountersAreSane, Sane
  <2>2. now \in Nat /\ setBacks \in Nat
    BY TimesAssumption DEF IInv, TypeOK
  <2>3. e.active = c.active /\ e.previousRun = c.previousRun /\ e.unit = c.unit
    BY <2>1 DEF create
  <2> QED
    BY <2>1, <2>2, <2>3, FitsWithin
<1> QED
  BY <1>1, SpecIInv, PTL

=============================================================================
