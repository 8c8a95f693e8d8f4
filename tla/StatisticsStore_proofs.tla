---------------------- MODULE StatisticsStore_proofs ----------------------
(***************************************************************************)
(* That Statistics implements CounterStore under all faults, and what is   *)
(* left of its promises when a save has been cut short or the clock was    *)
(* set back: that an excess neither of them reached stays known; and that  *)
(* until a save is cut short the file is never refused.                    *)
(***************************************************************************)
EXTENDS Statistics_proofs

(* What the file and the counters in memory are at each place of a cycle. *)
FileMatchesPlace ==
  /\ file.kind \in {"absent", "directory", "empty", "torn"} => file.entries = {}
  /\ pc = "createOpen" => file.kind = "absent"
  /\ pc \in {"down", "idle", "createOpen", "createWrite"} => m_counter = NoCounters
  /\ pc = "createWrite" => file.entries = {}
  /\ pc = "rate" => m_counter = Loaded(file.entries)
  /\ pc = "saveOpen" => m_counter = Store!Rated(Loaded(file.entries), rated, now)
  /\ pc = "enforce" /\ recorded => m_counter = Loaded(file.entries)
  /\ recorded => pc = "enforce"
  /\ failed => pc = "down"

(* Until a save is cut short, the file is one that can be loaded. *)
FileIsWhole ==
  ~interrupted =>
    /\ file.kind # "torn"
    /\ failed => file.kind \in {"absent", "directory"}

(* The counter c remembers an excess that was enforced at t. *)
Recalls(c, t) ==
  /\ c # NoCounter
  /\ t <= c.previousRun
  /\ ~isNewUnit("Day", c.previousRun, t) => c.active > Limit

(* Where counters that were rated in this cycle are in memory. *)
HasRated == pc \in {"saveOpen", "saveWrite", "enforce"}

RatedAreStamped ==
  HasRated => \A n \in rated : m_counter[n] # NoCounter /\ m_counter[n].previousRun = now

ExcessIsKept ==
  \A n \in known :
    /\ Recalls(durable[n], terminatedAt[n])
    /\ HasRated => Recalls(m_counter[n], terminatedAt[n])

JInv == FileMatchesPlace /\ RatedAreStamped /\ ExcessIsKept

KInv == IInv /\ JInv /\ FileIsWhole

-----------------------------------------------------------------------------
(* What an update and a load do to what a counter remembers.               *)

(* A run in the day of the excess that does not find the clock behind the  *)
(* last run adds to the counter or keeps it; a run of a later day is in a  *)
(* new unit.                                                               *)
LEMMA UpdateRecalls ==
  ASSUME NEW c \in Counter, c.unit = "Day", NEW t \in Times, NEW u \in Times,
         c.previousRun <= u, Recalls(c, t)
  PROVE  Recalls(doUpdate(c, u), t)
<1>1. /\ c \in Counter /\ c.unit = "Day" /\ c.unit \in Unit
      /\ c.previousRun \in Times /\ c.previousRun <= u /\ t <= c.previousRun
      /\ c.active \in Int
  BY DEF Recalls, Counter
<1>2. t \in Nat /\ u \in Nat /\ c.previousRun \in Nat /\ Limit \in Nat
  BY <1>1, TimesAssumption, StatisticsAssumption
<1>0. PICK d : d = doUpdate(c, u)
  OBVIOUS
<1>3. d \in Counter /\ d.previousRun = u
  BY <1>0, <1>1, UpdateOutcome
<1>4. ASSUME ~isNewUnit("Day", u, t) PROVE d.active > Limit
  <2>1. getUnitBegin("Day", t) <= getUnitBegin("Day", c.previousRun)
    BY <1>1, UnitBeginMonotone
  <2>2. getUnitBegin("Day", c.previousRun) <= getUnitBegin("Day", u)
    BY <1>1, UnitBeginMonotone
  <2>3. /\ getUnitBegin("Day", t) \in Nat /\ getUnitBegin("Day", u) \in Nat
        /\ getUnitBegin("Day", c.previousRun) \in Nat
    BY <1>1, UnitBeginAtMost
  <2>4. ~isNewUnit("Day", u, c.previousRun) /\ ~isNewUnit("Day", c.previousRun, t)
    BY <1>4, <2>1, <2>2, <2>3 DEF isNewUnit
  <2>5. c.active > Limit
    BY <2>4 DEF Recalls
  <2>6. SecondsBetween(c.previousRun, u) \in Nat
    BY <1>1, <1>2, SecondsBetweenBounds
  <2>7. d.active \in {c.active, c.active + SecondsBetween(c.previousRun, u)}
    BY <1>0, <1>1, <2>4, UpdateOutcome
  <2> QED
    BY <1>1, <1>2, <2>5, <2>6, <2>7
<1>5. d # NoCounter
  BY <1>3, NoCounterIsNone
<1>6. t <= d.previousRun
  BY <1>1, <1>2, <1>3
<1> QED
  BY <1>0, <1>3, <1>4, <1>5, <1>6 DEF Recalls

(* rate() leaves each counter or updates it to the time of the cycle. *)
LEMMA RatedOutcome ==
  ASSUME NEW matches, NEW n \in Names
  PROVE  /\ n \notin matches => RatedCounters(matches)[n] = m_counter[n]
         /\ n \in matches /\ m_counter[n] = NoCounter
              => RatedCounters(matches)[n] = doUpdate(NewCounter("Day"), now)
         /\ n \in matches /\ m_counter[n] # NoCounter
              => RatedCounters(matches)[n] = doUpdate(m_counter[n], now)
BY DEF RatedCounters

(* What the controller compares with 1 is whether the limit is exceeded. *)
LEMMA ExceedingMeans ==
  ASSUME NEW n \in Names
  PROVE  Exceeding(n) <=> m_counter[n].active > Limit
<1>1. Limit # 0 /\ ~(Limit < 0)
  BY StatisticsAssumption
<1>2. exceedsLimit(m_counter[n], Limit) = <<m_counter[n].active, Limit>>
  BY <1>1 DEF exceedsLimit
<1> QED
  BY <1>2 DEF Exceeding, ExceedsOne

-----------------------------------------------------------------------------

LEMMA InitJInv == Init => JInv
<1> SUFFICES ASSUME Init PROVE JInv
  OBVIOUS
<1>1. PICK kind \in {"absent", "directory", "valid"} : file = File(kind, {})
  BY DEF Init
<1>2. file.kind \in {"absent", "directory", "valid"} /\ file.entries = {}
  BY <1>1 DEF File
<1>3. FileMatchesPlace
  BY <1>2 DEF Init, FileMatchesPlace
<1>4. RatedAreStamped
  BY DEF Init, RatedAreStamped, HasRated
<1>5. ExcessIsKept
  BY DEF Init, ExcessIsKept, Epoch
<1> QED
  BY <1>3, <1>4, <1>5 DEF JInv

(* A step after which there is no save half done and no rating in memory,  *)
(* and that leaves what the file stands for, keeps what it remembers.      *)
LEMMA KeptByStutter ==
  ASSUME JInv, terminatedAt' = terminatedAt /\ known' = known, durable' = durable,
         pc' \notin {"saveOpen", "saveWrite", "enforce"}
  PROVE  RatedAreStamped' /\ ExcessIsKept'
<1>1. ~HasRated'
  BY DEF HasRated
<1> QED
  BY <1>1 DEF JInv, RatedAreStamped, ExcessIsKept

(* So does a step after a rating that leaves the counters in memory too.   *)
LEMMA KeptInCycle ==
  ASSUME JInv, HasRated, terminatedAt' = terminatedAt /\ known' = known, durable' = durable,
         m_counter' = m_counter, rated' = rated, now' = now
  PROVE  RatedAreStamped' /\ ExcessIsKept'
BY DEF JInv, RatedAreStamped, ExcessIsKept

(* After a save was cut short nothing is said to be known. *)
LEMMA NothingKnown ==
  ASSUME known' = {}
  PROVE  ExcessIsKept'
BY DEF ExcessIsKept

(* Apart from rate() and the enforcement, what a step does to what is      *)
(* known of an excess follows from what it does to the durable counters.   *)
LEMMA NextJInv ==
  ASSUME IInv, JInv, [Next]_vars
  PROVE  JInv'
<1>1. TypeOK /\ CountersAreSane /\ FileMatchesPlace /\ RatedAreStamped /\ ExcessIsKept
  BY DEF IInv, JInv
<1> USE DEF histories
<1>2. CASE StartProcess
  <2>1. FileMatchesPlace'
    BY <1>1, <1>2 DEF StartProcess, FileMatchesPlace
  <2>2. durable' = durable /\ terminatedAt' = terminatedAt /\ known' = known /\ pc' = "idle"
    BY <1>2 DEF StartProcess, durable
  <2> QED
    BY <2>1, <2>2, KeptByStutter DEF JInv
<1>3. ASSUME NEW gap \in Gaps, Construct(gap) PROVE JInv'
  <2>1. /\ file' = file /\ terminatedAt' = terminatedAt /\ known' = known /\ pc = "idle"
        /\ pc' \in {"down", "createOpen", "load"}
    BY <1>3 DEF Construct, Fail
  <2>2. durable' = durable
    BY <2>1 DEF durable
  <2>3. FileMatchesPlace'
    <3>1. CASE file.kind = "directory"
      BY <1>1, <1>3, <2>1, <3>1 DEF Construct, Fail, Forget, FileMatchesPlace
    <3>2. CASE file.kind # "directory"
      BY <1>1, <1>3, <2>1, <3>2 DEF Construct, FileMatchesPlace
    <3> QED
      BY <3>1, <3>2
  <2> QED
    BY <2>1, <2>2, <2>3, KeptByStutter DEF JInv
<1>4. CASE OpenForSave
  <2>1. /\ file' = File("empty", {}) /\ file'.kind = "empty" /\ file'.entries = {}
        /\ terminatedAt' = terminatedAt /\ known' = known /\ m_counter' = m_counter /\ rated' = rated
        /\ now' = now /\ recorded' = recorded /\ failed' = failed
    BY <1>4 DEF OpenForSave, File
  <2>2. CASE pc = "createOpen"
    <3>1. pc' = "createWrite"
      BY <1>4, <2>2 DEF OpenForSave
    <3>2. FileMatchesPlace'
      BY <1>1, <2>1, <2>2, <3>1 DEF FileMatchesPlace
    <3>3. durable' = durable
      BY <1>1, <2>1, <2>2, <3>1 DEF durable, FileMatchesPlace
    <3> QED
      BY <2>1, <3>1, <3>2, <3>3, KeptByStutter DEF JInv
  <2>3. CASE pc = "saveOpen"
    <3>1. pc' = "saveWrite"
      BY <1>4, <2>3 DEF OpenForSave
    <3>2. FileMatchesPlace'
      BY <1>1, <2>1, <2>3, <3>1 DEF FileMatchesPlace
    <3>3. durable' = m_counter /\ HasRated /\ HasRated'
      BY <2>1, <2>3, <3>1 DEF durable, HasRated
    <3>4. RatedAreStamped'
      BY <1>1, <2>1, <3>3 DEF RatedAreStamped
    <3>5. ExcessIsKept'
      BY <1>1, <2>1, <3>3 DEF ExcessIsKept
    <3> QED
      BY <3>2, <3>4, <3>5 DEF JInv
  <2> QED
    BY <1>4, <2>2, <2>3 DEF OpenForSave
<1>5. CASE OpenFails
  <2>1. file' = file /\ terminatedAt' = terminatedAt /\ known' = known /\ now' = now
    BY <1>5 DEF OpenFails
  <2>2. CASE pc = "createOpen"
    <3>1. Fail /\ pc' = "down"
      BY <1>5, <2>2 DEF OpenFails, Fail
    <3>2. FileMatchesPlace'
      BY <1>1, <2>1, <2>2, <3>1 DEF Fail, Forget, FileMatchesPlace
    <3>3. durable' = durable
      BY <2>1, <2>2, <3>1 DEF durable
    <3> QED
      BY <2>1, <3>1, <3>2, <3>3, KeptByStutter DEF JInv
  <2>3. CASE pc = "saveOpen"
    <3>1. /\ pc' = "enforce" /\ m_counter' = m_counter /\ rated' = rated
          /\ recorded' = recorded /\ failed' = failed
      BY <1>5, <2>3 DEF OpenFails
    <3>2. FileMatchesPlace'
      BY <1>1, <2>1, <2>3, <3>1 DEF FileMatchesPlace
    <3>3. durable' = durable /\ HasRated
      BY <2>1, <2>3, <3>1 DEF durable, HasRated
    <3> QED
      BY <2>1, <3>1, <3>2, <3>3, KeptInCycle DEF JInv
  <2> QED
    BY <1>5, <2>2, <2>3 DEF OpenFails
<1>6. CASE WriteSave
  <2>1. m_counter \in CounterMap
    BY <1>1 DEF TypeOK
  <2>2. file'.kind = "valid" /\ file'.entries = Saved(m_counter)
    BY <1>6 DEF WriteSave, File
  <2>3. Loaded(file'.entries) = m_counter
    BY <2>1, <2>2, RoundTrip
  <2>4. /\ now' = now /\ m_counter' = m_counter /\ rated' = rated
        /\ failed' = failed /\ terminatedAt' = terminatedAt /\ known' = known
    BY <1>6 DEF WriteSave
  <2>5. CASE pc = "createWrite"
    <3>1. pc' = "load" /\ recorded' = FALSE
      BY <1>6, <2>5 DEF WriteSave
    <3>2. FileMatchesPlace'
      BY <1>1, <2>2, <2>4, <2>5, <3>1 DEF FileMatchesPlace
    <3>3. durable' = durable
      BY <1>1, <2>3, <2>5, <3>1, LoadedNothing DEF durable, FileMatchesPlace
    <3> QED
      BY <2>4, <3>1, <3>2, <3>3, KeptByStutter DEF JInv
  <2>6. CASE pc = "saveWrite"
    <3>1. pc' = "enforce" /\ recorded' = TRUE
      BY <1>6, <2>6 DEF WriteSave
    <3>2. FileMatchesPlace'
      BY <1>1, <2>2, <2>3, <2>4, <2>6, <3>1 DEF FileMatchesPlace
    <3>3. durable' = durable /\ HasRated
      BY <2>3, <2>6, <3>1 DEF durable, HasRated
    <3> QED
      BY <2>4, <3>2, <3>3, KeptInCycle DEF JInv
  <2> QED
    BY <1>6, <2>5, <2>6 DEF WriteSave
<1>7. CASE WriteFails
  <2>1. /\ file'.kind \in {"empty", "torn"} /\ file'.entries = {}
        /\ now' = now /\ known' = {}
    BY <1>7 DEF WriteFails, Interrupt, File
  <2>2. CASE pc = "createWrite"
    <3>1. Fail /\ pc' = "down"
      BY <1>7, <2>2 DEF WriteFails, Fail
    <3>2. FileMatchesPlace' /\ RatedAreStamped'
      BY <1>1, <2>1, <2>2, <3>1 DEF Fail, Forget, FileMatchesPlace, RatedAreStamped, HasRated
    <3> QED
      BY <2>1, <3>2, NothingKnown DEF JInv
  <2>3. CASE pc = "saveWrite"
    <3>1. /\ pc' = "enforce" /\ m_counter' = m_counter /\ rated' = rated
          /\ recorded' = recorded /\ failed' = failed
      BY <1>7, <2>3 DEF WriteFails
    <3>2. FileMatchesPlace' /\ RatedAreStamped'
      BY <1>1, <2>1, <2>3, <3>1 DEF FileMatchesPlace, RatedAreStamped, HasRated
    <3> QED
      BY <2>1, <3>2, NothingKnown DEF JInv
  <2> QED
    BY <1>7, <2>2, <2>3 DEF WriteFails
<1>8. CASE Load /\ file.kind = "torn"
  <2>1. /\ Fail /\ pc = "load" /\ pc' = "down" /\ file' = file /\ now' = now
        /\ terminatedAt' = terminatedAt /\ known' = known
    BY <1>8 DEF Load, Fail
  <2>2. FileMatchesPlace'
    BY <1>1, <2>1 DEF Fail, Forget, FileMatchesPlace
  <2>3. durable' = durable
    BY <2>1 DEF durable
  <2> QED
    BY <2>1, <2>2, <2>3, KeptByStutter DEF JInv
<1>14. CASE Load /\ file.kind # "torn"
  <2>1. /\ file' = file /\ terminatedAt' = terminatedAt /\ known' = known /\ pc = "load"
        /\ m_counter' = Loaded(file.entries) /\ pc' = "rate"
        /\ rated' = rated /\ recorded' = recorded /\ failed' = failed /\ now' = now
    BY <1>14 DEF Load
  <2>2. FileMatchesPlace'
    BY <1>1, <2>1 DEF FileMatchesPlace
  <2>3. durable' = durable
    BY <2>1 DEF durable
  <2> QED
    BY <2>1, <2>2, <2>3, KeptByStutter DEF JInv
<1>9. ASSUME NEW matches \in SUBSET Names, Rate(matches) PROVE JInv'
  <2>1. /\ file' = file /\ terminatedAt' = terminatedAt /\ pc = "rate"
        /\ known' = known \ {n \in matches : m_counter[n].previousRun > now}
        /\ pc' = "saveOpen" /\ rated' = matches /\ now' = now
        /\ recorded' = recorded /\ failed' = failed
        /\ m_counter' = RatedCounters(matches)
    BY <1>9 DEF Rate
  <2>2. m_counter = Loaded(file.entries)
    BY <1>1, <2>1 DEF FileMatchesPlace
  <2>3. FileMatchesPlace'
    <3>1. m_counter' = Store!Rated(Loaded(file.entries), matches, now)
      BY <2>1, <2>2, SameRated
    <3> QED
      BY <1>1, <2>1, <3>1 DEF FileMatchesPlace
  <2>4. durable' = durable /\ durable = m_counter
    BY <2>1, <2>2 DEF durable
  <2>5. now \in Times \ {Epoch} /\ now \in Times
    BY <1>1 DEF TypeOK
  <2>6. RatedAreStamped'
    <3>1. ASSUME NEW n \in matches
          PROVE  m_counter'[n] # NoCounter /\ m_counter'[n].previousRun = now
      <4>1. PICK c \in Counter : m_counter'[n] = doUpdate(c, now)
        <5>1. CASE m_counter[n] = NoCounter
          BY <2>1, <2>5, <5>1, RatedOutcome, NewFits, TimesAssumption DEF Unit
        <5>2. CASE m_counter[n] # NoCounter
          BY <1>1, <2>1, <5>2, RatedOutcome DEF CountersAreSane, Sane
        <5> QED
          BY <5>1, <5>2
      <4> QED
        BY <2>5, <4>1, UpdateOutcome, NoCounterIsNone
    <3> QED
      BY <2>1, <3>1 DEF RatedAreStamped
  <2>7. ExcessIsKept'
    <3>1. ASSUME NEW n \in known'
          PROVE  Recalls(m_counter'[n], terminatedAt[n])
      <4>1. n \in known /\ n \in Names /\ ~(n \in matches /\ m_counter[n].previousRun > now)
        BY <1>1, <2>1, <3>1 DEF TypeOK
      <4>2. Recalls(m_counter[n], terminatedAt[n]) /\ m_counter[n] # NoCounter
        BY <1>1, <2>4, <4>1 DEF ExcessIsKept, Recalls
      <4>3. /\ m_counter[n] \in Counter /\ m_counter[n].unit = "Day"
            /\ terminatedAt[n] \in Times
        BY <1>1, <4>1, <4>2 DEF CountersAreSane, Sane, TypeOK
      <4>4. CASE n \in matches
        <5>1. m_counter[n].previousRun <= now
          <6>1. PICK p \in Nat : p = m_counter[n].previousRun
            BY <4>3, CounterNumbers
          <6>2. now \in Nat
            BY <2>5, TimesAssumption
          <6> QED
            BY <4>1, <4>4, <6>1, <6>2
        <5> QED
          BY <2>1, <2>5, <4>1, <4>2, <4>3, <4>4, <5>1, RatedOutcome, UpdateRecalls
      <4>5. CASE n \notin matches
        BY <2>1, <4>1, <4>2, <4>5, RatedOutcome
      <4> QED
        BY <4>4, <4>5
    <3>2. ASSUME NEW n \in known' PROVE Recalls(durable'[n], terminatedAt'[n])
      BY <1>1, <2>1, <2>4, <3>2 DEF ExcessIsKept
    <3> QED
      BY <2>1, <3>1, <3>2 DEF ExcessIsKept
  <2> QED
    BY <2>3, <2>6, <2>7 DEF JInv
<1>10. CASE Enforce
  <2>1. /\ pc = "enforce" /\ pc' = "idle" /\ recorded' = FALSE
        /\ m_counter' = NoCounters /\ now' = now /\ file' = file /\ failed' = failed
        /\ known' = known \cup {n \in rated : recorded /\ Exceeding(n)}
    BY <1>10 DEF Enforce, Forget
  <2>2. FileMatchesPlace'
    BY <1>1, <2>1 DEF FileMatchesPlace
  <2>3. durable' = durable /\ durable = Loaded(file.entries)
    BY <2>1 DEF durable
  <2>4. RatedAreStamped' /\ ~HasRated'
    BY <2>1 DEF RatedAreStamped, HasRated
  <2>5. ASSUME NEW n \in known'
        PROVE  Recalls(durable[n], terminatedAt'[n])
    <3>0. n \in Names
      BY <1>1, <2>1, <2>5 DEF TypeOK
    <3>1. CASE n \in rated /\ recorded /\ Exceeding(n)
      <4>1. terminatedAt'[n] = now
        BY <1>10, <3>0, <3>1 DEF Enforce
      <4>2. durable[n] = m_counter[n]
        BY <1>1, <2>1, <2>3, <3>1 DEF FileMatchesPlace
      <4>3. m_counter[n] # NoCounter /\ m_counter[n].previousRun = now
        BY <1>1, <2>1, <3>1 DEF RatedAreStamped, HasRated
      <4>4. m_counter[n].active > Limit
        BY <3>0, <3>1, ExceedingMeans
      <4>5. now <= now
        BY <1>1, TimesAssumption DEF TypeOK
      <4> QED
        BY <4>1, <4>2, <4>3, <4>4, <4>5 DEF Recalls
    <3>2. CASE ~(n \in rated /\ recorded /\ Exceeding(n))
      <4>1. terminatedAt'[n] = terminatedAt[n]
        BY <1>10, <3>0, <3>2 DEF Enforce
      <4>2. n \in known
        BY <2>1, <2>5, <3>2
      <4>3. Recalls(durable[n], terminatedAt[n])
        BY <1>1, <4>2 DEF ExcessIsKept
      <4> QED
        BY <4>1, <4>3
    <3> QED
      BY <3>1, <3>2
  <2>6. ExcessIsKept'
    BY <2>3, <2>4, <2>5 DEF ExcessIsKept
  <2> QED
    BY <2>2, <2>4, <2>6 DEF JInv
<1>11. CASE Crash
  <2>1. /\ pc \notin {"down", "createWrite", "saveWrite"} /\ pc' = "down" /\ recorded' = FALSE
        /\ m_counter' = NoCounters /\ now' = now /\ file' = file /\ failed' = failed /\ terminatedAt' = terminatedAt /\ known' = known
    BY <1>11 DEF Crash, Forget
  <2>2. FileMatchesPlace'
    BY <1>1, <2>1 DEF FileMatchesPlace
  <2>3. durable' = durable
    BY <2>1 DEF durable
  <2> QED
    BY <2>1, <2>2, <2>3, KeptByStutter DEF JInv
<1>12. CASE CrashInSave
  <2>1. /\ file'.kind \in {"empty", "torn"} /\ file'.entries = {}
        /\ now' = now /\ known' = {}
        /\ pc' = "down" /\ m_counter' = NoCounters /\ recorded' = FALSE
        /\ failed' = failed /\ pc # "down"
    BY <1>12 DEF CrashInSave, Interrupt, Forget, File
  <2>2. FileMatchesPlace' /\ RatedAreStamped'
    BY <1>1, <2>1 DEF FileMatchesPlace, RatedAreStamped, HasRated
  <2> QED
    BY <2>1, <2>2, NothingKnown DEF JInv
<1>13. CASE UNCHANGED vars
  BY <1>1, <1>13 DEF vars, JInv, FileMatchesPlace, RatedAreStamped, ExcessIsKept, HasRated, durable
<1> QED
  BY <1>2, <1>3, <1>4, <1>5, <1>6, <1>7, <1>8, <1>9, <1>10, <1>11, <1>12, <1>13,
     <1>14 DEF Next

(* An exception ends the process only where no file can be loaded. *)
LEMMA NextFileIsWhole ==
  ASSUME JInv, FileIsWhole, [Next]_vars
  PROVE  FileIsWhole'
<1>1. FileMatchesPlace /\ FileIsWhole
  BY DEF JInv
<1> USE DEF histories
<1>2. CASE StartProcess
  BY <1>1, <1>2 DEF StartProcess, FileIsWhole
<1>3. ASSUME NEW gap \in Gaps, Construct(gap) PROVE FileIsWhole'
  BY <1>1, <1>3 DEF Construct, Fail, FileIsWhole
<1>4. CASE OpenForSave \/ WriteSave
  BY <1>1, <1>4 DEF OpenForSave, WriteSave, File, FileIsWhole, FileMatchesPlace
<1>5. CASE OpenFails
  BY <1>1, <1>5 DEF OpenFails, Fail, FileIsWhole, FileMatchesPlace
<1>6. CASE WriteFails \/ CrashInSave
  BY <1>1, <1>6 DEF WriteFails, CrashInSave, Interrupt, FileIsWhole
<1>7. CASE Load
  BY <1>1, <1>7 DEF Load, Fail, FileIsWhole
<1>8. ASSUME NEW matches \in SUBSET Names, Rate(matches) PROVE FileIsWhole'
  BY <1>1, <1>8 DEF Rate, FileIsWhole
<1>9. CASE Enforce \/ Crash
  BY <1>1, <1>9 DEF Enforce, Crash, FileIsWhole
<1>10. CASE UNCHANGED vars
  BY <1>1, <1>10 DEF vars, FileIsWhole
<1> QED
  BY <1>2, <1>3, <1>4, <1>5, <1>6, <1>7, <1>8, <1>9, <1>10 DEF Next

LEMMA SpecKInv == Spec => []KInv
<1>1. Init => KInv
  <2>1. Init => FileIsWhole
    BY DEF Init, FileIsWhole, File
  <2> QED
    BY <2>1, InitIInv, InitJInv DEF KInv
<1>2. KInv /\ [Next]_vars => KInv'
  BY NextIInv, NextJInv, NextFileIsWhole DEF KInv
<1> QED
  BY <1>1, <1>2, PTL DEF Spec

-----------------------------------------------------------------------------

(* The daemon's own file never keeps it from running until a save of it is *)
(* cut short.                                                              *)
THEOREM FileAlwaysAccepted == Spec => []FileIsAccepted
<1>1. KInv => FileIsAccepted
  BY DEF KInv, FileIsWhole, FileIsAccepted
<1> QED
  BY <1>1, SpecKInv, PTL

(* Once an excess was recorded and enforced, every later check of that day *)
(* that finds the application finds the excess, over crashes and restarts, *)
(* until a save is cut short or a check of the application finds the clock *)
(* behind the counter's last run.                                          *)
THEOREM ExcessIsFoundAgain == Spec => []ExcessIsRemembered
<1>1. KInv => ExcessIsRemembered
  <2> SUFFICES ASSUME KInv, pc = "enforce", NEW n \in rated,
                      n \in known, ~isNewUnit("Day", now, terminatedAt[n])
               PROVE  Exceeding(n)
    BY DEF ExcessIsRemembered
  <2>1. n \in Names
    BY DEF KInv, IInv, TypeOK
  <2>2. Recalls(m_counter[n], terminatedAt[n]) /\ m_counter[n].previousRun = now
    BY <2>1 DEF KInv, JInv, ExcessIsKept, RatedAreStamped, HasRated
  <2> QED
    BY <2>1, <2>2, ExceedingMeans DEF Recalls
<1> QED
  BY <1>1, SpecKInv, PTL

(* Every step of the statistics is a whole check of the store, a loss of   *)
(* all its counters, or none: the one that opens the file at the end of a  *)
(* cycle is the check, and one that cuts the save short is the loss.       *)
LEMMA StepImplementsStore ==
  ASSUME IInv, JInv, [Next]_vars
  PROVE  [Store!Next]_durable
<1>1. TypeOK /\ FileMatchesPlace
  BY DEF IInv, JInv
<1>2. CASE pc = "saveOpen" /\ OpenForSave
  <2>1. durable = Loaded(file.entries) /\ durable' = m_counter
    BY <1>2 DEF OpenForSave, durable
  <2>2. durable' = Store!Rated(durable, rated, now)
    BY <1>1, <1>2, <2>1 DEF FileMatchesPlace
  <2>3. rated \in SUBSET Names /\ now \in Times \ {Store!Epoch}
    BY <1>1 DEF TypeOK, Store!Epoch, Epoch
  <2>5. Store!Check(rated, now)
    BY <2>2 DEF Store!Check
  <2> QED
    BY <2>3, <2>5 DEF Store!Next
<1>4. CASE pc = "saveWrite" /\ (WriteFails \/ CrashInSave)
  <2>1. durable' = NoCounters
    <3>1. file'.entries = {} /\ pc' # "saveWrite"
      BY <1>4 DEF WriteFails, CrashInSave, Interrupt, File
    <3> QED
      BY <3>1, LoadedNothing DEF durable
  <2>2. Interruptions # {}
    BY <1>4 DEF WriteFails, CrashInSave, Interruptions
  <2>3. Store!Lose
    BY <2>1, <2>2 DEF Store!Lose, Store!NoCounters, NoCounters, Store!NoCounter, NoCounter,
       Store!Epoch, Epoch
  <2> QED
    BY <2>3 DEF Store!Next
<1>3. CASE /\ ~(pc = "saveOpen" /\ OpenForSave)
           /\ ~(pc = "saveWrite" /\ (WriteFails \/ CrashInSave))
  <2> SUFFICES durable' = durable
    OBVIOUS
  <2>1. ASSUME file' = file, pc # "saveWrite", pc' # "saveWrite" PROVE durable' = durable
    BY <2>1 DEF durable
  <2>2. CASE OpenForSave
    <3>1. pc = "createOpen" /\ pc' = "createWrite" /\ file' = File("empty", {})
      BY <1>3, <2>2 DEF OpenForSave
    <3>2. file'.entries = file.entries
      BY <1>1, <3>1 DEF FileMatchesPlace, File
    <3> QED
      BY <3>1, <3>2 DEF durable
  <2>3. CASE WriteSave
    <3>1. m_counter \in CounterMap
      BY <1>1 DEF TypeOK
    <3>2. file'.entries = Saved(m_counter) /\ pc' # "saveWrite"
      BY <2>3 DEF WriteSave, File
    <3>3. durable' = m_counter
      BY <3>1, <3>2, RoundTrip DEF durable
    <3>4. durable = m_counter
      BY <1>1, <2>3, LoadedNothing DEF WriteSave, durable, FileMatchesPlace
    <3> QED
      BY <3>3, <3>4
  <2>4. CASE WriteFails \/ CrashInSave
    <3>1. /\ pc = "createWrite" /\ pc' \in {"down", "enforce"}
          /\ file.entries = {} /\ file'.entries = {}
      BY <1>1, <1>3, <2>4 DEF WriteFails, CrashInSave, Interrupt, Fail, File, FileMatchesPlace
    <3> QED
      BY <3>1 DEF durable
  <2>5. CASE StartProcess \/ OpenFails \/ Load \/ Enforce \/ Crash
    <3>1. file' = file /\ pc # "saveWrite" /\ pc' # "saveWrite"
      BY <2>5 DEF StartProcess, OpenFails, Load, Enforce, Crash, Fail
    <3> QED
      BY <2>1, <3>1
  <2>6. ASSUME NEW gap \in Gaps, Construct(gap) PROVE durable' = durable
    <3>1. file' = file /\ pc # "saveWrite" /\ pc' # "saveWrite"
      BY <2>6 DEF Construct, Fail
    <3> QED
      BY <2>1, <3>1
  <2>7. ASSUME NEW matches \in SUBSET Names, Rate(matches) PROVE durable' = durable
    <3>1. file' = file /\ pc # "saveWrite" /\ pc' # "saveWrite"
      BY <2>7 DEF Rate
    <3> QED
      BY <2>1, <3>1
  <2>8. CASE UNCHANGED vars
    BY <2>8 DEF vars, durable
  <2> QED
    BY <2>2, <2>3, <2>4, <2>5, <2>6, <2>7, <2>8 DEF Next
<1> QED
  BY <1>2, <1>3, <1>4

(* Loading, rating and saving a file in place implement the store that     *)
(* changes by whole checks, for every calendar, set of names and schedule; *)
(* where saves can be cut short, the store that may lose all it has.       *)
THEOREM Implementation == Spec => ImplementsStore
<1>1. Init => Store!Init
  <2> SUFFICES ASSUME Init PROVE Store!Init
    OBVIOUS
  <2>1. durable = NoCounters
    BY LoadedNothing DEF Init, File, durable
  <2>2. Store!NoCounter = NoCounter
    BY DEF Store!NoCounter, NoCounter, Store!Epoch, Epoch
  <2> QED
    BY <2>1, <2>2 DEF Store!Init, Store!NoCounters, NoCounters
<1>2. KInv /\ [Next]_vars => [Store!Next]_durable
  BY StepImplementsStore DEF KInv
<1> QED
  BY <1>1, <1>2, SpecKInv, PTL DEF Spec, ImplementsStore, Store!Spec

(* Where no save is cut short, and until the clock is first set back, what *)
(* was enforced stays known.                                               *)
NothingTaken ==
  /\ ~interrupted
  /\ setBacks = 0 => \A n \in Names : terminatedAt[n] # Epoch => n \in known

LEMMA NextNothingTaken ==
  ASSUME Interruptions = {}, IInv, NothingTaken, [Next]_vars
  PROVE  NothingTaken'
<1>1. ~WriteFails /\ ~CrashInSave
  BY DEF Interruptions, WriteFails, CrashInSave
<1>2. setBacks \in Nat /\ now \in Nat
  BY TimesAssumption DEF IInv, TypeOK
<1>3. ASSUME NEW gap \in Gaps, Construct(gap) PROVE NothingTaken'
  <2>1. /\ terminatedAt' = terminatedAt /\ known' = known /\ interrupted' = interrupted
        /\ setBacks' = 0 => setBacks = 0
    BY <1>2, <1>3 DEF Construct
  <2> QED
    BY <2>1 DEF NothingTaken
<1>4. ASSUME NEW matches \in SUBSET Names, Rate(matches) PROVE NothingTaken'
  <2>1. /\ terminatedAt' = terminatedAt /\ interrupted' = interrupted /\ setBacks' = setBacks
        /\ known' = known \ {n \in matches : m_counter[n].previousRun > now}
    BY <1>4 DEF Rate
  <2>2. ASSUME setBacks = 0, NEW n \in Names PROVE ~(m_counter[n].previousRun > now)
    <3>1. CASE m_counter[n] = NoCounter
      BY <1>2, <3>1 DEF NoCounter, Epoch
    <3>2. CASE m_counter[n] # NoCounter
      <4>1. Sane(m_counter[n], now, setBacks)
        BY <3>2 DEF IInv, CountersAreSane
      <4> QED
        BY <1>2, <2>2, <4>1, TimesAssumption DEF Sane, FitsUnit, Counter
    <3> QED
      BY <3>1, <3>2
  <2> QED
    BY <2>1, <2>2 DEF NothingTaken
<1>5. CASE Enforce
  <2>1. interrupted' = interrupted /\ setBacks' = setBacks
    BY <1>5 DEF Enforce
  <2>2. ASSUME NEW n \in Names, terminatedAt'[n] # Epoch
        PROVE  terminatedAt[n] # Epoch \/ n \in known'
    BY <1>5, <2>2 DEF Enforce
  <2>3. known \subseteq known'
    BY <1>5 DEF Enforce
  <2> QED
    BY <2>1, <2>2, <2>3 DEF NothingTaken
<1>6. CASE StartProcess \/ OpenForSave \/ OpenFails \/ WriteSave \/ Load \/ Crash
  <2>1. UNCHANGED histories
    BY <1>6 DEF StartProcess, OpenForSave, OpenFails, WriteSave, Load, Crash
  <2> QED
    BY <2>1 DEF histories, NothingTaken
<1>7. CASE UNCHANGED vars
  BY <1>7 DEF vars, histories, NothingTaken
<1> QED
  BY <1>1, <1>3, <1>4, <1>5, <1>6, <1>7 DEF Next

(* Where no save is cut short README.md:4-6 holds until the clock is first *)
(* set back: what was terminated is terminated again, over crashes,        *)
(* restarts and saves that cannot open the file, for every calendar and    *)
(* schedule.                                                               *)
THEOREM TerminatedIsTerminatedAgain ==
  ASSUME Interruptions = {}
  PROVE  Spec => [](setBacks = 0 => TerminatedAgain)
<1>1. Init => NothingTaken
  BY DEF Init, NothingTaken
<1>2. KInv /\ NothingTaken /\ [Next]_vars => NothingTaken'
  BY NextNothingTaken DEF KInv
<1>3. KInv /\ NothingTaken /\ ExcessIsRemembered => (setBacks = 0 => TerminatedAgain)
  <2> SUFFICES ASSUME KInv, NothingTaken, ExcessIsRemembered, setBacks = 0, pc = "enforce",
                      NEW n \in rated, terminatedAt[n] # Epoch,
                      ~isNewUnit("Day", now, terminatedAt[n])
               PROVE  Exceeding(n)
    BY DEF TerminatedAgain
  <2>1. n \in known
    BY DEF NothingTaken, KInv, IInv, TypeOK
  <2> QED
    BY <2>1 DEF ExcessIsRemembered
<1> QED
  BY <1>1, <1>2, <1>3, SpecKInv, ExcessIsFoundAgain, PTL DEF Spec

=============================================================================
