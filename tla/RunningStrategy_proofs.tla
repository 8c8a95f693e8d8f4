----------------------- MODULE RunningStrategy_proofs -----------------------
(***************************************************************************)
(* What RunningStrategy promises for any number of threads on which a      *)
(* signal may be handled, any number of signals, and whether or not a      *)
(* signal may hit the main thread while it owns the mutex; and that the    *)
(* service keeps these promises over any stops, starts and restarts.       *)
(***************************************************************************)
EXTENDS InitScript, TLAPS

(* Type correctness, in parts: the provers treat each kind of value apart. *)
PlacesOK ==
  /\ pc \in MainPCs
  /\ handler \in [Threads -> HandlerPCs]
  /\ owner \in Threads \cup {NoThread}

FlagsOK ==
  /\ notified \in BOOLEAN
  /\ m_terminate \in BOOLEAN
  /\ published \in BOOLEAN
  /\ installed \in BOOLEAN
  /\ pending \in BOOLEAN
  /\ lateWait \in BOOLEAN

CountsOK ==
  /\ sent \in Nat
  /\ cyclesAfter \in 0..2
  /\ waitsAfter \in 0..2

LEMMA TypeParts == TypeOK <=> PlacesOK /\ FlagsOK /\ CountsOK
BY DEF TypeOK, PlacesOK, FlagsOK, CountsOK

LEMMA InitTypeOK == Init => TypeOK
<1>1. Init => PlacesOK
  BY DEF Init, PlacesOK, MainPCs, HandlerPCs
<1>2. Init => FlagsOK
  BY DEF Init, FlagsOK
<1>3. Init => CountsOK
  BY DEF Init, CountsOK
<1> QED
  BY <1>1, <1>2, <1>3, TypeParts

LEMMA NextPlacesOK == PlacesOK /\ [Next]_vars => PlacesOK'
<1> SUFFICES ASSUME PlacesOK, [Next]_vars PROVE PlacesOK'
  OBVIOUS
<1> USE DEF PlacesOK, flagVars, signalVars, mainVars, history
<1>1. CASE Run
  BY <1>1 DEF Run, InstallHandler, StartFails, FinishFirst, CycleThrows, Lock, BeginWait, Wake, Relock, Check,
     StartCycle, FinishCycle, Peek, RestoreHandler, FreeStrategy, EndProcess,
     At, Threads, MainPCs
<1>2. CASE SendTerm
  BY <1>2 DEF SendTerm
<1>3. CASE KilledByDefault
  BY <1>3 DEF KilledByDefault, MainPCs
<1>4. ASSUME NEW t \in Threads, Deliver(t) \/ CancelLock(t) \/ Cancel(t)
      PROVE  PlacesOK'
  BY <1>4 DEF Deliver, CancelLock, Cancel, CancelStore, CancelNotify, CancelUnlock, HandlerPCs
<1>5. CASE UNCHANGED vars
  BY <1>5 DEF vars
<1> QED
  BY <1>1, <1>2, <1>3, <1>4, <1>5 DEF Next, Done

LEMMA NextFlagsOK == FlagsOK /\ [Next]_vars => FlagsOK'
<1> SUFFICES ASSUME FlagsOK, [Next]_vars PROVE FlagsOK'
  OBVIOUS
<1> USE DEF FlagsOK, flagVars, signalVars, mainVars, history
<1>1. CASE Run
  BY <1>1, Zenon DEF Run, InstallHandler, StartFails, FinishFirst, CycleThrows, Lock, BeginWait, Wake, Relock, Check,
     StartCycle, FinishCycle, Peek, RestoreHandler, FreeStrategy, EndProcess
<1>2. CASE SendTerm
  BY <1>2, Zenon DEF SendTerm
<1>3. CASE KilledByDefault
  BY <1>3, Zenon DEF KilledByDefault
<1>4. ASSUME NEW t \in Threads, Deliver(t) \/ CancelLock(t) \/ Cancel(t)
      PROVE  FlagsOK'
  BY <1>4, Zenon DEF Deliver, CancelLock, Cancel, CancelStore, CancelNotify, CancelUnlock
<1>5. CASE UNCHANGED vars
  BY <1>5, Zenon DEF vars
<1> QED
  BY <1>1, <1>2, <1>3, <1>4, <1>5 DEF Next, Done

LEMMA NextCountsOK == CountsOK /\ [Next]_vars => CountsOK'
<1> SUFFICES ASSUME CountsOK, [Next]_vars PROVE CountsOK'
  OBVIOUS
<1> USE DEF CountsOK, flagVars, signalVars, mainVars, history
<1>1. CASE Run
  BY <1>1 DEF Run, InstallHandler, StartFails, FinishFirst, CycleThrows, Lock, BeginWait, Wake, Relock, Check,
     StartCycle, FinishCycle, Peek, RestoreHandler, FreeStrategy, EndProcess, Count
<1>2. CASE SendTerm
  BY <1>2 DEF SendTerm
<1>3. CASE KilledByDefault
  BY <1>3 DEF KilledByDefault
<1>4. ASSUME NEW t \in Threads, Deliver(t) \/ CancelLock(t) \/ Cancel(t)
      PROVE  CountsOK'
  BY <1>4 DEF Deliver, CancelLock, Cancel, CancelStore, CancelNotify, CancelUnlock
<1>5. CASE UNCHANGED vars
  BY <1>5 DEF vars
<1> QED
  BY <1>1, <1>2, <1>3, <1>4, <1>5 DEF Next, Done

LEMMA NextTypeOK == TypeOK /\ [Next]_vars => TypeOK'
<1> SUFFICES ASSUME TypeOK, [Next]_vars PROVE TypeOK'
  OBVIOUS
<1>1. PlacesOK' /\ FlagsOK' /\ CountsOK'
  BY TypeParts, NextPlacesOK, NextFlagsOK, NextCountsOK
<1> QED
  BY <1>1 DEF TypeOK, PlacesOK, FlagsOK, CountsOK

(* The main thread, the handlers and the mutex stay in their states.       *)
THEOREM TypeCorrect == Spec => []TypeOK
<1> QED
  BY InitTypeOK, NextTypeOK, PTL DEF Spec

-----------------------------------------------------------------------------
(* StopBound.  The strengthening says where the main thread can be once it *)
(* has begun a cycle or a wait after m_terminate was stored: the read      *)
(* under the lock lets no cycle begin after such a wait, and the unlocked  *)
(* read, stale or not, is only reached before it.                          *)

NothingAfter ==
  /\ ~m_terminate => cyclesAfter = 0 /\ waitsAfter = 0
  /\ pc \in {"starting", "first", "start"} => cyclesAfter = 0
  /\ pc \in {"starting", "first", "lock", "enter", "start", "cycle", "peek"} => waitsAfter = 0

StopInv == StopBound /\ NothingAfter

LEMMA NextStopInv == TypeOK /\ StopInv /\ [Next]_vars => StopInv'
<1> SUFFICES ASSUME TypeOK, StopInv, [Next]_vars PROVE StopInv'
  OBVIOUS
<1>1. m_terminate \in BOOLEAN /\ cyclesAfter \in 0..2 /\ waitsAfter \in 0..2
  BY DEF TypeOK
<1> USE <1>1 DEF StopInv, StopBound, NothingAfter, flagVars, signalVars, mainVars, history
<1>2. CASE Run
  <2>1. CASE InstallHandler \/ StartFails \/ FinishFirst \/ CycleThrows
    BY <2>1 DEF InstallHandler, StartFails, FinishFirst, CycleThrows, At
  <2>2. CASE Lock \/ Wake \/ Relock
    BY <2>2 DEF Lock, Wake, Relock, At
  <2>3. CASE BeginWait
    BY <2>3 DEF BeginWait, At, Count
  <2>4. CASE Check
    BY <2>4 DEF Check, At
  <2>5. CASE StartCycle
    BY <2>5 DEF StartCycle, At, Count
  <2>6. CASE FinishCycle \/ Peek
    BY <2>6 DEF FinishCycle, Peek, At
  <2>7. CASE RestoreHandler \/ FreeStrategy \/ EndProcess
    BY <2>7 DEF RestoreHandler, FreeStrategy, EndProcess, At
  <2> QED
    BY <1>2, <2>1, <2>2, <2>3, <2>4, <2>5, <2>6, <2>7 DEF Run
<1>3. CASE SendTerm
  BY <1>3 DEF SendTerm
<1>4. CASE KilledByDefault
  BY <1>4 DEF KilledByDefault
<1>5. ASSUME NEW t \in Threads, Deliver(t) \/ CancelLock(t) \/ Cancel(t)
      PROVE  StopInv'
  BY <1>5 DEF Deliver, CancelLock, Cancel, CancelStore, CancelNotify, CancelUnlock
<1>6. CASE UNCHANGED vars
  BY <1>6 DEF vars
<1> QED
  BY <1>2, <1>3, <1>4, <1>5, <1>6 DEF Next, Done

(* CDaemonRunningStrategy::run begins at most one cycle and one wait after *)
(* cancel() has stored its flag, for any threads and signals, whatever the *)
(* unlocked read returns.                                                  *)
THEOREM CancelledRunStops == Spec => []StopBound
<1>1. Init => StopInv
  BY DEF Init, StopInv, StopBound, NothingAfter
<1>2. StopInv => StopBound
  BY DEF StopInv
<1> QED
  BY <1>1, <1>2, InitTypeOK, NextTypeOK, NextStopInv, PTL DEF Spec

-----------------------------------------------------------------------------
(* WaiterIsNotified.  While a wait that began before the flag was stored   *)
(* has not been notified, the thread that stored it is about to notify.    *)

NotifierOnItsWay ==
  pc = "waiting" /\ m_terminate /\ ~lateWait /\ ~notified =>
    \E t \in Threads : handler[t] = "notify"

LEMMA NextNotifier == TypeOK /\ NotifierOnItsWay /\ [Next]_vars => NotifierOnItsWay'
<1> SUFFICES ASSUME TypeOK, NotifierOnItsWay, [Next]_vars PROVE NotifierOnItsWay'
  OBVIOUS
<1>1. handler \in [Threads -> HandlerPCs]
  BY DEF TypeOK
<1> USE <1>1 DEF NotifierOnItsWay, flagVars, signalVars, mainVars, history
<1>2. CASE Run
  <2>1. CASE BeginWait
    <3>1. lateWait' = m_terminate /\ m_terminate' = m_terminate
      BY <2>1 DEF BeginWait
    <3> QED
      BY <3>1, Zenon
  <2>2. ASSUME ~BeginWait PROVE pc' # "waiting"
    BY <1>2, <2>2 DEF Run, InstallHandler, StartFails, FinishFirst, CycleThrows, Lock, Wake, Relock, Check,
       StartCycle, FinishCycle, Peek, RestoreHandler, FreeStrategy, EndProcess
  <2> QED
    BY <2>1, <2>2
<1>3. CASE SendTerm
  BY <1>3 DEF SendTerm
<1>4. CASE KilledByDefault
  BY <1>4 DEF KilledByDefault
<1>5. ASSUME NEW t \in Threads, Deliver(t) \/ CancelLock(t) \/ Cancel(t)
      PROVE  NotifierOnItsWay'
  BY <1>5 DEF Deliver, CancelLock, Cancel, CancelStore, CancelNotify, CancelUnlock
<1>6. CASE UNCHANGED vars
  BY <1>6 DEF vars
<1> QED
  BY <1>2, <1>3, <1>4, <1>5, <1>6 DEF Next, Done

(* cancel() always reaches a main thread that was already waiting: it does *)
(* not sleep its duty cycle out, for any threads and signals.              *)
THEOREM CancelWakesWaiter == Spec => []WaiterIsNotified
<1>1. Init => NotifierOnItsWay
  BY DEF Init, NotifierOnItsWay
<1>2. NotifierOnItsWay => WaiterIsNotified
  BY DEF NotifierOnItsWay, WaiterIsNotified
<1> QED
  BY <1>1, <1>2, InitTypeOK, NextTypeOK, NextNotifier, PTL DEF Spec

-----------------------------------------------------------------------------
(* CancelOnLiveStrategy.  The main thread unwinds outside the handler, and *)
(* it removes the handler first.                                           *)

UnwindsUnhandled ==
  pc \in {"restored", "freed"} => ~installed /\ handler[Main] = "idle"

LEMMA NextUnwinds == TypeOK /\ UnwindsUnhandled /\ [Next]_vars => UnwindsUnhandled'
<1> SUFFICES ASSUME TypeOK, UnwindsUnhandled, [Next]_vars PROVE UnwindsUnhandled'
  OBVIOUS
<1>1. handler \in [Threads -> HandlerPCs] /\ Main \in Threads
  BY DEF TypeOK, Threads
<1> USE <1>1 DEF UnwindsUnhandled, flagVars, signalVars, mainVars, history
<1>2. CASE Run
  BY <1>2 DEF Run, InstallHandler, StartFails, FinishFirst, CycleThrows, Lock, BeginWait,
     Wake, Relock, Check, StartCycle, FinishCycle, Peek, RestoreHandler, FreeStrategy,
     EndProcess, At
<1>3. CASE SendTerm
  BY <1>3 DEF SendTerm
<1>4. CASE KilledByDefault
  BY <1>4 DEF KilledByDefault
<1>5. ASSUME NEW t \in Threads, Deliver(t) \/ CancelLock(t) \/ Cancel(t)
      PROVE  UnwindsUnhandled'
  BY <1>5 DEF Deliver, CancelLock, Cancel, CancelStore, CancelNotify, CancelUnlock
<1>6. CASE UNCHANGED vars
  BY <1>6 DEF vars
<1> QED
  BY <1>2, <1>3, <1>4, <1>5, <1>6 DEF Next, Done

(* The main thread is never interrupted into cancel() once it destroys     *)
(* what cancel() uses, for any threads and signals: main.cpp declares the  *)
(* handlers after the strategy.                                            *)
THEOREM NoCancelAfterFree == Spec => []CancelOnLiveStrategy
<1>1. Init => UnwindsUnhandled
  BY DEF Init, UnwindsUnhandled
<1>2. UnwindsUnhandled => CancelOnLiveStrategy
  BY DEF UnwindsUnhandled, CancelOnLiveStrategy
<1> QED
  BY <1>1, <1>2, InitTypeOK, NextTypeOK, NextUnwinds, PTL DEF Spec

-----------------------------------------------------------------------------
(* OwnerGoesOn.  m_mutex excludes: run() between its lock and its unlock,  *)
(* and a thread between the lock and the unlock of cancel(), are where the *)
(* owner is and nowhere else.  Where a signal interrupts run() while it    *)
(* owns the mutex, the handler gets no further than to its lock.           *)

CancelHolds == {"store", "notify", "unlock"}
RunHolds == {"enter", "check"}

OwnerIsInside ==
  owner # NoThread =>
    \/ owner = Main /\ pc \in RunHolds
    \/ handler[owner] \in CancelHolds

InsideIsOwner ==
  /\ pc \in RunHolds =>
       /\ owner = Main /\ installed
       /\ handler[Main] = "idle" \/ (InterruptsOwner /\ handler[Main] = "lock")
  /\ \A t \in Threads : handler[t] \in CancelHolds => owner = t

UninstalledIsOutside ==
  ~installed => pc \in {"starting", "restored", "freed"} \cup Ended

MutexInv == OwnerIsInside /\ InsideIsOwner /\ UninstalledIsOutside

LEMMA NextMutexInv == TypeOK /\ MutexInv /\ [Next]_vars => MutexInv'
<1> SUFFICES ASSUME TypeOK, MutexInv, [Next]_vars PROVE MutexInv'
  OBVIOUS
<1>1. /\ handler \in [Threads -> HandlerPCs] /\ Main \in Threads
      /\ owner \in Threads \cup {NoThread} /\ NoThread \notin Threads
  BY ThreadsAssumption DEF TypeOK, Threads
<1> USE <1>1 DEF MutexInv, OwnerIsInside, InsideIsOwner, UninstalledIsOutside, RunHolds,
                 CancelHolds, flagVars, signalVars, mainVars, history
<1>2. CASE Run
  <2> USE DEF At
  <2>1. CASE InstallHandler \/ StartFails \/ FinishFirst \/ CycleThrows
    BY <2>1 DEF InstallHandler, StartFails, FinishFirst, CycleThrows, Ended
  <2>2. CASE Lock \/ Relock
    BY <2>2 DEF Lock, Relock, Ended
  <2>3. CASE BeginWait \/ Check
    BY <2>3 DEF BeginWait, Check, Ended
  <2>4. CASE Wake \/ StartCycle \/ FinishCycle \/ Peek
    BY <2>4 DEF Wake, StartCycle, FinishCycle, Peek, Ended
  <2>5. CASE RestoreHandler \/ FreeStrategy \/ EndProcess
    BY <2>5 DEF RestoreHandler, FreeStrategy, EndProcess, Ended
  <2> QED
    BY <1>2, <2>1, <2>2, <2>3, <2>4, <2>5 DEF Run
<1>3. CASE SendTerm
  BY <1>3 DEF SendTerm
<1>4. CASE KilledByDefault
  BY <1>4 DEF KilledByDefault, Ended
<1>5. ASSUME NEW t \in Threads, Deliver(t) \/ CancelLock(t) \/ Cancel(t)
      PROVE  MutexInv'
  <2>1. CASE Deliver(t)
    BY <2>1 DEF Deliver
  <2>2. CASE CancelLock(t)
    BY <2>2 DEF CancelLock
  <2>3. CASE CancelStore(t) \/ CancelNotify(t)
    BY <2>3 DEF CancelStore, CancelNotify
  <2>4. CASE CancelUnlock(t)
    BY <2>4 DEF CancelUnlock
  <2> QED
    BY <1>5, <2>1, <2>2, <2>3, <2>4 DEF Cancel
<1>6. CASE UNCHANGED vars
  BY <1>6 DEF vars
<1> QED
  BY <1>2, <1>3, <1>4, <1>5, <1>6 DEF Next, Done

LEMMA InitMutexInv == Init => MutexInv
BY DEF Init, MutexInv, OwnerIsInside, InsideIsOwner, UninstalledIsOutside, RunHolds, CancelHolds

LEMMA OwnerIsFree == MutexInv => OwnerGoesOn
BY DEF MutexInv, OwnerIsInside, InsideIsOwner, OwnerGoesOn, OwnerInterrupted, RunHolds,
       CancelHolds

(* The deadlock of cancel() on the main thread is the only one there is:   *)
(* the owner of m_mutex never waits for it, for any pool and any number of *)
(* signals, but in a run() that a signal interrupted while it owned it.    *)
THEOREM OnlyInterruptedOwnerIsStuck == Spec => []OwnerGoesOn
BY InitTypeOK, NextTypeOK, InitMutexInv, NextMutexInv, OwnerIsFree, PTL DEF Spec

-----------------------------------------------------------------------------
(* TermIsNotLost.  A thread that leaves cancel() leaves the flag stored.   *)

StoredOnceLeft ==
  \A t \in Threads : handler[t] \in {"notify", "unlock"} => m_terminate

TermInv == TermIsNotLost /\ StoredOnceLeft

LEMMA NextTermInv == TypeOK /\ TermInv /\ [Next]_vars => TermInv'
<1> SUFFICES ASSUME TypeOK, TermInv, [Next]_vars PROVE TermInv'
  OBVIOUS
<1>1. handler \in [Threads -> HandlerPCs] /\ sent \in Nat
  BY DEF TypeOK
<1> USE <1>1 DEF TermInv, TermIsNotLost, StoredOnceLeft,
                 flagVars, signalVars, mainVars, history
<1>2. CASE Run
  <2>1. UNCHANGED <<handler, pending, sent, m_terminate>>
    BY <1>2 DEF Run, InstallHandler, StartFails, FinishFirst, CycleThrows, Lock, BeginWait,
       Wake, Relock, Check, StartCycle, FinishCycle, Peek, RestoreHandler, FreeStrategy,
       EndProcess
  <2>2. pc \notin Ended
    BY <1>2 DEF Run, InstallHandler, StartFails, FinishFirst, CycleThrows, Lock, BeginWait,
       Wake, Relock, Check, StartCycle, FinishCycle, Peek, RestoreHandler, FreeStrategy,
       EndProcess, At, Ended
  <2> QED
    BY <2>1, <2>2
<1>3. CASE SendTerm
  BY <1>3 DEF SendTerm
<1>4. CASE KilledByDefault
  BY <1>4 DEF KilledByDefault, Ended
<1>5. ASSUME NEW t \in Threads, Deliver(t) \/ CancelLock(t) \/ Cancel(t)
      PROVE  TermInv'
  <2>1. CASE Deliver(t) \/ CancelLock(t)
    BY <2>1 DEF Deliver, CancelLock
  <2>2. CASE CancelStore(t)
    BY <2>2 DEF CancelStore
  <2>3. CASE CancelNotify(t) \/ CancelUnlock(t)
    <3>1. m_terminate
      BY <2>3 DEF CancelNotify, CancelUnlock
    <3>2. m_terminate'
      BY <2>3, <3>1 DEF CancelNotify, CancelUnlock
    <3> QED
      BY <3>2
  <2> QED
    BY <1>5, <2>1, <2>2, <2>3 DEF Cancel
<1>6. CASE UNCHANGED vars
  BY <1>6 DEF vars
<1> QED
  BY <1>2, <1>3, <1>4, <1>5, <1>6 DEF Next, Done

LEMMA InitTermInv == Init => TermInv
BY DEF Init, TermInv, TermIsNotLost, StoredOnceLeft

(* No SIGTERM is swallowed, however many arrive, on whatever threads and   *)
(* at whatever point of run(): each ends in m_terminate or in the end of   *)
(* the process.                                                            *)
THEOREM TermsAreKept == Spec => []TermIsNotLost
<1>1. TermInv => TermIsNotLost
  BY DEF TermInv
<1> QED
  BY <1>1, InitTypeOK, NextTypeOK, InitTermInv, NextTermInv, PTL DEF Spec

-----------------------------------------------------------------------------
(* The service: every step of the init script is a step of the process,    *)
(* leaves it alone, or makes a new one.                                    *)

ServiceInv ==
  TypeOK /\ StopInv /\ NotifierOnItsWay /\ UnwindsUnhandled /\ TermInv /\ MutexInv

LEMMA FreshProcess == Init => ServiceInv
<1>1. Init => StopInv
  BY DEF Init, StopInv, StopBound, NothingAfter
<1>2. Init => NotifierOnItsWay /\ UnwindsUnhandled
  BY DEF Init, NotifierOnItsWay, UnwindsUnhandled
<1> QED
  BY <1>1, <1>2, InitTypeOK, InitTermInv, InitMutexInv DEF ServiceInv

LEMMA ProcessStep == ServiceInv /\ [Next]_vars => ServiceInv'
BY NextTypeOK, NextStopInv, NextNotifier, NextUnwinds, NextTermInv, NextMutexInv DEF ServiceInv

LEMMA ServiceStep == [ServiceNext]_serviceVars => [Next]_vars \/ StartProcess
<1> SUFFICES ASSUME [ServiceNext]_serviceVars PROVE [Next]_vars \/ StartProcess
  OBVIOUS
<1>1. CASE DaemonStep
  BY <1>1 DEF DaemonStep, Next
<1>2. CASE Start \/ RestartGoesOn
  BY <1>2 DEF Start, RestartGoesOn, StartDaemon
<1>3. CASE Stop \/ Restart
  BY <1>3 DEF Stop, Restart, StopDaemon, Next
<1>4. CASE Stopped \/ UNCHANGED serviceVars
  BY <1>4 DEF Stopped, serviceVars
<1> QED
  BY <1>1, <1>2, <1>3, <1>4 DEF ServiceNext

(* However often the script stops, starts and restarts it, and even if it  *)
(* does so while the daemon starts up or ends: a cancelled daemon begins   *)
(* at most one more cycle and one more wait, a waiting one is woken, the   *)
(* main thread never cancels a destroyed strategy, no SIGTERM is lost, and *)
(* the owner of m_mutex is stuck only where a signal interrupted run()     *)
(* while it owned it.                                                      *)
THEOREM ServiceStops ==
  ServiceSpec => [](/\ TypeOK /\ StopBound /\ WaiterIsNotified
                    /\ CancelOnLiveStrategy /\ TermIsNotLost /\ OwnerGoesOn)
<1>1. ServiceInit => ServiceInv
  BY FreshProcess DEF ServiceInit
<1>2. StartProcess => Init'
  BY DEF StartProcess, Init
<1>3. Init' => ServiceInv'
  BY FreshProcess, PTL
<1>4. ServiceInv /\ [ServiceNext]_serviceVars => ServiceInv'
  BY <1>2, <1>3, ProcessStep, ServiceStep
<1>5. ServiceInv => /\ TypeOK /\ StopBound /\ WaiterIsNotified
                    /\ CancelOnLiveStrategy /\ TermIsNotLost /\ OwnerGoesOn
  BY OwnerIsFree DEF ServiceInv, StopInv, NotifierOnItsWay, WaiterIsNotified,
     UnwindsUnhandled, CancelOnLiveStrategy, TermInv
<1> QED
  BY <1>1, <1>4, <1>5, PTL DEF ServiceSpec

=============================================================================
