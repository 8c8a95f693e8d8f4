-------------------------- MODULE RunningStrategy --------------------------
(***************************************************************************)
(* The daemon process: main.cpp from its start to its end, with the        *)
(* CDaemonRunningStrategy (common/source/CRunningStrategy.cpp) it runs and *)
(* the SIGTERM handler it installs to cancel it.                           *)
(*                                                                         *)
(* The main thread runs the cycles; a SIGTERM is handled on the thread the *)
(* kernel picks: on the main thread it interrupts what that thread does,   *)
(* on a thread of the HTTP client's pool it runs beside it.                *)
(***************************************************************************)
EXTENDS Naturals, FiniteSets

CONSTANTS
  Main,            \* the thread of main()
  Pool,            \* the other threads a signal may be handled on
  InterruptsOwner, \* whether a signal may hit Main while it owns m_mutex
  MaxTerms         \* bound: how many SIGTERMs are sent

Threads == {Main} \cup Pool
NoThread == "none"

ASSUME ThreadsAssumption == Main \notin Pool /\ NoThread \notin Threads
ASSUME OptionsAssumption == InterruptsOwner \in BOOLEAN /\ MaxTerms \in Nat

VARIABLES
  pc,           \* where the main thread is
  handler,      \* where each thread is in cancel(), called by the handler
  owner,        \* the thread that owns m_mutex
  notified,     \* main waits and notify_all() has reached it
  m_terminate,
  published,    \* the store to m_terminate is visible to the main thread
  installed,    \* SIGTERM is handled by main()'s handler
  pending,      \* a SIGTERM is pending for the process
  sent,         \* SIGTERMs sent so far
  (* History: what the main thread did after m_terminate was stored.       *)
  cyclesAfter,  \* calls of f() that began after it
  waitsAfter,   \* waits that began after it
  lateWait      \* the last wait began after it

vars == <<pc, handler, owner, notified, m_terminate, published, installed,
          pending, sent, cyclesAfter, waitsAfter, lateWait>>

history == <<cyclesAfter, waitsAfter, lateWait>>
mainVars == <<pc, notified, installed, history>>
signalVars == <<handler, pending, sent>>
flagVars == <<m_terminate, published>>

(* main() is "starting" until the handler is installed; what it does       *)
(* before run() is counted to the "first" cycle.                           *)
(* run() is left in "exited"; then main() destroys the signal handler      *)
(* ("restored") and the strategy ("freed"), and the process ends.          *)
MainPCs == {"starting", "first", "lock", "enter", "waiting", "relock", "check",
            "start", "cycle", "peek", "exited", "restored", "freed", "ended", "killed"}
HandlerPCs == {"idle", "lock", "store", "notify", "unlock"}
Ended == {"ended", "killed"}

(* The histories only tell 0, 1 and more apart. *)
Count(n) == IF n < 2 THEN n + 1 ELSE n

(* The process has just been started. *)
Init ==
  /\ pc = "starting"
  /\ handler = [t \in Threads |-> "idle"]
  /\ owner = NoThread
  /\ notified = FALSE
  /\ m_terminate = FALSE
  /\ published = FALSE
  /\ installed = FALSE
  /\ pending = FALSE
  /\ sent = 0
  /\ cyclesAfter = 0
  /\ waitsAfter = 0
  /\ lateWait = FALSE

-----------------------------------------------------------------------------
(* The main thread: run().  It stands still while it handles a signal.     *)

At(place) == pc = place /\ handler[Main] = "idle"

(* main() makes the strategy, and then the handler that cancels it. *)
InstallHandler ==
  /\ At("starting")
  /\ pc' = "first"
  /\ installed' = TRUE
  /\ UNCHANGED <<owner, notified, history, flagVars, signalVars>>

(* The options cannot be read, or only ask for the help text. *)
StartFails ==
  /\ At("starting")
  /\ pc' = "ended"
  /\ UNCHANGED <<owner, notified, installed, history, flagVars, signalVars>>

(* Line 17: the first call of f() ends; nothing is read after it. *)
FinishFirst ==
  /\ At("first")
  /\ pc' = "lock"
  /\ UNCHANGED <<owner, notified, installed, history, flagVars, signalVars>>

(* f() throws, or what main() does before run(): it reaches main(). *)
CycleThrows ==
  /\ At("first") \/ At("cycle")
  /\ pc' = "exited"
  /\ UNCHANGED <<owner, notified, installed, history, flagVars, signalVars>>

(* Line 21: unique_lock takes the mutex. *)
Lock ==
  /\ At("lock")
  /\ owner = NoThread
  /\ owner' = Main
  /\ pc' = "enter"
  /\ UNCHANGED <<notified, installed, history, flagVars, signalVars>>

(* Line 22: wait_for releases the mutex and waits, in one step. *)
BeginWait ==
  /\ At("enter")
  /\ owner' = NoThread
  /\ notified' = FALSE
  /\ pc' = "waiting"
  /\ waitsAfter' = IF m_terminate THEN Count(waitsAfter) ELSE waitsAfter
  /\ lateWait' = m_terminate
  /\ UNCHANGED <<installed, cyclesAfter, flagVars, signalVars>>

(* Line 22: the wait ends by the notification, or by the duty cycle, or    *)
(* spuriously; there is no predicate.                                      *)
Wake ==
  /\ At("waiting")
  /\ pc' = "relock"
  /\ UNCHANGED <<owner, notified, installed, history, flagVars, signalVars>>

(* Line 22: wait_for takes the mutex again before it returns. *)
Relock ==
  /\ At("relock")
  /\ owner = NoThread
  /\ owner' = Main
  /\ notified' = FALSE
  /\ pc' = "check"
  /\ UNCHANGED <<installed, history, flagVars, signalVars>>

(* Mutant: the flag is not looked at under the lock. *)
Check_Blind ==
  /\ At("check")
  /\ owner' = NoThread
  /\ pc' = "start"
  /\ UNCHANGED <<notified, installed, history, flagVars, signalVars>>

(* Lines 23-25: the flag is read and the mutex released, either way. *)
Check ==
  /\ At("check")
  /\ owner' = NoThread
  /\ pc' = IF m_terminate THEN "exited" ELSE "start"
  /\ UNCHANGED <<notified, installed, history, flagVars, signalVars>>

(* Line 26: f() is called, no longer under the lock. *)
StartCycle ==
  /\ At("start")
  /\ pc' = "cycle"
  /\ cyclesAfter' = IF m_terminate THEN Count(cyclesAfter) ELSE cyclesAfter
  /\ UNCHANGED <<owner, notified, installed, waitsAfter, lateWait, flagVars, signalVars>>

(* Mutant: control runs off the end of the loop. *)
FinishCycle_OffTheLoop ==
  /\ At("cycle")
  /\ pc' = "after the loop"
  /\ UNCHANGED <<owner, notified, installed, history, flagVars, signalVars>>

FinishCycle ==
  /\ At("cycle")
  /\ pc' = "peek"
  /\ UNCHANGED <<owner, notified, installed, history, flagVars, signalVars>>

(* Line 27 reads the flag without the lock, which races with cancel() on   *)
(* another thread: until that thread releases the mutex the read may       *)
(* return the old value.                                                   *)
Peek ==
  /\ At("peek")
  /\ \/ m_terminate /\ pc' = "exited"
     \/ ~published /\ pc' = "lock"
  /\ UNCHANGED <<owner, notified, installed, history, flagVars, signalVars>>

(* Mutant: main() declares the handlers before the strategy, so that they  *)
(* are destroyed after it.                                                 *)
RestoreHandler_Late ==
  /\ At("exited")
  /\ pc' = "restored"
  /\ UNCHANGED <<owner, notified, installed, history, flagVars, signalVars>>

(* main() unwinds: the handler is replaced by the disposition it found ... *)
RestoreHandler ==
  /\ At("exited")
  /\ pc' = "restored"
  /\ installed' = FALSE
  /\ UNCHANGED <<owner, notified, history, flagVars, signalVars>>

(* ... and then the strategy is destroyed ... *)
FreeStrategy ==
  /\ At("restored")
  /\ pc' = "freed"
  /\ UNCHANGED <<owner, notified, installed, history, flagVars, signalVars>>

(* ... and main() returns. *)
EndProcess ==
  /\ At("freed")
  /\ pc' = "ended"
  /\ UNCHANGED <<owner, notified, installed, history, flagVars, signalVars>>

-----------------------------------------------------------------------------
(* Signals and cancel().                                                   *)

(* A SIGTERM that finds one pending is merged with it. *)
SendTerm ==
  /\ pc \notin Ended
  /\ sent < MaxTerms
  /\ pending' = TRUE
  /\ sent' = sent + 1
  /\ UNCHANGED <<handler, owner, mainVars, flagVars>>

(* The handler starts on a thread that is not in it already: SIGTERM is    *)
(* blocked in a thread while the thread handles it.                        *)
Deliver(t) ==
  /\ pending
  /\ installed /\ pc \notin Ended
  /\ handler[t] = "idle"
  /\ t = Main /\ owner = Main => InterruptsOwner
  /\ pending' = FALSE
  /\ handler' = [handler EXCEPT ![t] = "lock"]
  /\ UNCHANGED <<sent, owner, mainVars, flagVars>>

(* Before the handler is installed and after it was replaced, a SIGTERM    *)
(* takes the default action.                                               *)
KilledByDefault ==
  /\ pending
  /\ ~installed /\ pc \notin Ended
  /\ pending' = FALSE
  /\ pc' = "killed"
  /\ UNCHANGED <<sent, handler, owner, notified, installed, history, flagVars>>

(* Line 34 *)
CancelLock(t) ==
  /\ handler[t] = "lock"
  /\ owner = NoThread
  /\ owner' = t
  /\ handler' = [handler EXCEPT ![t] = "store"]
  /\ UNCHANGED <<pending, sent, mainVars, flagVars>>

(* Mutant: only a waiting main thread is told. *)
CancelStore_IfWaiting(t) ==
  /\ handler[t] = "store"
  /\ m_terminate' = (m_terminate \/ pc = "waiting")
  /\ published' = (published \/ t = Main)
  /\ handler' = [handler EXCEPT ![t] = "notify"]
  /\ UNCHANGED <<pending, sent, owner, mainVars>>

(* Line 35: visible at once to the thread that stores. *)
CancelStore(t) ==
  /\ handler[t] = "store"
  /\ m_terminate' = TRUE
  /\ published' = (published \/ t = Main)
  /\ handler' = [handler EXCEPT ![t] = "notify"]
  /\ UNCHANGED <<pending, sent, owner, mainVars>>

(* Mutant: nobody is notified. *)
CancelNotify_Nobody(t) ==
  /\ handler[t] = "notify"
  /\ handler' = [handler EXCEPT ![t] = "unlock"]
  /\ UNCHANGED <<pending, sent, owner, mainVars, flagVars>>

(* Line 36: reaches the main thread only if it is waiting. *)
CancelNotify(t) ==
  /\ handler[t] = "notify"
  /\ notified' = (notified \/ pc = "waiting")
  /\ handler' = [handler EXCEPT ![t] = "unlock"]
  /\ UNCHANGED <<pending, sent, owner, pc, installed, history, flagVars>>

(* Mutant: cancel() returns without releasing the mutex. *)
CancelUnlock_Keeps(t) ==
  /\ handler[t] = "unlock"
  /\ published' = TRUE
  /\ handler' = [handler EXCEPT ![t] = "idle"]
  /\ UNCHANGED <<pending, sent, m_terminate, owner, mainVars>>

(* Line 37: the mutex is released and with it the store. *)
CancelUnlock(t) ==
  /\ handler[t] = "unlock"
  /\ owner' = NoThread
  /\ published' = TRUE
  /\ handler' = [handler EXCEPT ![t] = "idle"]
  /\ UNCHANGED <<pending, sent, m_terminate, mainVars>>

-----------------------------------------------------------------------------

Run == \/ InstallHandler \/ StartFails
       \/ FinishFirst \/ CycleThrows \/ Lock \/ BeginWait \/ Wake \/ Relock
       \/ Check \/ StartCycle \/ FinishCycle \/ Peek
       \/ RestoreHandler \/ FreeStrategy \/ EndProcess

Cancel(t) == CancelStore(t) \/ CancelNotify(t) \/ CancelUnlock(t)

(* The process has ended; nothing moves any more. *)
Done == pc \in Ended /\ UNCHANGED vars

Next ==
  \/ Run
  \/ SendTerm
  \/ KilledByDefault
  \/ \E t \in Threads : Deliver(t) \/ CancelLock(t) \/ Cancel(t)
  \/ Done

(* A cycle ends (its waits and its HTTP request have time-outs), threads   *)
(* that can run do, a pending signal is delivered, and a thread that waits *)
(* for the mutex gets it: main leaves it free for whole duty cycles.       *)
Fairness ==
  /\ WF_vars(Run)
  /\ SF_vars(Lock \/ Relock)
  /\ SF_vars(\E t \in Threads : Deliver(t))
  /\ WF_vars(KilledByDefault)
  /\ \A t \in Threads : SF_vars(CancelLock(t)) /\ WF_vars(Cancel(t))

Spec == Init /\ [][Next]_vars /\ Fairness

-----------------------------------------------------------------------------

TypeOK ==
  /\ pc \in MainPCs
  /\ handler \in [Threads -> HandlerPCs]
  /\ owner \in Threads \cup {NoThread}
  /\ notified \in BOOLEAN
  /\ m_terminate \in BOOLEAN
  /\ published \in BOOLEAN
  /\ installed \in BOOLEAN
  /\ pending \in BOOLEAN
  /\ sent \in Nat
  /\ cyclesAfter \in 0..2
  /\ waitsAfter \in 0..2
  /\ lateWait \in BOOLEAN

(* How long a cancelled daemon may go on, whatever the interleaving and    *)
(* whatever the unlocked read of line 27 returns: it begins at most one    *)
(* more cycle and at most one more wait before it leaves run().            *)
StopBound == cyclesAfter <= 1 /\ waitsAfter <= 1

(* A main thread that was waiting when cancel() ran does not sleep its     *)
(* duty cycle out: when cancel() has returned it has been notified.        *)
WaiterIsNotified ==
  /\ pc = "waiting"
  /\ m_terminate
  /\ ~lateWait
  /\ \A t \in Threads : handler[t] = "idle"
  => notified

(* The main thread is never interrupted into cancel() once it has begun to *)
(* destroy what cancel() uses.  (A thread of the pool may still be in it.) *)
CancelOnLiveStrategy ==
  pc \in {"restored", "freed"} => handler[Main] = "idle"

(* A signal interrupted run() while it owned m_mutex, and cancel() waits   *)
(* for it on the same thread: where the daemon hangs.                      *)
OwnerInterrupted ==
  owner = Main /\ pc \in {"enter", "check"} /\ handler[Main] = "lock"

(* Whoever owns m_mutex goes on to release it: run() between its lock and  *)
(* its wait or its read of the flag, or a thread inside cancel().  The     *)
(* one exception is a run() that a signal interrupts there, if one does    *)
(* (InterruptsOwner).                                                      *)
OwnerGoesOn ==
  owner # NoThread =>
    \/ owner = Main /\ pc \in {"enter", "check"} /\ handler[Main] = "idle"
    \/ handler[owner] \in {"store", "notify", "unlock"}
    \/ InterruptsOwner /\ OwnerInterrupted

(* A SIGTERM is never swallowed: it is pending, being handled, or stored   *)
(* in m_terminate, or the process has ended, whenever it arrived and with  *)
(* whatever it was merged.                                                 *)
TermIsNotLost ==
  sent > 0 =>
    \/ pending
    \/ \E t \in Threads : handler[t] # "idle"
    \/ m_terminate
    \/ pc \in Ended

(* /etc/init.d/gsc stops the daemon with a SIGTERM: once it is sent, the   *)
(* process ends.                                                           *)
TermEndsDaemon == pending ~> pc \in Ended

=============================================================================
