----------------------------- MODULE InitScript -----------------------------
(***************************************************************************)
(* /etc/init.d/gsc (source/gsc/etc/gsc) composed with the daemon process   *)
(* it starts and stops.  start-stop-daemon is modelled by how the script   *)
(* uses it: both --start and --stop look for the process of the pid file.  *)
(***************************************************************************)
EXTENDS RunningStrategy

CONSTANT MaxCalls  \* bound: how often the script is called after the boot

ASSUME CallsAssumption == MaxCalls \in 0..MaxTerms

VARIABLES
  script,   \* "idle", or "sleep" between the stop and the start of a restart
  calls,    \* calls of the script so far
  told      \* history: the daemon was sent a SIGTERM

scriptVars == <<script, calls, told>>
serviceVars == <<vars, scriptVars>>

(* The boot has called start; the pid file holds the pid of the daemon. *)
ServiceInit ==
  /\ Init
  /\ script = "idle"
  /\ calls = 0
  /\ told = FALSE

Calls ==
  /\ script = "idle"
  /\ calls < MaxCalls
  /\ calls' = calls + 1

(* --stop sends one SIGTERM and waits for nothing. *)
StopDaemon ==
  \/ pc \notin Ended /\ SendTerm /\ told' = TRUE
  \/ pc \in Ended /\ UNCHANGED <<vars, told>>

(* A new process: Init again. *)
StartProcess ==
  /\ pc' = "starting"
  /\ handler' = [t \in Threads |-> "idle"]
  /\ owner' = NoThread
  /\ notified' = FALSE /\ m_terminate' = FALSE /\ published' = FALSE
  /\ installed' = FALSE /\ pending' = FALSE /\ sent' = 0
  /\ cyclesAfter' = 0 /\ waitsAfter' = 0 /\ lateWait' = FALSE

(* --start does nothing when the pid of the pid file runs; otherwise it    *)
(* starts a daemon and writes its pid.                                     *)
StartDaemon ==
  \/ pc \in Ended /\ StartProcess /\ told' = FALSE
  \/ pc \notin Ended /\ UNCHANGED <<vars, told>>

Start == Calls /\ StartDaemon /\ UNCHANGED script

Stop == Calls /\ StopDaemon /\ UNCHANGED script

Restart == Calls /\ StopDaemon /\ script' = "sleep"

(* sleep 1: the daemon may or may not have ended by then. *)
RestartGoesOn ==
  /\ script = "sleep"
  /\ StartDaemon
  /\ script' = "idle"
  /\ UNCHANGED calls

(* The daemon process goes on; only the script sends it SIGTERMs. *)
DaemonStep ==
  /\ \/ Run
     \/ KilledByDefault
     \/ \E t \in Threads : Deliver(t) \/ CancelLock(t) \/ Cancel(t)
  /\ UNCHANGED scriptVars

(* The daemon has ended and nobody calls the script. *)
Stopped ==
  /\ pc \in Ended /\ script = "idle"
  /\ UNCHANGED serviceVars

ServiceNext ==
  \/ DaemonStep
  \/ Start \/ Stop \/ Restart \/ RestartGoesOn
  \/ Stopped

(* The shell ends its sleep. *)
ServiceSpec ==
  ServiceInit /\ [][ServiceNext]_serviceVars /\ Fairness /\ WF_serviceVars(RestartGoesOn)

-----------------------------------------------------------------------------

(* After a restart a daemon runs that nobody has told to stop: the script  *)
(* comments its last step "start the daemon" and reports "started".        *)
RestartedRuns ==
  [][script = "sleep" /\ script' = "idle" => pc' \notin Ended /\ ~told']_serviceVars

=============================================================================
