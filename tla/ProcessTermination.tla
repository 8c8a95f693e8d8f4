------------------------- MODULE ProcessTermination -------------------------
(***************************************************************************)
(* Finding processes and ending them: CSystem and CProcess                 *)
(* (infrastructure/linux/source) and the loop of CSessionController that   *)
(* terminates what exceeds its limit.  It runs against a process table     *)
(* that changes at any time: processes start, run another program, exit,   *)
(* heed or ignore SIGTERM, and stay as zombies until they are reaped.      *)
(*                                                                         *)
(* Here every process of a matching program exceeds its limit; whether it  *)
(* does is the matter of Statistics and SessionController.                 *)
(***************************************************************************)
EXTENDS Integers

CONSTANTS
  Pids,
  Programs,  \* command lines of running processes
  Matching,  \* the command lines that the rule matches
  Timeout    \* seconds terminateAndWait and killAndWait wait at most

EmptyLine == ""

ASSUME TerminationAssumption ==
  /\ Matching \subseteq Programs \cup {EmptyLine}
  /\ Timeout \in Nat

VARIABLES
  state,     \* what the process table holds under each pid
  program,   \* the program that runs there
  owned,     \* whether the daemon may signal it
  doomed,    \* whether it has received SIGKILL
  pc,        \* where the cycle is
  listed,    \* the pids getRunningProcesses() found
  unread,    \* those the current pass has still to look at
  targets,   \* the processes of the match
  todo,      \* those the loop has still to terminate
  current,   \* the one it is at
  second,    \* how often the current wait has slept
  termAge    \* history: seconds since a process got its SIGTERM, from -1

vars == <<state, program, owned, doomed, pc, listed, unread, targets, todo,
          current, second, termAge>>
table == <<state, program, owned, doomed>>
lists == <<listed, unread, targets, todo>>

(* Where a CProcess is made: /proc/<pid>/cmdline is open and not read yet. *)
Reading == {"countRead", "listRead", "probeRead"}

PCs == {"count", "list", "probe", "next", "termWait", "kill", "killWait", "down"}
         \cup Reading

ESRCH == 3

-----------------------------------------------------------------------------
(* The process table.  A pid the running cycle has listed, or has open, is *)
(* not used again before the cycle lets go of it.                          *)

Init ==
  /\ state = [p \in Pids |-> "none"]
  /\ program \in [Pids -> Programs]
  /\ owned = [p \in Pids |-> TRUE]
  /\ doomed = [p \in Pids |-> FALSE]
  /\ pc = "count"
  /\ listed = {} /\ unread = Pids /\ targets = {} /\ todo = {}
  /\ current \in Pids
  /\ second = 0
  /\ termAge = [p \in Pids |-> -1]

cycleVars == <<pc, lists, current, second>>

Spawn(p) ==
  /\ state[p] = "none" /\ p \notin listed
  /\ ~(p = current /\ pc \in Reading)
  /\ state' = [state EXCEPT ![p] = "running"]
  /\ \E prog \in Programs : program' = [program EXCEPT ![p] = prog]
  /\ \E mine \in BOOLEAN : owned' = [owned EXCEPT ![p] = mine]
  /\ doomed' = [doomed EXCEPT ![p] = FALSE]
  /\ termAge' = [termAge EXCEPT ![p] = -1]
  /\ UNCHANGED cycleVars

Exec(p) ==
  /\ state[p] = "running" /\ ~doomed[p]
  /\ \E prog \in Programs : program' = [program EXCEPT ![p] = prog]
  /\ UNCHANGED <<state, owned, doomed, termAge, cycleVars>>

(* By itself, by SIGTERM or by SIGKILL. *)
Exit(p) ==
  /\ state[p] = "running"
  /\ state' = [state EXCEPT ![p] = "zombie"]
  /\ UNCHANGED <<program, owned, doomed, termAge, cycleVars>>

Reap(p) ==
  /\ state[p] = "zombie"
  /\ state' = [state EXCEPT ![p] = "none"]
  /\ UNCHANGED <<program, owned, doomed, termAge, cycleVars>>

Environment == \E p \in Pids : Spawn(p) \/ Exec(p) \/ Exit(p) \/ Reap(p)

-----------------------------------------------------------------------------
(* CProcess.                                                               *)

(* What kill(2) returns for a pid; a zombie can still be signalled. *)
kill(p) == IF state[p] # "none" /\ owned[p] THEN 0 ELSE -1

(* kill(2) returns -1 and sets errno, and never returns -ESRCH. *)
isRunning(p) == -ESRCH # kill(p)

(* -EPERM is -1: any failure of kill(2). *)
isSignallable(p) == isRunning(p) /\ -1 # kill(p)

(* determineCommandLine(): the file is there while the process is in the   *)
(* table, and opened; it reads as empty for a zombie.  Once the process is *)
(* reaped read(2) fails with ESRCH, and istreambuf_iterator throws.        *)
CommandLineFails(p) == state[p] = "none"

commandLine(p) == IF state[p] = "running" THEN program[p] ELSE EmptyLine

(* A rule can match an empty command line: with .* on its whitelist and    *)
(* nothing empty on its blacklist.                                         *)
Matches(p) == commandLine(p) \in Matching

(* Mutant: one second too many. *)
Waiting_OneMore(p) == isRunning(p) /\ second <= Timeout

(* The condition under which both waits sleep for another second. *)
Waiting(p) == isRunning(p) /\ second < Timeout

-----------------------------------------------------------------------------
(* One cycle.                                                              *)

(* getRunningProcesses() runs twice, for a number in the log and within    *)
(* getSignallableProcesses(): a pid that is found is opened to be read.    *)
Find(p) ==
  /\ pc \in {"count", "list"} /\ p \in unread
  /\ unread' = unread \ {p}
  /\ current' = p
  /\ IF state[p] = "none" THEN UNCHANGED <<pc, listed>>
     ELSE IF pc = "count" THEN pc' = "countRead" /\ UNCHANGED listed
     ELSE pc' = "listRead" /\ listed' = listed \cup {p}
  /\ UNCHANGED <<table, targets, todo, second, termAge>>

EndPass ==
  /\ pc \in {"count", "list"} /\ unread = {}
  /\ IF pc = "count" THEN pc' = "list" /\ unread' = Pids
                     ELSE pc' = "probe" /\ unread' = listed
  /\ UNCHANGED <<table, listed, targets, todo, current, second, termAge>>

(* getSignallableProcesses(): a process that can be signalled is made anew *)
(* and its command line opened again.                                      *)
Probe(p) ==
  /\ pc = "probe" /\ p \in unread
  /\ unread' = unread \ {p}
  /\ current' = p
  /\ pc' = IF isSignallable(p) THEN "probeRead" ELSE "probe"
  /\ UNCHANGED <<table, listed, targets, todo, second, termAge>>

(* The command line is read; an exception leaves the cycle and the daemon. *)
Read ==
  /\ pc \in Reading
  /\ IF CommandLineFails(current)
     THEN pc' = "down" /\ listed' = {} /\ targets' = {} /\ todo' = {}
     ELSE /\ UNCHANGED <<listed, todo>>
          /\ pc' = IF pc = "countRead" THEN "count"
                   ELSE IF pc = "listRead" THEN "list" ELSE "probe"
          /\ targets' = IF pc = "probeRead" /\ Matches(current)
                        THEN targets \cup {current} ELSE targets
  /\ UNCHANGED <<table, unread, current, second, termAge>>

(* The match is complete; its processes come in no particular order: the   *)
(* set that holds them orders pointers.                                    *)
Enforce ==
  /\ pc = "probe" /\ unread = {}
  /\ todo' = targets
  /\ pc' = "next"
  /\ UNCHANGED <<table, listed, unread, targets, current, second, termAge>>

(* terminateAndWait sends SIGTERM; if that fails it returns false and the  *)
(* process is killed.                                                      *)
Terminate(p) ==
  /\ pc = "next" /\ p \in todo
  /\ todo' = todo \ {p}
  /\ current' = p
  /\ second' = 0
  /\ IF kill(p) = 0
     THEN pc' = "termWait" /\ termAge' = [termAge EXCEPT ![p] = 0]
     ELSE pc' = "kill" /\ UNCHANGED termAge
  /\ UNCHANGED <<table, listed, unread, targets>>

(* Mutant: the seconds slept are not counted. *)
Sleep_NotCounted ==
  /\ pc \in {"termWait", "killWait"}
  /\ Waiting(current)
  /\ termAge' = [p \in Pids |->
                   IF termAge[p] \in 0..(Timeout - 1) THEN termAge[p] + 1 ELSE termAge[p]]
  /\ UNCHANGED <<table, pc, lists, current, second>>

(* Both waits sleep for a second while the process runs. *)
Sleep ==
  /\ pc \in {"termWait", "killWait"}
  /\ Waiting(current)
  /\ second' = second + 1
  /\ termAge' = [p \in Pids |->
                   IF termAge[p] \in 0..(Timeout - 1) THEN termAge[p] + 1 ELSE termAge[p]]
  /\ UNCHANGED <<table, pc, lists, current>>

(* Mutants: a process that was sent SIGTERM counts as terminated; the wait *)
(* is given up a second early.                                             *)
EndTermWait_Trusting ==
  /\ pc = "termWait"
  /\ ~Waiting(current)
  /\ pc' = "next"
  /\ UNCHANGED <<table, lists, current, second, termAge>>

EndTermWait_Early ==
  /\ pc = "termWait"
  /\ ~(isRunning(current) /\ second < Timeout - 1)
  /\ pc' = IF isRunning(current) THEN "kill" ELSE "next"
  /\ UNCHANGED <<table, lists, current, second, termAge>>

(* terminateAndWait returns whether the process has gone. *)
EndTermWait ==
  /\ pc = "termWait"
  /\ ~Waiting(current)
  /\ pc' = IF isRunning(current) THEN "kill" ELSE "next"
  /\ UNCHANGED <<table, lists, current, second, termAge>>

(* killAndWait sends SIGKILL. *)
Kill ==
  /\ pc = "kill"
  /\ IF kill(current) = 0
     THEN /\ doomed' = [doomed EXCEPT ![current] = TRUE]
          /\ pc' = "killWait"
     ELSE pc' = "next" /\ UNCHANGED doomed
  /\ second' = 0
  /\ UNCHANGED <<state, program, owned, lists, current, termAge>>

EndKillWait ==
  /\ pc = "killWait"
  /\ ~Waiting(current)
  /\ pc' = "next"
  /\ UNCHANGED <<table, lists, current, second, termAge>>

(* The cycle is over; the next one begins with a new list. *)
EndCycle ==
  /\ pc = "next" /\ todo = {}
  /\ pc' = "count"
  /\ listed' = {} /\ targets' = {} /\ unread' = Pids
  /\ UNCHANGED <<table, todo, current, second, termAge>>

Cycle ==
  \/ \E p \in Pids : Find(p) \/ Probe(p) \/ Terminate(p)
  \/ EndPass \/ Read \/ Enforce \/ Sleep \/ EndTermWait \/ Kill \/ EndKillWait \/ EndCycle

Next == Environment \/ Cycle

(* The daemon's thread runs and its sleeps end; SIGKILL is not ignored. *)
Spec ==
  /\ Init /\ [][Next]_vars
  /\ WF_vars(Cycle)
  /\ \A p \in Pids : WF_vars(doomed[p] /\ Exit(p))

-----------------------------------------------------------------------------

TypeOK ==
  /\ state \in [Pids -> {"none", "running", "zombie"}]
  /\ program \in [Pids -> Programs]
  /\ owned \in [Pids -> BOOLEAN]
  /\ doomed \in [Pids -> BOOLEAN]
  /\ pc \in PCs
  /\ listed \subseteq Pids /\ unread \subseteq Pids
  /\ targets \subseteq listed /\ todo \subseteq targets
  /\ current \in Pids
  /\ second \in 0..Timeout
  /\ termAge \in [Pids -> -1..Timeout]

(* When the loop is through, no process of the match is left that was not  *)
(* sent SIGKILL, whatever the processes did in the meantime: README.md:4-5 *)
(* says they will be terminated.                                           *)
MatchedAreKilled ==
  pc = "next" /\ todo = {} =>
    \A p \in targets : state[p] = "running" => doomed[p]

(* Nothing is killed that was not asked to terminate and given the whole   *)
(* time-out (CSessionController.cpp:111-117).                              *)
GraceBeforeKill ==
  [][\A p \in Pids : ~doomed[p] /\ doomed'[p] /\ state[p] = "running"
                       => termAge[p] = Timeout]_vars

(* Every cycle ends, whatever processes do: the passes over the table and  *)
(* each wait are bounded, and a wait does not depend on its process.       *)
CycleEnds == pc # "count" ~> pc \in {"count", "down"}

(* A process that matches and may be signalled does not stay: as long as   *)
(* the daemon is up it is listed, read and ended in some cycle, unless it  *)
(* exits or runs another program first (README.md:4-6).                    *)
Offends(p) == state[p] = "running" /\ owned[p] /\ program[p] \in Matching

OffendersGo == \A p \in Pids : Offends(p) ~> ~Offends(p) \/ pc = "down"

(* The pids at which a process runs that was not sent SIGKILL, those the   *)
(* loop has still to send it, and whether the loop has begun.              *)
Alive == {p \in Pids : state[p] = "running" /\ ~doomed[p]}

Due == todo \cup (IF pc \in {"termWait", "kill"} THEN {current} ELSE {})

Phase == IF pc \in {"next", "termWait", "kill", "killWait"} THEN "end" ELSE "match"

Abstract == INSTANCE Enforcement WITH
              alive <- Alive, match <- targets, phase <- Phase, due <- Due

(* With all its signals, waits and failures the loop does what             *)
(* SessionController takes for granted: whatever was matched is sent       *)
(* SIGKILL or gone when its turn is over, nothing else is, and the cycle   *)
(* does not end before (CSessionController.cpp:107-118).                   *)
ImplementsEnforcement == Abstract!Spec

(* CProcess.cpp:36-41: a process whose command line cannot be read has an  *)
(* empty one; processes that go away while they are listed are nothing     *)
(* that ends the daemon.                                                   *)
ListingSurvives == pc # "down"

(* CProcess.cpp:99 and CSessionController.cpp:111-115: a process that has  *)
(* gone within the time-out is reported as terminated and not killed.      *)
GoneIsNotKilled ==
  [][pc = "termWait" /\ pc' = "kill" => state[current] # "none"]_vars

=============================================================================
