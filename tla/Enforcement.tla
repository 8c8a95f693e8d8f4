---------------------------- MODULE Enforcement ----------------------------
(***************************************************************************)
(* What a cycle promises about the processes it ends, whichever way it     *)
(* finds and ends them: it matches, it decides on some of what it matched, *)
(* it ends these one by one and nothing else, and it is not over before    *)
(* none of them is left.  SessionController, where ending a process is one *)
(* step, and ProcessTermination, where it takes signals and waits, both    *)
(* implement it: what the one assumes of the other is this specification.  *)
(***************************************************************************)

CONSTANT Pids

VARIABLES
  alive,  \* the pids at which a process runs that was not sent SIGKILL
  match,  \* the pids the cycle has matched
  phase,  \* "match" until the cycle decides, then "end"
  due     \* the pids it has still to end

vars == <<alive, match, phase, due>>

Init ==
  /\ alive \in SUBSET Pids
  /\ match = {} /\ due = {}
  /\ phase = "match"

-----------------------------------------------------------------------------
(* What users do: a matched pid is not used again in the same cycle.       *)

Start(p) ==
  /\ p \notin alive \cup match
  /\ alive' = alive \cup {p}
  /\ UNCHANGED <<match, phase, due>>

Leave(p) ==
  /\ alive' = alive \ {p}
  /\ UNCHANGED <<match, phase, due>>

-----------------------------------------------------------------------------
(* What the daemon does.                                                   *)

Match(pids) ==
  /\ phase = "match"
  /\ match' = match \cup pids
  /\ UNCHANGED <<alive, phase, due>>

(* Some matches exceed their limit, or none does. *)
Decide(pids) ==
  /\ phase = "match" /\ pids \subseteq match
  /\ phase' = "end"
  /\ due' = pids
  /\ UNCHANGED <<alive, match>>

End(p) ==
  /\ p \in due
  /\ due' = due \ {p}
  /\ alive' = alive \ {p}
  /\ UNCHANGED <<match, phase>>

Finish ==
  /\ phase = "end" /\ due = {}
  /\ phase' = "match"
  /\ match' = {}
  /\ UNCHANGED <<alive, due>>

(* An exception ends the daemon, but never between two processes. *)
Abort ==
  /\ phase = "match"
  /\ match' = {}
  /\ UNCHANGED <<alive, phase, due>>

Next ==
  \/ \E p \in Pids : Start(p) \/ Leave(p) \/ End(p)
  \/ \E pids \in SUBSET Pids : Match(pids) \/ Decide(pids)
  \/ Finish
  \/ Abort

Spec == Init /\ [][Next]_vars

=============================================================================
