---------------------- MODULE ProcessTermination_proofs ----------------------
(***************************************************************************)
(* What the termination loop promises, for any number of processes, any    *)
(* programs, rules and time-out.                                           *)
(***************************************************************************)
EXTENDS ProcessTermination, TLAPS

(* kill(2) never returns what isRunning() compares it with. *)
LEMMA AlwaysRunning == ASSUME NEW p PROVE isRunning(p)
BY DEF isRunning, kill, ESRCH

Enforcing == {"next", "termWait", "kill", "killWait"}
Ending == {"termWait", "kill", "killWait"}

(* What the daemon may signal when it probes a pid it may signal later: a  *)
(* listed pid is not given to another process.                             *)
TargetsAreOwned ==
  /\ \A p \in targets : owned[p]
  /\ pc = "probeRead" => owned[current]

(* Every pid in hand is listed. *)
InHandIsListed ==
  /\ pc \in {"listRead", "probeRead"} => current \in listed
  /\ pc \in {"probe", "probeRead"} => unread \subseteq listed
  /\ pc \in Ending => current \in targets /\ current \notin todo

(* A process of the match that the loop has left behind is gone or doomed. *)
DoneAreKilled ==
  pc \in Enforcing =>
    \A p \in targets \ todo :
      \/ p = current /\ pc \in {"termWait", "kill"}
      \/ state[p] = "running" => doomed[p]

(* The wait has slept as long as its process had since SIGTERM.            *)
GraceIsSlept ==
  /\ pc = "termWait" => termAge[current] = second
  /\ pc = "kill" /\ state[current] = "running" => termAge[current] = Timeout

(* Before the loop there is nothing to terminate.                          *)
TodoIsOfLoop == pc \notin Enforcing => todo = {}

IInv ==
  /\ TypeOK
  /\ TargetsAreOwned /\ InHandIsListed /\ DoneAreKilled /\ GraceIsSlept /\ TodoIsOfLoop

LEMMA InitIInv == Init => IInv
<1> SUFFICES ASSUME Init PROVE IInv
  OBVIOUS
<1> USE DEF Init
<1>1. TypeOK
  BY TerminationAssumption DEF TypeOK, PCs
<1>2. TargetsAreOwned /\ InHandIsListed /\ DoneAreKilled /\ GraceIsSlept /\ TodoIsOfLoop
  BY DEF TargetsAreOwned, InHandIsListed, DoneAreKilled, GraceIsSlept, TodoIsOfLoop,
         Enforcing, Ending
<1> QED
  BY <1>1, <1>2 DEF IInv

-----------------------------------------------------------------------------
(* Type correctness, one step for each action.                             *)

LEMMA EnvironmentType == TypeOK /\ Environment => TypeOK'
<1> SUFFICES ASSUME TypeOK, NEW p \in Pids, Spawn(p) \/ Exec(p) \/ Exit(p) \/ Reap(p)
             PROVE  TypeOK'
  BY DEF Environment
<1> USE DEF TypeOK
<1>1. CASE Spawn(p)
  BY <1>1, TerminationAssumption DEF Spawn, cycleVars, lists
<1>2. CASE Exec(p)
  BY <1>2 DEF Exec, cycleVars, lists
<1>3. CASE Exit(p)
  BY <1>3 DEF Exit, cycleVars, lists
<1>4. CASE Reap(p)
  BY <1>4 DEF Reap, cycleVars, lists
<1> QED
  BY <1>1, <1>2, <1>3, <1>4

LEMMA CycleType == TypeOK /\ InHandIsListed /\ Cycle => TypeOK'
<1> SUFFICES ASSUME TypeOK, InHandIsListed, Cycle PROVE TypeOK'
  OBVIOUS
<1> USE TerminationAssumption DEF TypeOK, PCs, table, lists, Reading
<1>1. ASSUME NEW p \in Pids, Find(p) PROVE TypeOK'
  BY <1>1 DEF Find
<1>2. ASSUME NEW p \in Pids, Probe(p) PROVE TypeOK'
  BY <1>2 DEF Probe
<1>3. ASSUME NEW p \in Pids, Terminate(p) PROVE TypeOK'
  BY <1>3 DEF Terminate
<1>4. CASE EndPass
  BY <1>4 DEF EndPass
<1>5. CASE Read
  <2>1. pc = "probeRead" => current \in listed
    BY DEF InHandIsListed
  <2>2. CASE CommandLineFails(current)
    BY <1>5, <2>2 DEF Read
  <2>3. CASE ~CommandLineFails(current)
    <3>1. /\ pc' \in {"count", "list", "probe"}
          /\ targets \subseteq targets' /\ targets' \subseteq listed
      BY <1>5, <2>1, <2>3 DEF Read
    <3> QED
      BY <1>5, <2>3, <3>1 DEF Read
  <2> QED
    BY <2>2, <2>3
<1>6. CASE Enforce
  BY <1>6 DEF Enforce
<1>7. CASE Sleep
  <2>1. second' \in 0..Timeout
    BY <1>7 DEF Sleep, Waiting
  <2>2. termAge' \in [Pids -> -1..Timeout]
    BY <1>7 DEF Sleep
  <2> QED
    BY <1>7, <2>1, <2>2 DEF Sleep
<1>8. CASE EndTermWait
  BY <1>8 DEF EndTermWait
<1>9. CASE Kill
  <2>1. second' \in 0..Timeout /\ pc' \in {"killWait", "next"}
    BY <1>9 DEF Kill
  <2>2. doomed' \in [Pids -> BOOLEAN]
    BY <1>9 DEF Kill
  <2> QED
    BY <1>9, <2>1, <2>2 DEF Kill
<1>10. CASE EndKillWait
  BY <1>10 DEF EndKillWait
<1>11. CASE EndCycle
  BY <1>11 DEF EndCycle
<1> QED
  BY <1>1, <1>2, <1>3, <1>4, <1>5, <1>6, <1>7, <1>8, <1>9, <1>10, <1>11 DEF Cycle

-----------------------------------------------------------------------------

LEMMA EnvironmentIInv == IInv /\ Environment => IInv'
<1> SUFFICES ASSUME IInv, NEW p \in Pids, Spawn(p) \/ Exec(p) \/ Exit(p) \/ Reap(p)
             PROVE  IInv'
  BY DEF Environment
<1>1. TypeOK'
  BY EnvironmentType DEF IInv, Environment
<1>2. UNCHANGED cycleVars
  BY DEF Spawn, Exec, Exit, Reap
<1>3. \/ state' = [state EXCEPT ![p] = "zombie"] /\ UNCHANGED <<owned, doomed, termAge>>
      \/ state' = [state EXCEPT ![p] = "none"] /\ UNCHANGED <<owned, doomed, termAge>>
      \/ UNCHANGED <<state, owned, doomed, termAge>>
      \/ /\ p \notin listed /\ ~(p = current /\ pc \in Reading)
         /\ \A q \in Pids \ {p} : /\ state'[q] = state[q] /\ owned'[q] = owned[q]
                                  /\ doomed'[q] = doomed[q] /\ termAge'[q] = termAge[q]
  BY DEF Spawn, Exec, Exit, Reap, IInv, TypeOK
<1>4. \A q \in listed :
        /\ owned'[q] = owned[q] /\ doomed'[q] = doomed[q] /\ termAge'[q] = termAge[q]
        /\ state'[q] = "running" => state[q] = "running"
  BY <1>3 DEF IInv, TypeOK
<1>5. targets \subseteq listed /\ listed \subseteq Pids
  BY DEF IInv, TypeOK
<1>6. pc \in Ending => current \in listed
  BY <1>5 DEF IInv, InHandIsListed
<1>7. TargetsAreOwned'
  BY <1>2, <1>4, <1>5 DEF IInv, TargetsAreOwned, InHandIsListed, cycleVars, lists
<1>8. InHandIsListed'
  BY <1>2 DEF IInv, InHandIsListed, cycleVars, lists
<1>9. DoneAreKilled'
  BY <1>2, <1>4, <1>5 DEF IInv, DoneAreKilled, cycleVars, lists
<1>10. GraceIsSlept'
  BY <1>2, <1>4, <1>6 DEF IInv, GraceIsSlept, Ending, cycleVars, lists
<1>11. TodoIsOfLoop'
  BY <1>2 DEF IInv, TodoIsOfLoop, cycleVars, lists
<1> QED
  BY <1>1, <1>7, <1>8, <1>9, <1>10, <1>11 DEF IInv

LEMMA CycleIInv == IInv /\ Cycle => IInv'
<1> SUFFICES ASSUME IInv, Cycle PROVE IInv'
  OBVIOUS
<1>1. TypeOK /\ TypeOK'
  BY CycleType DEF IInv
<1> USE DEF IInv, TargetsAreOwned, InHandIsListed, DoneAreKilled, GraceIsSlept, TodoIsOfLoop,
            table, lists, Reading, Enforcing, Ending
<1>2. ASSUME NEW p \in Pids, Find(p) PROVE IInv'
  BY <1>1, <1>2 DEF Find, TypeOK
<1>3. ASSUME NEW p \in Pids, Probe(p) PROVE IInv'
  <2>1. isSignallable(p) => owned[p]
    BY DEF isSignallable, kill
  <2> QED
    BY <1>1, <1>3, <2>1 DEF Probe
<1>4. ASSUME NEW p \in Pids, Terminate(p) PROVE IInv'
  <2>1. p \in targets /\ targets \subseteq Pids /\ owned[p]
    BY <1>1, <1>4 DEF Terminate, TypeOK
  <2>2. kill(p) # 0 => state[p] = "none"
    BY <2>1 DEF kill
  <2>3. \A q \in targets \ todo' : q # p => (state[q] = "running" => doomed[q])
    BY <1>4 DEF Terminate
  <2>4. DoneAreKilled'
    BY <1>4, <2>3 DEF Terminate
  <2>5. GraceIsSlept'
    BY <1>1, <1>4, <2>1, <2>2 DEF Terminate, TypeOK
  <2>6. TargetsAreOwned' /\ InHandIsListed'
    BY <1>4, <2>1 DEF Terminate
  <2> QED
    BY <1>1, <1>4, <2>4, <2>5, <2>6 DEF Terminate
<1>5. CASE EndPass
  BY <1>1, <1>5 DEF EndPass, TypeOK
<1>6. CASE Read
  <2>1. CASE CommandLineFails(current)
    BY <1>1, <1>6, <2>1 DEF Read
  <2>2. CASE ~CommandLineFails(current)
    <3>1. UNCHANGED <<owned, listed, unread, todo, current>>
      BY <1>6, <2>2 DEF Read
    <3>2. pc' \in {"count", "list", "probe"} /\ (pc' = "probe" <=> pc = "probeRead")
      BY <1>6, <2>2 DEF Read
    <3>3. pc = "probeRead" => owned[current]
      OBVIOUS
    <3>4. targets' = IF pc = "probeRead" /\ Matches(current)
                     THEN targets \cup {current} ELSE targets
      BY <1>6, <2>2 DEF Read
    <3>5. todo' = {}
      BY <1>6, <3>1 DEF Read
    <3> QED
      BY <1>1, <3>1, <3>2, <3>3, <3>4, <3>5
  <2> QED
    BY <2>1, <2>2
<1>7. CASE Enforce
  BY <1>1, <1>7 DEF Enforce
<1>8. CASE Sleep
  <2>1. pc = "termWait" => termAge'[current] = second'
    <3>1. current \in Pids /\ second \in 0..Timeout /\ second < Timeout
      BY <1>1, <1>8 DEF Sleep, Waiting, TypeOK
    <3>2. termAge'[current] =
            IF termAge[current] \in 0..(Timeout - 1) THEN termAge[current] + 1
                                                     ELSE termAge[current]
      BY <1>8, <3>1 DEF Sleep
    <3> QED
      BY <1>8, <3>1, <3>2, TerminationAssumption DEF Sleep
  <2> QED
    BY <1>1, <1>8, <2>1 DEF Sleep
<1>9. CASE EndTermWait
  <2>1. second = Timeout /\ pc' = "kill"
    BY <1>1, <1>9, AlwaysRunning, TerminationAssumption DEF EndTermWait, Waiting, TypeOK
  <2> QED
    BY <1>1, <1>9, <2>1 DEF EndTermWait
<1>10. CASE Kill
  <2>1. current \in targets /\ current \in Pids /\ owned[current]
    BY <1>1, <1>10 DEF Kill, TypeOK
  <2>2. state[current] = "running" => kill(current) = 0
    BY <2>1 DEF kill
  <2>3. state[current] = "running" => doomed'[current]
    BY <1>1, <1>10, <2>1, <2>2 DEF Kill, TypeOK
  <2>4. \A q \in Pids : doomed[q] => doomed'[q]
    BY <1>1, <1>10 DEF Kill, TypeOK
  <2>5. targets \subseteq Pids
    BY <1>1 DEF TypeOK
  <2>6. DoneAreKilled'
    BY <1>10, <2>3, <2>4, <2>5 DEF Kill
  <2> QED
    BY <1>1, <1>10, <2>1, <2>6 DEF Kill
<1>11. CASE EndKillWait
  BY <1>1, <1>11 DEF EndKillWait
<1>12. CASE EndCycle
  BY <1>1, <1>12 DEF EndCycle
<1> QED
  BY <1>2, <1>3, <1>4, <1>5, <1>6, <1>7, <1>8, <1>9, <1>10, <1>11, <1>12 DEF Cycle

LEMMA NextIInv == IInv /\ [Next]_vars => IInv'
<1>1. IInv /\ UNCHANGED vars => IInv'
  BY DEF vars, IInv, TypeOK, TargetsAreOwned, InHandIsListed, DoneAreKilled, GraceIsSlept,
         TodoIsOfLoop
<1> QED
  BY <1>1, EnvironmentIInv, CycleIInv DEF Next

LEMMA SpecIInv == Spec => []IInv
BY InitIInv, NextIInv, PTL DEF Spec

(* The state of the table and of the cycle keeps its types.                *)
THEOREM TypeCorrect == Spec => []TypeOK
<1>1. IInv => TypeOK
  BY DEF IInv
<1> QED
  BY <1>1, SpecIInv, PTL

(* When the loop of CSessionController.cpp:109-119 is through, what is     *)
(* left of the match was sent SIGKILL, for any number of processes.        *)
THEOREM NoneIsLeftBehind == Spec => []MatchedAreKilled
<1>1. IInv => MatchedAreKilled
  BY DEF IInv, DoneAreKilled, MatchedAreKilled, Enforcing, TypeOK
<1> QED
  BY <1>1, SpecIInv, PTL

(* SIGKILL comes a whole time-out after SIGTERM, for every time-out.       *)
THEOREM GraceIsGranted == Spec => GraceBeforeKill
<1>1. IInv /\ [Next]_vars =>
        [\A p \in Pids : ~doomed[p] /\ doomed'[p] /\ state[p] = "running"
                           => termAge[p] = Timeout]_vars
  <2> SUFFICES ASSUME IInv, Next, NEW p \in Pids,
                      ~doomed[p], doomed'[p], state[p] = "running"
               PROVE  termAge[p] = Timeout
    BY DEF vars
  <2>1. CASE Environment
    BY <2>1 DEF Environment, Spawn, Exec, Exit, Reap, IInv, TypeOK
  <2>2. CASE Kill
    BY <2>2 DEF Kill, IInv, TypeOK, GraceIsSlept
  <2>3. CASE Cycle /\ ~Kill
    BY <2>3 DEF Cycle, Find, Probe, Terminate, EndPass, Read, Enforce, Sleep,
                EndTermWait, EndKillWait, EndCycle, table
  <2> QED
    BY <2>1, <2>2, <2>3 DEF Next
<1> QED
  BY <1>1, SpecIInv, PTL DEF Spec, GraceBeforeKill

-----------------------------------------------------------------------------
(* The loop implements Enforcement.                                        *)

LEMMA RefinesInit == Init => Abstract!Init
BY DEF Init, Abstract!Init, Alive, Due, Phase

(* A process that starts does so at a pid that is not matched; one that    *)
(* exits leaves, unless it was sent SIGKILL and has left before.           *)
LEMMA RefinesEnvironment == IInv /\ Environment => Abstract!Next \/ UNCHANGED Abstract!vars
<1> SUFFICES ASSUME IInv, NEW p \in Pids, Spawn(p) \/ Exec(p) \/ Exit(p) \/ Reap(p)
             PROVE  Abstract!Next \/ UNCHANGED Abstract!vars
  BY DEF Environment
<1>1. UNCHANGED <<targets, Phase, Due>>
  BY DEF Spawn, Exec, Exit, Reap, cycleVars, lists, Phase, Due
<1>2. CASE Spawn(p)
  <2>1. p \notin targets /\ p \notin Alive
    BY <1>2 DEF Spawn, IInv, TypeOK, Alive
  <2>2. Alive' = Alive \cup {p}
    BY <1>2 DEF Spawn, IInv, TypeOK, Alive
  <2>3. Abstract!Start(p)
    BY <1>1, <2>1, <2>2 DEF Abstract!Start
  <2> QED
    BY <2>3 DEF Abstract!Next
<1>3. CASE Exit(p)
  <2>1. Alive' = Alive \ {p}
    BY <1>3 DEF Exit, IInv, TypeOK, Alive
  <2>2. Abstract!Leave(p)
    BY <1>1, <2>1 DEF Abstract!Leave
  <2> QED
    BY <2>2 DEF Abstract!Next
<1>4. CASE Exec(p) \/ Reap(p)
  <2>1. Alive' = Alive
    BY <1>4 DEF Exec, Reap, IInv, TypeOK, Alive
  <2> QED
    BY <1>1, <2>1 DEF Abstract!vars
<1> QED
  BY <1>2, <1>3, <1>4

(* Listing and probing are stutters until a command line that matches is   *)
(* read.                                                                   *)
LEMMA RefinesRead == IInv /\ Read => Abstract!Next \/ UNCHANGED Abstract!vars
<1> SUFFICES ASSUME IInv, Read PROVE Abstract!Next \/ UNCHANGED Abstract!vars
  OBVIOUS
<1>1. /\ Phase = "match" /\ Phase' = "match"
      /\ Due = todo /\ Due' = todo'
      /\ Alive' = Alive
  BY DEF Read, Reading, Phase, Due, Alive, table
<1>2. CASE CommandLineFails(current)
  <2>1. targets' = {} /\ todo' = {}
    BY <1>2 DEF Read
  <2>2. todo = {}
    BY DEF IInv, TodoIsOfLoop, Read, Reading, Enforcing
  <2>3. Abstract!Abort
    BY <1>1, <2>1, <2>2 DEF Abstract!Abort
  <2> QED
    BY <2>3 DEF Abstract!Next
<1>3. CASE ~CommandLineFails(current)
  <2>1. UNCHANGED Due
    BY <1>1, <1>3 DEF Read
  <2>2. PICK pids \in SUBSET Pids : targets' = targets \cup pids
    <3>1. targets' = targets \cup {} \/ targets' = targets \cup {current}
      BY <1>3 DEF Read
    <3>2. {current} \in SUBSET Pids
      BY DEF IInv, TypeOK
    <3> QED
      BY <3>1, <3>2
  <2>3. Abstract!Match(pids)
    BY <1>1, <2>1, <2>2 DEF Abstract!Match
  <2> QED
    BY <2>3 DEF Abstract!Next
<1> QED
  BY <1>2, <1>3

(* SIGTERM and the waits are stutters; SIGKILL, or finding that the        *)
(* process has gone, is its end.                                           *)
LEMMA RefinesCycle == IInv /\ Cycle => Abstract!Next \/ UNCHANGED Abstract!vars
<1> SUFFICES ASSUME IInv, Cycle PROVE Abstract!Next \/ UNCHANGED Abstract!vars
  OBVIOUS
<1> USE DEF table, lists
<1>1. ASSUME NEW p \in Pids, Find(p) \/ Probe(p) PROVE UNCHANGED Abstract!vars
  BY <1>1 DEF Find, Probe, Abstract!vars, Alive, Due, Phase
<1>2. ASSUME NEW p \in Pids, Terminate(p) PROVE UNCHANGED Abstract!vars
  <2>1. Due = todo /\ Due' = todo' \cup {p} /\ todo' = todo \ {p} /\ p \in todo
    BY <1>2 DEF Terminate, Due
  <2>2. UNCHANGED <<Alive, targets, Phase>>
    BY <1>2 DEF Terminate, Alive, Phase
  <2> QED
    BY <2>1, <2>2 DEF Abstract!vars
<1>3. CASE EndPass
  BY <1>3 DEF EndPass, Abstract!vars, Alive, Due, Phase
<1>4. CASE Enforce
  <2>1. /\ Phase = "match" /\ Phase' = "end" /\ Due' = targets
        /\ UNCHANGED <<Alive, targets>>
    BY <1>4 DEF Enforce, Alive, Due, Phase
  <2>2. targets \in SUBSET Pids
    BY DEF IInv, TypeOK
  <2>3. Abstract!Decide(targets)
    BY <2>1 DEF Abstract!Decide
  <2> QED
    BY <2>2, <2>3 DEF Abstract!Next
<1>5. CASE Sleep \/ EndKillWait
  BY <1>5 DEF Sleep, EndKillWait, Abstract!vars, Alive, Due, Phase
<1>6. CASE EndTermWait
  BY <1>6, AlwaysRunning DEF EndTermWait, Abstract!vars, Alive, Due, Phase
<1>7. CASE Kill
  <2>1. current \in targets /\ current \in Pids /\ current \notin todo /\ owned[current]
    BY <1>7 DEF Kill, IInv, TypeOK, TargetsAreOwned, InHandIsListed, Ending
  <2>2. /\ Due = todo \cup {current} /\ Due' = todo
        /\ UNCHANGED <<targets, Phase>>
    BY <1>7 DEF Kill, Due, Phase
  <2>3. Alive' = Alive \ {current}
    <3>1. CASE kill(current) = 0
      BY <1>7, <2>1, <3>1 DEF Kill, Alive, IInv, TypeOK
    <3>2. CASE kill(current) # 0
      BY <1>7, <2>1, <3>2 DEF Kill, kill, Alive
    <3> QED
      BY <3>1, <3>2
  <2>4. Abstract!End(current)
    BY <2>1, <2>2, <2>3 DEF Abstract!End
  <2> QED
    BY <2>1, <2>4 DEF Abstract!Next
<1>8. CASE EndCycle
  <2>1. Abstract!Finish
    BY <1>8 DEF EndCycle, Abstract!Finish, Alive, Due, Phase
  <2> QED
    BY <2>1 DEF Abstract!Next
<1>9. CASE Read
  BY <1>9, RefinesRead
<1> QED
  BY <1>1, <1>2, <1>3, <1>4, <1>5, <1>6, <1>7, <1>8, <1>9 DEF Cycle

(* For any processes, programs and time-out the termination loop, with its *)
(* signals and waits (CProcess.cpp:88-112), is a run of Enforcement.       *)
THEOREM LoopEnforces == Spec => ImplementsEnforcement
<1>1. IInv /\ [Next]_vars => [Abstract!Next]_(Abstract!vars)
  <2>1. UNCHANGED vars => UNCHANGED Abstract!vars
    BY DEF vars, Abstract!vars, Alive, Due, Phase
  <2> QED
    BY <2>1, RefinesEnvironment, RefinesCycle DEF Next
<1> QED
  BY <1>1, RefinesInit, SpecIInv, PTL DEF Spec, ImplementsEnforcement, Abstract!Spec

=============================================================================
