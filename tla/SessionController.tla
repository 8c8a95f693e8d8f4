------------------------- MODULE SessionController -------------------------
(***************************************************************************)
(* CSessionController (common/source/CSessionController.cpp): the cycle    *)
(* that ties the parts together.  It loads the rules, lists and matches    *)
(* the processes, rates the matches, reports to InfluxDB if there is one,  *)
(* ends what exceeds a limit and waits for the next cycle - while users    *)
(* start and quit programs, an administrator edits the configuration file, *)
(* the InfluxDB server answers or does not, units (days) begin and the     *)
(* clock is set back.                                                      *)
(*                                                                         *)
(* A counter is its level here: active in steps of what one cycle adds,    *)
(* from 0 to Cap, where it exceeds every limit.  doUpdate of UnitCounter   *)
(* resets it (a unit has begun), keeps it (the run does not follow on the  *)
(* last one), lets it grow, or takes time off (the clock was set back).    *)
(* Listing processes, ending one, and a check of Statistics from load() to *)
(* save() are single steps here; ProcessTermination and Statistics have    *)
(* what can come between.                                                  *)
(***************************************************************************)
EXTENDS Matcher

CONSTANTS
  Pids,
  Configs,       \* what may be at the path of the configuration file: a kind
                 \* and a sequence of elements below rules
  ExampleRule,   \* the rule of the example file
  Unwritable,    \* names that do not fit into a line for InfluxDB
  Faults,        \* which of the listing, the rating and the save may fail
  Cap            \* bound: the level at which counters saturate

NoProgram == "no program"
NoMatcher == {[null |-> TRUE]}  \* no set of rules: the null pointer

(* There is no configuration file: nothing, only an example beside where   *)
(* it would be, or a directory.                                            *)
Missing == {"absent", "example", "directory"}

ConfigKinds == Missing \cup {"invalid", "noMatcher", "rules"}

ASSUME ControllerAssumption ==
  /\ NoProgram \notin Commands
  /\ Cap \in Nat
  /\ ExampleRule \in Rule
  /\ Unwritable \subseteq Names
  /\ Faults \subseteq {"list", "rate", "save"}
  /\ \A c \in Configs :
       /\ c.kind \in ConfigKinds
       /\ IsFiniteSet(DOMAIN c.rules) /\ DOMAIN c.rules \subseteq Nat \ {0}
       /\ \A i \in DOMAIN c.rules :
            IsRule(c.rules[i]) => RuleOf(c.rules[i]) \in Rule /\ RuleOf(c.rules[i]).limit < Cap

VARIABLES
  procs,      \* the program each process runs
  config,     \* the configuration file, or an example in its absence
  level,      \* the counters in the statistics file by name
  since,      \* what the clock did since the last update that was saved
  pc,         \* where the cycle is; "down" while there is no daemon
  m_matcher,  \* the rules in memory
  matched,    \* the matches of the cycle
  rated,      \* the counters that the cycle rates its matches by
  influxAdapter, \* whether it is made
  todo        \* the processes still to be terminated

vars == <<procs, config, level, since, pc, m_matcher, matched,
          rated, influxAdapter, todo>>
world == <<procs, config>>
counters == <<level, since>>

PCs == {"down", "load", "list", "rate", "influx", "insert", "enforce", "wait"}

(* The clock ran on, a unit began, or the clock was set back. *)
Clock == {"run", "unit", "back"}

NoMatches == [n \in {} |-> {}]
NotRated == [n \in Names |-> 0]

Init ==
  /\ procs = [p \in Pids |-> NoProgram]
  /\ config \in Configs
  /\ level = [n \in Names |-> 0]
  /\ since = [n \in Names |-> "unit"]
  /\ pc = "down"
  /\ m_matcher = NoMatcher
  /\ matched = NoMatches
  /\ rated = NotRated
  /\ influxAdapter = FALSE
  /\ todo = {}

-----------------------------------------------------------------------------
(* The world.                                                              *)

daemon == <<pc, m_matcher, matched, rated, influxAdapter, todo>>

(* A pid that the cycle has matched is not used again before it ends. *)
Launch(p, command) ==
  /\ procs[p] = NoProgram
  /\ \A n \in DOMAIN matched : p \notin matched[n]
  /\ procs' = [procs EXCEPT ![p] = command]
  /\ UNCHANGED <<config, counters, daemon>>

Quit(p) ==
  /\ procs[p] # NoProgram
  /\ procs' = [procs EXCEPT ![p] = NoProgram]
  /\ UNCHANGED <<config, counters, daemon>>

EditConfig(c) ==
  /\ config # c
  /\ config' = c
  /\ UNCHANGED <<procs, counters, daemon>>

(* save() of a matcher with the example rule. *)
ExampleConfig(kind) == [kind |-> kind, rules |-> serialize({ExampleRule})]

(* The administrator takes the example as it is. *)
CopyExample ==
  /\ config.kind = "example"
  /\ config' = ExampleConfig("rules")
  /\ UNCHANGED <<procs, counters, daemon>>

(* The unit may be one that a counter already was in if the clock went     *)
(* back.                                                                   *)
UnitBegins ==
  /\ since' = [n \in Names |-> IF since[n] = "back" THEN "back" ELSE "unit"]
  /\ UNCHANGED <<world, level, daemon>>

ClockSetBack ==
  /\ since' = [n \in Names |-> "back"]
  /\ UNCHANGED <<world, level, daemon>>

World ==
  \/ \E p \in Pids : Quit(p) \/ \E command \in Commands : Launch(p, command)
  \/ \E c \in Configs : EditConfig(c)
  \/ CopyExample
  \/ UnitBegins
  \/ ClockSetBack

-----------------------------------------------------------------------------
(* The daemon.                                                             *)

(* An exception leaves the cycle, run() and the constructor, and ends the  *)
(* process; so does the call through a null pointer.                       *)
Down ==
  /\ pc' = "down"
  /\ m_matcher' = NoMatcher
  /\ matched' = NoMatches
  /\ rated' = NotRated
  /\ influxAdapter' = FALSE
  /\ todo' = {}

(* Without a file the constructor saves an example, if it can, and throws. *)
WriteExample ==
  /\ pc = "down"
  /\ config.kind = "absent"
  /\ config' = ExampleConfig("example")
  /\ UNCHANGED <<procs, counters, daemon>>

(* It also throws if the path is not a file; otherwise the first cycle     *)
(* begins.                                                                 *)
Construct ==
  /\ pc = "down"
  /\ config.kind \notin Missing
  /\ pc' = "load"
  /\ UNCHANGED <<world, counters, m_matcher, matched, rated, influxAdapter, todo>>

(* read_xml or get_child("rules") throws, or one of the elements is no rule. *)
LoadThrows ==
  \/ config.kind \in Missing \cup {"invalid"}
  \/ config.kind = "rules" /\ ~Readable(config.rules)

(* Mutant: the rules are only read by the first cycle. *)
Load_Once ==
  /\ pc = "load"
  /\ IF LoadThrows
     THEN Down
     ELSE /\ m_matcher' = IF config.kind = "rules" /\ m_matcher = NoMatcher
                          THEN deserialize(config.rules) ELSE m_matcher
          /\ pc' = "list"
          /\ UNCHANGED <<matched, rated, influxAdapter, todo>>
  /\ UNCHANGED <<world, counters>>

(* Without a matcher element the rules in memory stay. *)
Load ==
  /\ pc = "load"
  /\ IF LoadThrows
     THEN Down
     ELSE /\ m_matcher' = IF config.kind = "rules" THEN deserialize(config.rules)
                                                   ELSE m_matcher
          /\ pc' = "list"
          /\ UNCHANGED <<matched, rated, influxAdapter, todo>>
  /\ UNCHANGED <<world, counters>>

(* A process that goes away while it is listed can throw: see              *)
(* ListingSurvives of ProcessTermination.                                  *)
ListThrows ==
  /\ pc = "list" /\ "list" \in Faults
  /\ Down
  /\ UNCHANGED <<world, counters>>

(* The processes are listed and matched.  If no cycle has read rules yet   *)
(* m_matcher is null, which is undefined and ends the process.             *)
List ==
  /\ pc = "list"
  /\ IF m_matcher = NoMatcher
     THEN Down
     ELSE /\ matched' = matches(m_matcher, [p \in {q \in Pids : procs[q] # NoProgram} |-> procs[p]])
          /\ pc' = "rate"
          /\ UNCHANGED <<m_matcher, rated, influxAdapter, todo>>
  /\ UNCHANGED <<world, counters>>

(* The statistics file cannot be made or read: what the constructor of     *)
(* Statistics throws ends the daemon.                                      *)
RateThrows ==
  /\ pc = "rate" /\ "rate" \in Faults
  /\ Down
  /\ UNCHANGED <<world, counters>>

(* What doUpdate can make of a counter.  A clock that was set back may     *)
(* still be ahead of the last run.                                         *)
Updated(n) ==
  CASE since[n] = "run"  -> {k \in 0..Cap : k = level[n] \/ k = level[n] + 1}
                            \cup {k \in {Cap} : level[n] = Cap}
    [] since[n] = "unit" -> {0}
    [] since[n] = "back" -> {k \in 0..Cap : k <= level[n] + 1}

(* The counters of the matches are updated and saved, by a destructor that *)
(* catches what the save throws: then the file keeps the older ones.       *)
Rate ==
  /\ pc = "rate"
  /\ rated' \in [Names -> 0..Cap]
  /\ \A n \in Names :
       IF n \in DOMAIN matched THEN rated'[n] \in Updated(n) ELSE rated'[n] = level[n]
  /\ \/ /\ level' = rated'
        /\ since' = [n \in Names |-> IF n \in DOMAIN matched THEN "run" ELSE since[n]]
     \/ "save" \in Faults /\ UNCHANGED counters
  /\ pc' = "influx"
  /\ UNCHANGED <<world, m_matcher, matched, influxAdapter, todo>>

(* An adapter that is not there is made, which sends a first request; if   *)
(* no server answers that throws, there is none in this cycle and the next *)
(* one tries again.                                                        *)
MakeInfluxAdapter ==
  /\ pc = "influx"
  /\ influxAdapter' \in {influxAdapter, TRUE}
  /\ pc' = "insert"
  /\ UNCHANGED <<world, counters, m_matcher, matched, rated, todo>>

(* getRatio() > 1: a limit of 0 is no limit. *)
Exceeds(rule, levels) == rule.limit # 0 /\ levels[rule.name] > rule.limit

(* Mutant: whatever exceeds its limit, whatever the rule implies. *)
ToTerminate_Any ==
  UNION {matched[r.name] : r \in {m \in m_matcher :
    m.name \in DOMAIN matched /\ Exceeds(m, rated)}}

(* Mutant: one process of each match. *)
ToTerminate_One ==
  {CHOOSE p \in matched[r.name] : TRUE : r \in {m \in m_matcher :
    m.name \in DOMAIN matched /\ Exceeds(m, rated) /\ m.implication = "kill"}}

(* The processes of the matches that exceed the limit of a kill rule. *)
ToTerminate ==
  UNION {matched[r.name] : r \in {m \in m_matcher :
    m.name \in DOMAIN matched /\ Exceeds(m, rated) /\ m.implication = "kill"}}

(* No server answers the request of insert(), or it refuses a line: what   *)
(* that throws is not caught.                                              *)
InsertThrows ==
  /\ pc = "insert" /\ influxAdapter
  /\ Down
  /\ UNCHANGED <<world, counters>>

(* insert() sends a line for each match, and no server takes one with a    *)
(* name that breaks it; then the loop begins.                              *)
Insert ==
  /\ pc = "insert"
  /\ influxAdapter => DOMAIN matched \cap Unwritable = {}
  /\ todo' = ToTerminate
  /\ pc' = "enforce"
  /\ UNCHANGED <<world, counters, m_matcher, matched, rated, influxAdapter>>

(* Mutant: a process that terminates ends the loop instead of its turn. *)
Terminate_Break(p) ==
  /\ pc = "enforce" /\ p \in todo
  /\ todo' = {}
  /\ procs' = [procs EXCEPT ![p] = NoProgram]
  /\ UNCHANGED <<config, counters, pc, m_matcher, matched, rated, influxAdapter>>

(* terminateAndWait, and killAndWait if need be. *)
Terminate(p) ==
  /\ pc = "enforce" /\ p \in todo
  /\ todo' = todo \ {p}
  /\ procs' = [procs EXCEPT ![p] = NoProgram]
  /\ UNCHANGED <<config, counters, pc, m_matcher, matched, rated, influxAdapter>>

EndCycle ==
  /\ pc = "enforce" /\ todo = {}
  /\ pc' = "wait"
  /\ matched' = NoMatches
  /\ rated' = NotRated
  /\ UNCHANGED <<world, counters, m_matcher, influxAdapter, todo>>

(* The strategy calls the cycle again. *)
NextCycle ==
  /\ pc = "wait"
  /\ pc' = "load"
  /\ UNCHANGED <<world, counters, m_matcher, matched, rated, influxAdapter, todo>>

Cycle ==
  \/ Load \/ List \/ ListThrows \/ Rate \/ RateThrows
  \/ MakeInfluxAdapter \/ Insert \/ InsertThrows
  \/ \E p \in Pids : Terminate(p)
  \/ EndCycle \/ NextCycle

Next == World \/ WriteExample \/ Construct \/ Cycle

(* A daemon that runs goes on; nothing starts one that does not. *)
Spec == Init /\ [][Next]_vars /\ WF_vars(Cycle)

-----------------------------------------------------------------------------

TypeOK ==
  /\ procs \in [Pids -> Commands \cup {NoProgram}]
  /\ config \in Configs \cup {ExampleConfig("rules"), ExampleConfig("example")}
  /\ level \in [Names -> 0..Cap]
  /\ since \in [Names -> Clock]
  /\ pc \in PCs
  /\ m_matcher = NoMatcher \/ m_matcher \subseteq Rule
  /\ DOMAIN matched \subseteq Names
  /\ \A n \in DOMAIN matched : matched[n] \in (SUBSET Pids) \ {{}}
  /\ rated \in [Names -> 0..Cap]
  /\ influxAdapter \in BOOLEAN
  /\ todo \subseteq Pids

(* What save() makes of the rules in memory, load() makes the same rules   *)
(* of: nothing is lost by defaults or by rules of the same name, also for  *)
(* what the administrator copied from the example.  An empty matcher makes *)
(* a file that cannot be loaded.                                           *)
SavedIsLoaded ==
  m_matcher \notin {NoMatcher, {}} =>
    /\ Readable(serialize(m_matcher))
    /\ deserialize(serialize(m_matcher)) = m_matcher

(* Only what has to be ended is ended: the program of a process that the   *)
(* loop terminates is on the whitelist and not on the blacklist of a rule  *)
(* that implies kill and whose limit the counter of this cycle exceeds,    *)
(* whatever was edited, started or quit since the cycle began and whether  *)
(* or not the counter could be saved.                                      *)
OnlyExceedingAreTerminated ==
  [][\A p \in todo \ todo' :
       pc = "enforce" /\ procs[p] # NoProgram =>
         \E r \in m_matcher :
           /\ r.implication = "kill" /\ 0 < r.limit /\ r.limit < rated[r.name]
           /\ procs[p] \in r.white \ r.black]_vars

Abstract == INSTANCE Enforcement WITH
              alive <- {p \in Pids : procs[p] # NoProgram},
              match <- UNION {matched[n] : n \in DOMAIN matched},
              phase <- IF pc = "enforce" THEN "end" ELSE "match",
              due <- todo

(* The cycle keeps the promise that ProcessTermination implements in       *)
(* detail: it decides on nothing it did not match, ends all of what it     *)
(* decided on before the next cycle begins, and nothing else               *)
(* (CSessionController.cpp:83-119).                                        *)
ImplementsEnforcement == Abstract!Spec

(* Nothing that has to be ended is spared: when the loop is through, no    *)
(* process of any match runs a program that a kill rule with an exceeded   *)
(* limit matches, in however many matches it was and whichever came first. *)
NoneIsSpared ==
  pc = "enforce" /\ todo = {} =>
    \A n \in DOMAIN matched : \A p \in matched[n] : \A r \in m_matcher :
      r.implication = "kill" /\ 0 < r.limit /\ r.limit < rated[r.name]
        => procs[p] \notin r.white \ r.black

(* The kill rules of each file that can be loaded, and the files that have *)
(* one with a limit.                                                       *)
KillRules ==
  [c \in {d \in Configs : d.kind = "rules" /\ Readable(d.rules)} |->
     {r \in deserialize(c.rules) : r.implication = "kill"}]

Enforcing == {c \in DOMAIN KillRules : \E r \in KillRules[c] : r.limit # 0}

(* Process p runs a program that the file has a kill rule for, and the     *)
(* saved counter of that rule is over the limit, in the current unit and   *)
(* with a clock that was not set back.                                     *)
Overdue(p, c) ==
  /\ config = c
  /\ \E r \in KillRules[c] :
       /\ Exceeds(r, level) /\ since[r.name] = "run"
       /\ procs[p] \in r.white \ r.black

(* A daemon that runs ends what is overdue, however the world moves beside *)
(* its cycles and though saves fail, unless the file is edited, a unit     *)
(* begins, the clock is set back, the program quits or the daemon itself   *)
(* is ended.                                                               *)
EnforcedWhileUp ==
  \A p \in Pids, c \in Enforcing :
    pc # "down" /\ Overdue(p, c) ~> ~Overdue(p, c) \/ pc = "down"

(* README.md:4-5, "When limits get exceeded, processes ... will be         *)
(* terminated": nothing but the file, the user and the calendar keeps a    *)
(* running daemon from ending what is overdue.                             *)
LimitsAreEnforced ==
  \A p \in Pids, c \in Enforcing : pc # "down" /\ Overdue(p, c) ~> ~Overdue(p, c)

=============================================================================
