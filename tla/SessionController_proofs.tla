---------------------- MODULE SessionController_proofs ----------------------
(***************************************************************************)
(* What the session controller promises, for any rules, files, programs    *)
(* and processes.                                                          *)
(***************************************************************************)
EXTENDS SessionController, FiniteSetTheorems, TLAPS

-----------------------------------------------------------------------------
(* Saving and loading rules.                                               *)

(* What a CMatcher can hold: its set has one rule of a name.               *)
IsMatcher(rules) ==
  /\ rules \subseteq Rule
  /\ IsFiniteSet(rules)
  /\ \A r, s \in rules : r.name = s.name => r = s

(* A sequence of elements that the file may have below rules.              *)
IsList(list) ==
  /\ IsFiniteSet(DOMAIN list) /\ DOMAIN list \subseteq Nat \ {0}
  /\ \A i \in DOMAIN list : IsRule(list[i]) => RuleOf(list[i]) \in Rule

LEMMA OrderOfSet ==
  ASSUME NEW S, IsFiniteSet(S)
  PROVE  /\ Cardinality(S) \in Nat
         /\ DOMAIN SetToSeq(S) = 1..Cardinality(S)
         /\ \A i \in 1..Cardinality(S) : SetToSeq(S)[i] \in S
         /\ \A i, j \in 1..Cardinality(S) : SetToSeq(S)[i] = SetToSeq(S)[j] => i = j
         /\ \A x \in S : \E i \in 1..Cardinality(S) : SetToSeq(S)[i] = x
<1>1. PICK n \in Nat : n = Cardinality(S) /\ ExistsBijection(1..n, S)
  BY FS_CardinalityType
<1>2. PICK g : g \in Bijection(1..n, S)
  BY <1>1 DEF ExistsBijection
<1>3. g \in [1..n -> S] /\ IsInjective(g)
  BY <1>2 DEF Bijection, Injection
<1>4. PICK f : f = SetToSeq(S)
  OBVIOUS
<1>5. f \in [1..n -> S] /\ IsInjective(f)
  BY <1>1, <1>3, <1>4 DEF SetToSeq
<1>6. IsFiniteSet(1..n) /\ Cardinality(1..n) = n
  BY FS_Interval
<1>7. f \in Injection(1..n, S)
  BY <1>5 DEF Injection
<1>8. f \in Surjection(1..n, S)
  BY <1>1, <1>6, <1>7, FS_Injection
<1>9. \A x \in S : \E i \in 1..n : f[i] = x
  BY <1>8 DEF Surjection
<1> QED
  BY <1>1, <1>4, <1>5, <1>9 DEF IsInjective

LEMMA RuleIsItsParts ==
  ASSUME NEW r \in Rule
  PROVE  r = [name |-> r.name, limit |-> r.limit, implication |-> r.implication,
              white |-> r.white, black |-> r.black]
BY DEF Rule

(* The elements that serialize makes are the rules in some order.          *)
LEMMA SerializeOutcome ==
  ASSUME NEW rules, IsMatcher(rules)
  PROVE  /\ IsList(serialize(rules))
         /\ Readable(serialize(rules))
         /\ \E n \in Nat : DOMAIN serialize(rules) = 1..n
         /\ \A i \in DOMAIN serialize(rules) : serialize(rules)[i] \in rules
         /\ \A i, j \in DOMAIN serialize(rules) :
              serialize(rules)[i].name = serialize(rules)[j].name => i = j
         /\ \A r \in rules : \E i \in DOMAIN serialize(rules) : serialize(rules)[i] = r
         /\ \A i \in DOMAIN serialize(rules) : RuleOf(serialize(rules)[i]) = serialize(rules)[i]
<1>1. PICK n \in Nat : n = Cardinality(rules)
  BY FS_CardinalityType DEF IsMatcher
<1>2. PICK order : order = SetToSeq(rules)
  OBVIOUS
<1>3. /\ DOMAIN order = 1..n
      /\ \A i \in 1..n : order[i] \in rules
      /\ \A i, j \in 1..n : order[i] = order[j] => i = j
      /\ \A x \in rules : \E i \in 1..n : order[i] = x
  BY <1>1, <1>2, OrderOfSet DEF IsMatcher
<1>4. PICK list : list = serialize(rules)
  OBVIOUS
<1>5. list = [i \in DOMAIN order |->
                [name |-> order[i].name, limit |-> order[i].limit,
                 implication |-> order[i].implication,
                 white |-> order[i].white, black |-> order[i].black]]
  BY <1>2, <1>4 DEF serialize
<1>6. DOMAIN list = 1..n /\ \A i \in 1..n : list[i] = order[i]
  <2>1. ASSUME NEW i \in 1..n PROVE list[i] = order[i]
    <3>1. order[i] \in Rule
      BY <1>3 DEF IsMatcher
    <3> QED
      BY <1>3, <1>5, <3>1, RuleIsItsParts
  <2> QED
    BY <1>3, <1>5, <2>1
<1>7. ASSUME NEW r \in Rule
      PROVE  /\ IsRule(r) /\ RuleOf(r) = r
  <2>1. /\ DOMAIN r = {"name", "limit", "implication", "white", "black"}
        /\ r.implication \in Implications
    BY DEF Rule
  <2>2. IsRule(r)
    BY <2>1 DEF IsRule
  <2>3. RuleOf(r) = [name |-> r.name, limit |-> r.limit, implication |-> r.implication,
                     white |-> r.white, black |-> r.black]
    BY <2>1 DEF RuleOf
  <2> QED
    BY <2>2, <2>3, RuleIsItsParts
<1>8. \A i \in 1..n : list[i] \in Rule /\ list[i] \in rules
  BY <1>3, <1>6 DEF IsMatcher
<1>9. IsList(list)
  <2>1. IsFiniteSet(1..n) /\ 1..n \subseteq Nat \ {0}
    BY FS_Interval
  <2> QED
    BY <1>6, <1>7, <1>8, <2>1 DEF IsList
<1>10. Readable(list)
  BY <1>6, <1>7, <1>8 DEF Readable
<1>11. \A i, j \in 1..n : list[i].name = list[j].name => i = j
  BY <1>3, <1>6, <1>8 DEF IsMatcher
<1>12. \A r \in rules : \E i \in 1..n : list[i] = r
  BY <1>3, <1>6
<1> QED
  BY <1>4, <1>6, <1>7, <1>8, <1>9, <1>10, <1>11, <1>12

(* What is loaded has one rule of a name, the first of the list.           *)
LEMMA DeserializeOutcome ==
  ASSUME NEW list, IsList(list), Readable(list)
  PROVE  IsMatcher(deserialize(list))
<1> DEFINE First == {i \in DOMAIN list : \A j \in 1..(i - 1) : list[j].name # list[i].name}
           rules == deserialize(list)
           f == [i \in First |-> RuleOf(list[i])]
<1>1. rules = {RuleOf(list[i]) : i \in First}
  BY DEF deserialize
<1>2. rules \subseteq Rule
  BY <1>1 DEF IsList, Readable
<1>3. IsFiniteSet(rules)
  <2>1. IsFiniteSet(First)
    BY FS_Subset DEF IsList
  <2>2. f \in Surjection(First, rules)
    BY <1>1 DEF Surjection
  <2> HIDE DEF First, rules, f
  <2> QED
    BY <2>1, <2>2, FS_Surjection
<1>4. ASSUME NEW r \in rules, NEW s \in rules, r.name = s.name PROVE r = s
  <2>1. PICK i \in First : r = RuleOf(list[i])
    BY <1>1
  <2>2. PICK j \in First : s = RuleOf(list[j])
    BY <1>1
  <2>3. list[i].name = list[j].name
    BY <1>4, <2>1, <2>2 DEF RuleOf
  <2>4. i \in Nat \ {0} /\ j \in Nat \ {0}
    BY DEF IsList
  <2>5. ~(i < j) /\ ~(j < i)
    <3>1. i < j => i \in 1..(j - 1)
      BY <2>4
    <3>2. j < i => j \in 1..(i - 1)
      BY <2>4
    <3> QED
      BY <2>3, <3>1, <3>2
  <2> QED
    BY <2>1, <2>2, <2>4, <2>5
<1> QED
  BY <1>2, <1>3, <1>4 DEF IsMatcher

(* CMatcher::serialize and deserialize: a file that save() writes has      *)
(* exactly the rules that were in memory, for any set of rules.            *)
THEOREM RoundTrip ==
  ASSUME NEW rules, IsMatcher(rules)
  PROVE  Readable(serialize(rules)) /\ deserialize(serialize(rules)) = rules
<1> DEFINE list == serialize(rules)
<1>1. /\ IsList(list) /\ Readable(list)
      /\ \A i \in DOMAIN list : list[i] \in rules /\ RuleOf(list[i]) = list[i]
      /\ \A i, j \in DOMAIN list : list[i].name = list[j].name => i = j
      /\ \A r \in rules : \E i \in DOMAIN list : list[i] = r
  BY SerializeOutcome
<1>2. PICK n \in Nat : DOMAIN list = 1..n
  BY SerializeOutcome
<1> HIDE DEF list
<1>3. \A i \in 1..n : \A j \in 1..(i - 1) : list[j].name # list[i].name
  <2>1. ASSUME NEW i \in 1..n, NEW j \in 1..(i - 1) PROVE list[j].name # list[i].name
    <3>1. j \in 1..n /\ j # i
      OBVIOUS
    <3> QED
      BY <1>1, <1>2, <3>1
  <2> QED
    BY <2>1
<1>4. deserialize(list) = {RuleOf(list[i]) : i \in 1..n}
  BY <1>2, <1>3 DEF deserialize
<1>5. deserialize(list) = rules
  BY <1>1, <1>2, <1>4
<1> QED
  BY <1>1, <1>5 DEF list

-----------------------------------------------------------------------------
(* The cycle.                                                              *)

Matched == {"rate", "influx", "insert", "enforce"}

MatcherIsMatcher ==
  /\ m_matcher # NoMatcher => IsMatcher(m_matcher)
  /\ pc \in Matched => IsMatcher(m_matcher)

(* The pids of a match run what a rule of that name matches, or nothing.   *)
MatchesHold ==
  \A n \in DOMAIN matched : \A p \in matched[n] :
    procs[p] # NoProgram =>
      \E r \in m_matcher : r.name = n /\ procs[p] \in r.white \ r.black

(* Outside of a cycle nothing is matched.                                  *)
MatchesOfCycle == pc \notin Matched => DOMAIN matched = {}

(* The rules, the matches and the ratings are those todo was made of.      *)
TodoIsDue == pc = "enforce" => todo \subseteq ToTerminate

IInv == TypeOK /\ MatcherIsMatcher /\ MatchesHold /\ MatchesOfCycle /\ TodoIsDue

(* What the configuration file holds can be made into rules.               *)
LEMMA ConfigIsList ==
  ASSUME TypeOK, config.kind = "rules"
  PROVE  IsList(config.rules)
<1>1. CASE config \in Configs
  BY <1>1, ControllerAssumption DEF IsList
<1>2. CASE config \notin Configs
  <2>1. config.rules = serialize({ExampleRule})
    BY <1>2 DEF TypeOK, ExampleConfig
  <2>2. IsMatcher({ExampleRule})
    BY ControllerAssumption, FS_Singleton DEF IsMatcher
  <2> QED
    BY <2>1, <2>2, SerializeOutcome
<1> QED
  BY <1>1, <1>2

(* The matches are those of rules, and each has a process.                 *)
LEMMA MatchesOutcome ==
  ASSUME NEW rules, IsMatcher(rules), NEW ps, NEW commands, DOMAIN commands = ps
  PROVE  LET m == matches(rules, commands)
         IN /\ DOMAIN m \subseteq Names
            /\ \A n \in DOMAIN m :
                 /\ m[n] \subseteq ps /\ m[n] # {}
                 /\ \A p \in m[n] : \E r \in rules :
                      r.name = n /\ commands[p] \in r.white \ r.black
            /\ \A p \in ps : \A r \in rules :
                 commands[p] \in r.white \ r.black => r.name \in DOMAIN m /\ p \in m[r.name]
<1> DEFINE matching == {r \in rules : \E p \in DOMAIN commands : matchesCommand(r, commands[p])}
           m == matches(rules, commands)
<1>1. m = [name \in {r.name : r \in matching} |->
             {p \in DOMAIN commands :
                \E r \in matching : r.name = name /\ matchesCommand(r, commands[p])}]
  BY DEF matches
<1>2. \A r \in matching : r \in rules /\ r.name \in Names
  BY DEF IsMatcher, Rule
<1>3. \A r \in matching : \E p \in DOMAIN commands : matchesCommand(r, commands[p])
  OBVIOUS
<1> HIDE DEF matching, m
<1>4. ASSUME NEW n \in DOMAIN m
      PROVE  /\ m[n] \subseteq ps /\ m[n] # {}
             /\ \A p \in m[n] : \E r \in rules :
                  r.name = n /\ commands[p] \in r.white \ r.black
  <2>1. PICK r \in matching : r.name = n
    BY <1>1
  <2>2. m[n] = {p \in DOMAIN commands :
                  \E q \in matching : q.name = n /\ matchesCommand(q, commands[p])}
    BY <1>1
  <2> QED
    BY <1>2, <1>3, <2>1, <2>2 DEF matchesCommand
<1>5. DOMAIN m \subseteq Names
  BY <1>1, <1>2
<1>6. ASSUME NEW p \in ps, NEW r \in rules, commands[p] \in r.white \ r.black
      PROVE  r.name \in DOMAIN m /\ p \in m[r.name]
  <2>1. r \in matching /\ matchesCommand(r, commands[p])
    BY <1>6 DEF matching, matchesCommand
  <2> QED
    BY <1>1, <2>1
<1> QED
  BY <1>4, <1>5, <1>6 DEF m

LEMMA NothingRated == NotRated \in [Names -> 0..Cap] /\ DOMAIN NoMatches = {}
BY ControllerAssumption DEF NotRated, NoMatches

LEMMA InitIInv == Init => IInv
<1> SUFFICES ASSUME Init PROVE IInv
  OBVIOUS
<1>1. TypeOK
  <2>1. /\ procs \in [Pids -> Commands \cup {NoProgram}]
        /\ level \in [Names -> 0..Cap]
    BY ControllerAssumption DEF Init
  <2>2. since \in [Names -> Clock] /\ rated \in [Names -> 0..Cap]
    BY NothingRated DEF Init, Clock
  <2>3. config \in Configs \cup {ExampleConfig("rules"), ExampleConfig("example")}
    BY DEF Init
  <2>4. DOMAIN matched = {}
    BY DEF Init, NoMatches
  <2>5. influxAdapter \in BOOLEAN
    BY DEF Init
  <2>6. pc \in PCs /\ m_matcher = NoMatcher /\ todo \subseteq Pids
    BY DEF Init, PCs
  <2> QED
    BY <2>1, <2>2, <2>3, <2>4, <2>5, <2>6 DEF TypeOK
<1>2. MatcherIsMatcher /\ MatchesHold /\ MatchesOfCycle /\ TodoIsDue
  BY DEF Init, MatcherIsMatcher, MatchesHold, MatchesOfCycle, TodoIsDue, Matched, NoMatches
<1> QED
  BY <1>1, <1>2 DEF IInv

LEMMA WorldIInv == IInv /\ World => IInv'
<1> SUFFICES ASSUME IInv, World PROVE IInv'
  OBVIOUS
<1> USE DEF IInv, world, counters, daemon
<1>1. ASSUME NEW p \in Pids, NEW command \in Commands, Launch(p, command) PROVE IInv'
  <2>1. /\ UNCHANGED <<config, counters, daemon>>
        /\ \A n \in DOMAIN matched : \A q \in matched[n] : procs'[q] = procs[q]
        /\ procs' \in [Pids -> Commands \cup {NoProgram}]
    BY <1>1 DEF Launch, TypeOK
  <2>2. TypeOK'
    BY <2>1 DEF TypeOK
  <2>3. MatchesHold'
    BY <2>1 DEF MatchesHold
  <2> QED
    BY <2>1, <2>2, <2>3 DEF MatcherIsMatcher, MatchesOfCycle, TodoIsDue, ToTerminate, Exceeds
<1>2. ASSUME NEW p \in Pids, Quit(p) PROVE IInv'
  <2>1. /\ UNCHANGED <<config, counters, daemon>>
        /\ \A q \in Pids : procs'[q] # NoProgram => procs'[q] = procs[q]
        /\ procs' \in [Pids -> Commands \cup {NoProgram}]
    BY <1>2 DEF Quit, TypeOK
  <2>2. TypeOK'
    BY <2>1 DEF TypeOK
  <2>3. MatchesHold'
    BY <2>1 DEF MatchesHold, TypeOK
  <2> QED
    BY <2>1, <2>2, <2>3 DEF MatcherIsMatcher, MatchesOfCycle, TodoIsDue, ToTerminate, Exceeds
<1>3. ASSUME \/ \E c \in Configs : EditConfig(c)
             \/ CopyExample \/ UnitBegins \/ ClockSetBack
      PROVE  IInv'
  <2>1. /\ config' \in Configs \cup {ExampleConfig("rules"), ExampleConfig("example")}
        /\ since' \in [Names -> Clock]
        /\ UNCHANGED <<procs, level, daemon>>
    BY <1>3 DEF EditConfig, CopyExample, UnitBegins, ClockSetBack, TypeOK, Clock
  <2>2. TypeOK'
    BY <2>1 DEF TypeOK, ExampleConfig
  <2> QED
    BY <2>1, <2>2 DEF MatcherIsMatcher, MatchesHold, MatchesOfCycle, TodoIsDue,
                      ToTerminate, Exceeds
<1> QED
  BY <1>1, <1>2, <1>3 DEF World

LEMMA DownIInv == IInv /\ Down /\ UNCHANGED <<world, counters>> => IInv'
<1> SUFFICES ASSUME IInv, Down, UNCHANGED <<world, counters>> PROVE IInv'
  OBVIOUS
<1> USE DEF IInv, Down, world, counters
<1>1. TypeOK'
  BY NothingRated DEF TypeOK, PCs, ExampleConfig
<1> QED
  BY <1>1 DEF MatcherIsMatcher, MatchesHold, MatchesOfCycle, TodoIsDue, Matched, NoMatches

LEMMA StartIInv == IInv /\ (WriteExample \/ Construct) => IInv'
<1> SUFFICES ASSUME IInv, WriteExample \/ Construct PROVE IInv'
  OBVIOUS
<1> USE DEF IInv, world, counters, daemon
<1>1. /\ config' \in Configs \cup {ExampleConfig("rules"), ExampleConfig("example")}
      /\ UNCHANGED <<procs, counters, m_matcher, matched, rated, influxAdapter, todo>>
      /\ pc = "down" /\ pc' \in {"down", "load"}
  BY DEF WriteExample, Construct, TypeOK
<1>2. TypeOK'
  BY <1>1 DEF TypeOK, PCs, ExampleConfig
<1> QED
  BY <1>1, <1>2 DEF MatcherIsMatcher, MatchesHold, MatchesOfCycle, TodoIsDue, Matched

LEMMA CycleIInv == IInv /\ Cycle => IInv'
<1> SUFFICES ASSUME IInv, Cycle PROVE IInv'
  OBVIOUS
<1> USE DEF IInv, world, counters, PCs, Matched
<1>1. CASE Load
  <2>1. CASE LoadThrows
    BY <1>1, <2>1, DownIInv DEF Load
  <2>2. CASE ~LoadThrows
    <3>1. /\ pc = "load" /\ pc' = "list"
          /\ UNCHANGED <<world, counters, matched, rated, influxAdapter, todo>>
          /\ m_matcher' = IF config.kind = "rules" THEN deserialize(config.rules) ELSE m_matcher
      BY <1>1, <2>2 DEF Load
    <3>2. config.kind = "rules" => IsMatcher(deserialize(config.rules))
      BY <2>2, ConfigIsList, DeserializeOutcome DEF LoadThrows
    <3>3. m_matcher' # NoMatcher => IsMatcher(m_matcher')
      BY <3>1, <3>2 DEF MatcherIsMatcher
    <3>4. m_matcher' = NoMatcher \/ m_matcher' \subseteq Rule
      BY <3>3 DEF IsMatcher
    <3>5. TypeOK'
      BY <3>1, <3>4 DEF TypeOK, ExampleConfig
    <3> QED
      BY <3>1, <3>3, <3>5 DEF MatcherIsMatcher, MatchesHold, MatchesOfCycle, TodoIsDue
  <2> QED
    BY <2>1, <2>2
<1>2. CASE ListThrows \/ RateThrows \/ InsertThrows
  BY <1>2, DownIInv DEF ListThrows, RateThrows, InsertThrows
<1>3. CASE List
  <2>1. CASE m_matcher = NoMatcher
    BY <1>3, <2>1, DownIInv DEF List
  <2>2. CASE m_matcher # NoMatcher
    <3> DEFINE running == {q \in Pids : procs[q] # NoProgram}
               commands == [p \in running |-> procs[p]]
    <3>1. /\ pc' = "rate" /\ UNCHANGED <<world, counters, m_matcher, rated, influxAdapter, todo>>
          /\ matched' = matches(m_matcher, commands)
      BY <1>3, <2>2 DEF List
    <3>2. IsMatcher(m_matcher)
      BY <2>2 DEF MatcherIsMatcher
    <3>3. /\ DOMAIN matched' \subseteq Names
          /\ \A n \in DOMAIN matched' :
               /\ matched'[n] \subseteq running /\ matched'[n] # {}
               /\ \A p \in matched'[n] : \E r \in m_matcher :
                    r.name = n /\ commands[p] \in r.white \ r.black
      <4>1. DOMAIN commands = running
        OBVIOUS
      <4> HIDE DEF commands, running
      <4> QED
        BY <3>1, <3>2, <4>1, MatchesOutcome
    <3>4. TypeOK'
      BY <3>1, <3>3 DEF TypeOK, ExampleConfig
    <3>5. MatchesHold'
      BY <3>1, <3>3 DEF MatchesHold
    <3> QED
      BY <3>1, <3>2, <3>4, <3>5 DEF MatcherIsMatcher, MatchesOfCycle, TodoIsDue
  <2> QED
    BY <2>1, <2>2
<1>4. CASE Rate
  <2>1. /\ pc = "rate" /\ pc' = "influx"
        /\ UNCHANGED <<world, m_matcher, matched, influxAdapter, todo>>
        /\ rated' \in [Names -> 0..Cap] /\ level' \in [Names -> 0..Cap]
        /\ since' \in [Names -> Clock]
    BY <1>4 DEF Rate, TypeOK, Clock
  <2>2. TypeOK'
    BY <2>1 DEF TypeOK, ExampleConfig
  <2> QED
    BY <2>1, <2>2 DEF MatcherIsMatcher, MatchesHold, MatchesOfCycle, TodoIsDue
<1>5. CASE MakeInfluxAdapter
  <2>1. /\ pc = "influx" /\ pc' = "insert" /\ influxAdapter' \in BOOLEAN
        /\ UNCHANGED <<world, counters, m_matcher, matched, rated, todo>>
    BY <1>5 DEF MakeInfluxAdapter, TypeOK
  <2>2. TypeOK'
    BY <2>1 DEF TypeOK, ExampleConfig
  <2> QED
    BY <2>1, <2>2 DEF MatcherIsMatcher, MatchesHold, MatchesOfCycle, TodoIsDue
<1>6. CASE Insert
  <2>1. /\ pc = "insert" /\ pc' = "enforce" /\ todo' = ToTerminate
        /\ UNCHANGED <<world, counters, m_matcher, matched, rated, influxAdapter>>
    BY <1>6 DEF Insert
  <2>2. ToTerminate' = ToTerminate
    BY <2>1 DEF ToTerminate, Exceeds
  <2>3. ToTerminate \subseteq Pids
    BY DEF ToTerminate, TypeOK
  <2>4. TypeOK'
    BY <2>1, <2>3 DEF TypeOK, ExampleConfig
  <2> QED
    BY <2>1, <2>2, <2>4 DEF MatcherIsMatcher, MatchesHold, MatchesOfCycle, TodoIsDue
<1>7. ASSUME NEW p \in Pids, Terminate(p) PROVE IInv'
  <2>1. /\ pc = "enforce" /\ todo' \subseteq todo
        /\ UNCHANGED <<config, counters, pc, m_matcher, matched, rated, influxAdapter>>
        /\ \A q \in Pids : procs'[q] # NoProgram => procs'[q] = procs[q]
        /\ procs' \in [Pids -> Commands \cup {NoProgram}]
    BY <1>7 DEF Terminate, TypeOK
  <2>2. TypeOK'
    BY <2>1 DEF TypeOK, ExampleConfig
  <2>3. MatchesHold'
    BY <2>1 DEF MatchesHold, TypeOK
  <2>4. TodoIsDue'
    BY <2>1 DEF TodoIsDue, ToTerminate, Exceeds
  <2> QED
    BY <2>1, <2>2, <2>3, <2>4 DEF MatcherIsMatcher, MatchesOfCycle
<1>8. CASE EndCycle
  <2>1. TypeOK'
    BY <1>8, NothingRated DEF EndCycle, TypeOK, ExampleConfig
  <2> QED
    BY <1>8, <2>1 DEF EndCycle, MatcherIsMatcher, MatchesHold, MatchesOfCycle, TodoIsDue, NoMatches
<1>9. CASE NextCycle
  <2>1. TypeOK'
    BY <1>9 DEF NextCycle, TypeOK, ExampleConfig
  <2> QED
    BY <1>9, <2>1 DEF NextCycle, MatcherIsMatcher, MatchesHold, MatchesOfCycle, TodoIsDue
<1> QED
  BY <1>1, <1>2, <1>3, <1>4, <1>5, <1>6, <1>7, <1>8, <1>9 DEF Cycle

LEMMA NextIInv == IInv /\ [Next]_vars => IInv'
<1>1. IInv /\ UNCHANGED vars => IInv'
  BY DEF vars, IInv, TypeOK, MatcherIsMatcher, MatchesHold, MatchesOfCycle, TodoIsDue,
         ToTerminate, Exceeds, ExampleConfig
<1> QED
  BY <1>1, WorldIInv, StartIInv, CycleIInv DEF Next

LEMMA SpecIInv == Spec => []IInv
BY InitIInv, NextIInv, PTL DEF Spec

(* The state of the world and of the daemon keeps its types.               *)
THEOREM TypeCorrect == Spec => []TypeOK
<1>1. IInv => TypeOK
  BY DEF IInv
<1> QED
  BY <1>1, SpecIInv, PTL

(* The rules in memory survive save() and load(), for any set of rules.    *)
THEOREM RulesAreSaved == Spec => []SavedIsLoaded
<1>1. IInv => SavedIsLoaded
  BY RoundTrip DEF IInv, MatcherIsMatcher, SavedIsLoaded
<1> QED
  BY <1>1, SpecIInv, PTL

(* CSessionController ends only what a kill rule whose limit is exceeded   *)
(* matches, for any rules and any changes of the world during the cycle.   *)
THEOREM NoneIsEndedWithoutCause == Spec => OnlyExceedingAreTerminated
<1>1. IInv /\ [Next]_vars =>
        [\A p \in todo \ todo' :
           pc = "enforce" /\ procs[p] # NoProgram =>
             \E r \in m_matcher :
               /\ r.implication = "kill" /\ 0 < r.limit /\ r.limit < rated[r.name]
               /\ procs[p] \in r.white \ r.black]_vars
  <2> SUFFICES ASSUME IInv, Next, NEW p \in todo \ todo', pc = "enforce", procs[p] # NoProgram
               PROVE  \E r \in m_matcher :
                        /\ r.implication = "kill" /\ 0 < r.limit /\ r.limit < rated[r.name]
                        /\ procs[p] \in r.white \ r.black
    BY DEF vars
  <2>1. PICK r \in m_matcher : /\ r.name \in DOMAIN matched /\ p \in matched[r.name]
                               /\ Exceeds(r, rated) /\ r.implication = "kill"
    BY DEF IInv, TodoIsDue, ToTerminate
  <2>2. PICK s \in m_matcher : s.name = r.name /\ procs[p] \in s.white \ s.black
    BY <2>1 DEF IInv, MatchesHold
  <2>3. IsMatcher(m_matcher)
    BY DEF IInv, MatcherIsMatcher, Matched
  <2>4. r = s /\ r \in Rule
    BY <2>2, <2>3 DEF IsMatcher
  <2>5. 0 < r.limit /\ r.limit < rated[r.name]
    <3>1. r.limit \in Nat /\ r.name \in Names
      BY <2>4 DEF Rule
    <3>2. rated[r.name] \in Nat
      BY <3>1, ControllerAssumption DEF IInv, TypeOK
    <3> QED
      BY <2>1, <3>1, <3>2 DEF Exceeds
  <2> QED
    BY <2>1, <2>2, <2>4, <2>5
<1> QED
  BY <1>1, SpecIInv, PTL DEF Spec, OnlyExceedingAreTerminated

-----------------------------------------------------------------------------
(* What the loop leaves behind.                                            *)

(* A pid that some rule matched is in the match of every rule for its      *)
(* program.                                                                *)
MatchesAreAll ==
  \A n \in DOMAIN matched : \A p \in matched[n] : \A r \in m_matcher :
    procs[p] \in r.white \ r.black => r.name \in DOMAIN matched /\ p \in matched[r.name]

(* What had to be terminated and has had its turn is gone; outside of the  *)
(* loop nothing waits for its turn.                                        *)
EndedAreGone == pc = "enforce" => \A p \in ToTerminate \ todo : procs[p] = NoProgram

TodoIsOfLoop == pc # "enforce" => todo = {}

LoopInv == MatchesAreAll /\ EndedAreGone /\ TodoIsOfLoop

LEMMA InitLoopInv == Init => LoopInv
BY DEF Init, LoopInv, MatchesAreAll, EndedAreGone, TodoIsOfLoop, NoMatches

LEMMA WorldLoopInv == IInv /\ LoopInv /\ World => LoopInv'
<1> SUFFICES ASSUME IInv, LoopInv, World PROVE LoopInv'
  OBVIOUS
<1>1. UNCHANGED daemon
  BY DEF World, Launch, Quit, EditConfig, CopyExample, UnitBegins, ClockSetBack, world, counters
<1>2. \A n \in DOMAIN matched : \A p \in matched[n] : procs'[p] \in {procs[p], NoProgram}
  <2>1. \A n \in DOMAIN matched : matched[n] \subseteq Pids
    BY DEF IInv, TypeOK
  <2>2. CASE UNCHANGED procs
    BY <2>2
  <2>3. ASSUME NEW p \in Pids, Quit(p) PROVE \A q \in Pids : procs'[q] \in {procs[q], NoProgram}
    BY <2>3 DEF Quit, IInv, TypeOK
  <2>4. ASSUME NEW p \in Pids, NEW command \in Commands, Launch(p, command)
        PROVE  \A n \in DOMAIN matched : \A q \in matched[n] : procs'[q] = procs[q]
    BY <2>1, <2>4 DEF Launch, IInv, TypeOK
  <2> QED
    BY <2>1, <2>2, <2>3, <2>4 DEF World, EditConfig, CopyExample, UnitBegins, ClockSetBack, world
<1>3. \A r \in m_matcher : DOMAIN matched # {} => NoProgram \notin r.white
  <2>1. DOMAIN matched # {} => m_matcher \subseteq Rule
    BY DEF IInv, MatchesOfCycle, MatcherIsMatcher, IsMatcher
  <2> QED
    BY <2>1, ControllerAssumption DEF Rule
<1>4. MatchesAreAll'
  BY <1>1, <1>2, <1>3 DEF daemon, LoopInv, MatchesAreAll
<1>5. ToTerminate' = ToTerminate
  BY <1>1 DEF daemon, ToTerminate, Exceeds
<1>6. \A p \in ToTerminate : procs[p] = NoProgram => procs'[p] = NoProgram
  BY <1>2 DEF ToTerminate
<1>7. EndedAreGone'
  BY <1>1, <1>5, <1>6 DEF daemon, LoopInv, EndedAreGone
<1> QED
  BY <1>1, <1>4, <1>7 DEF daemon, LoopInv, TodoIsOfLoop

LEMMA DaemonLoopInv == IInv /\ LoopInv /\ (WriteExample \/ Construct \/ Cycle) => LoopInv'
<1> SUFFICES ASSUME IInv, LoopInv, WriteExample \/ Construct \/ Cycle PROVE LoopInv'
  OBVIOUS
<1> USE DEF world, counters, LoopInv
<1>1. Down => LoopInv'
  BY DEF Down, MatchesAreAll, EndedAreGone, TodoIsOfLoop, NoMatches
<1>2. CASE \/ WriteExample \/ Construct \/ NextCycle \/ Rate \/ MakeInfluxAdapter
  <2>1. UNCHANGED <<procs, m_matcher, matched, todo>> /\ pc # "enforce" /\ pc' # "enforce"
    BY <1>2 DEF WriteExample, Construct, NextCycle, Rate, MakeInfluxAdapter, daemon
  <2> QED
    BY <2>1 DEF MatchesAreAll, EndedAreGone, TodoIsOfLoop
<1>3. CASE Load /\ ~LoadThrows
  <2>1. DOMAIN matched = {} /\ UNCHANGED <<matched, todo>> /\ pc # "enforce" /\ pc' # "enforce"
    BY <1>3 DEF Load, IInv, MatchesOfCycle, Matched
  <2> QED
    BY <2>1 DEF MatchesAreAll, EndedAreGone, TodoIsOfLoop
<1>4. CASE List /\ m_matcher # NoMatcher
  <2> DEFINE running == {q \in Pids : procs[q] # NoProgram}
             commands == [p \in running |-> procs[p]]
  <2>1. /\ pc # "enforce" /\ pc' # "enforce" /\ UNCHANGED <<procs, m_matcher, todo>>
        /\ matched' = matches(m_matcher, commands)
    BY <1>4 DEF List
  <2>2. IsMatcher(m_matcher) /\ DOMAIN commands = running
    BY <1>4 DEF IInv, MatcherIsMatcher
  <2>3. \A p \in running : commands[p] = procs[p]
    OBVIOUS
  <2> HIDE DEF commands, running
  <2>4. /\ \A n \in DOMAIN matched' : matched'[n] \subseteq running
        /\ \A p \in running : \A r \in m_matcher :
             commands[p] \in r.white \ r.black
               => r.name \in DOMAIN matched' /\ p \in matched'[r.name]
    BY <2>1, <2>2, MatchesOutcome
  <2> QED
    BY <2>1, <2>3, <2>4 DEF MatchesAreAll, EndedAreGone, TodoIsOfLoop
<1>5. CASE Insert
  <2>1. pc' = "enforce" /\ todo' = ToTerminate /\ UNCHANGED <<procs, rated, m_matcher, matched>>
    BY <1>5 DEF Insert
  <2>2. ToTerminate' = ToTerminate
    BY <2>1 DEF ToTerminate, Exceeds
  <2> QED
    BY <2>1, <2>2 DEF MatchesAreAll, EndedAreGone, TodoIsOfLoop
<1>6. ASSUME NEW p \in Pids, Terminate(p) PROVE LoopInv'
  <2>1. /\ todo' = todo \ {p} /\ pc = "enforce" /\ pc' = "enforce"
        /\ UNCHANGED <<rated, m_matcher, matched>>
        /\ \A q \in Pids : procs'[q] = IF q = p THEN NoProgram ELSE procs[q]
    BY <1>6 DEF Terminate, IInv, TypeOK
  <2>2. ToTerminate' = ToTerminate /\ ToTerminate \subseteq Pids
    BY <2>1 DEF ToTerminate, Exceeds, IInv, TypeOK
  <2>3. \A r \in m_matcher : NoProgram \notin r.white
    BY <2>1, ControllerAssumption DEF IInv, MatcherIsMatcher, Matched, IsMatcher, Rule
  <2>4. \A n \in DOMAIN matched : matched[n] \subseteq Pids
    BY DEF IInv, TypeOK
  <2>5. MatchesAreAll'
    BY <2>1, <2>3, <2>4 DEF MatchesAreAll
  <2>6. EndedAreGone'
    BY <2>1, <2>2 DEF EndedAreGone
  <2> QED
    BY <2>1, <2>5, <2>6 DEF TodoIsOfLoop
<1>7. CASE EndCycle
  BY <1>7 DEF EndCycle, MatchesAreAll, EndedAreGone, TodoIsOfLoop, NoMatches
<1> QED
  BY <1>1, <1>2, <1>3, <1>4, <1>5, <1>6, <1>7
     DEF Cycle, Load, ListThrows, List, RateThrows, InsertThrows

LEMMA SpecLoopInv == Spec => []LoopInv
<1>1. LoopInv /\ UNCHANGED vars => LoopInv'
  BY DEF vars, LoopInv, MatchesAreAll, EndedAreGone, TodoIsOfLoop, ToTerminate, Exceeds
<1>2. IInv /\ LoopInv /\ [Next]_vars => LoopInv'
  BY <1>1, WorldLoopInv, DaemonLoopInv DEF Next
<1> QED
  BY <1>2, InitLoopInv, SpecIInv, PTL DEF Spec

(* The loop of CSessionController.cpp:100-119 ends all that a kill rule    *)
(* whose limit is exceeded matches, for any rules and processes.           *)
THEOREM AllThatExceedsIsEnded == Spec => []NoneIsSpared
<1>1. IInv /\ LoopInv => NoneIsSpared
  <2> SUFFICES ASSUME IInv, LoopInv, pc = "enforce", todo = {},
                      NEW n \in DOMAIN matched, NEW p \in matched[n], NEW r \in m_matcher,
                      r.implication = "kill", 0 < r.limit, r.limit < rated[r.name],
                      procs[p] \in r.white \ r.black
               PROVE  FALSE
    BY DEF NoneIsSpared
  <2>1. r.name \in DOMAIN matched /\ p \in matched[r.name]
    BY DEF LoopInv, MatchesAreAll
  <2>2. r \in Rule
    BY DEF IInv, MatcherIsMatcher, Matched, IsMatcher
  <2>3. Exceeds(r, rated)
    <3>1. r.limit \in Nat /\ r.name \in Names
      BY <2>2 DEF Rule
    <3>2. rated[r.name] \in Nat
      BY <3>1, ControllerAssumption DEF IInv, TypeOK
    <3> QED
      BY <3>1, <3>2 DEF Exceeds
  <2>4. p \in ToTerminate
    BY <2>1, <2>3 DEF ToTerminate
  <2>5. procs[p] = NoProgram
    BY <2>4 DEF LoopInv, EndedAreGone
  <2> QED
    BY <2>2, <2>5, ControllerAssumption DEF Rule
<1> QED
  BY <1>1, SpecIInv, SpecLoopInv, PTL

-----------------------------------------------------------------------------
(* The cycle implements Enforcement.                                       *)

Running == {p \in Pids : procs[p] # NoProgram}
AllMatched == UNION {matched[n] : n \in DOMAIN matched}
Phase == IF pc = "enforce" THEN "end" ELSE "match"

LEMMA AbstractStep ==
  /\ Abstract!Init <=> Running \in SUBSET Pids /\ AllMatched = {} /\ todo = {} /\ Phase = "match"
  /\ UNCHANGED <<Running, AllMatched, Phase, todo>> => UNCHANGED Abstract!vars
BY DEF Abstract!Init, Abstract!vars, Running, AllMatched, Phase

LEMMA RefinesInit == Init => Abstract!Init
BY AbstractStep DEF Init, Running, AllMatched, Phase, NoMatches

LEMMA RefinesWorld == IInv /\ LoopInv /\ World => Abstract!Next \/ UNCHANGED Abstract!vars
<1> SUFFICES ASSUME IInv, LoopInv, World PROVE Abstract!Next \/ UNCHANGED Abstract!vars
  OBVIOUS
<1>1. UNCHANGED <<AllMatched, Phase, todo>>
  BY DEF World, Launch, Quit, EditConfig, CopyExample, UnitBegins, ClockSetBack,
         daemon, AllMatched, Phase
<1>2. ASSUME NEW p \in Pids, NEW command \in Commands, Launch(p, command)
      PROVE  Abstract!Next
  <2>1. p \notin Running /\ p \notin AllMatched
    BY <1>2 DEF Launch, Running, AllMatched
  <2>2. Running' = Running \cup {p}
    BY <1>2, ControllerAssumption DEF Launch, Running, IInv, TypeOK
  <2>3. Abstract!Start(p)
    BY <1>1, <2>1, <2>2 DEF Abstract!Start, Running, AllMatched, Phase
  <2> QED
    BY <2>3 DEF Abstract!Next
<1>3. ASSUME NEW p \in Pids, Quit(p) PROVE Abstract!Next
  <2>1. Running' = Running \ {p}
    BY <1>3 DEF Quit, Running, IInv, TypeOK
  <2>2. Abstract!Leave(p)
    BY <1>1, <2>1 DEF Abstract!Leave, Running, AllMatched, Phase
  <2> QED
    BY <2>2 DEF Abstract!Next
<1>4. CASE UNCHANGED procs
  BY <1>1, <1>4, AbstractStep DEF Running
<1> QED
  BY <1>2, <1>3, <1>4 DEF World, EditConfig, CopyExample, UnitBegins, ClockSetBack, world

LEMMA RefinesDaemon ==
  IInv /\ LoopInv /\ (WriteExample \/ Construct \/ Cycle) => Abstract!Next \/ UNCHANGED Abstract!vars
<1> SUFFICES ASSUME IInv, LoopInv, WriteExample \/ Construct \/ Cycle
             PROVE  Abstract!Next \/ UNCHANGED Abstract!vars
  OBVIOUS
<1> USE DEF world, counters
<1>1. ASSUME Down, pc # "enforce", UNCHANGED procs PROVE Abstract!Next
  <2>1. AllMatched' = {} /\ UNCHANGED Running /\ todo = {} /\ todo' = {}
    BY <1>1 DEF Down, AllMatched, NoMatches, Running, LoopInv, TodoIsOfLoop
  <2>2. Abstract!Abort
    BY <1>1, <2>1 DEF Abstract!Abort, Down, Running, AllMatched, Phase
  <2> QED
    BY <2>2 DEF Abstract!Next
<1>2. CASE \/ WriteExample \/ Construct \/ NextCycle \/ Rate \/ MakeInfluxAdapter
           \/ Load /\ ~LoadThrows
  <2>1. UNCHANGED <<procs, matched, todo>> /\ pc # "enforce" /\ pc' # "enforce"
    BY <1>2 DEF WriteExample, Construct, NextCycle, Rate, MakeInfluxAdapter, Load, daemon
  <2> QED
    BY <2>1, AbstractStep DEF Running, AllMatched, Phase
<1>3. CASE List /\ m_matcher # NoMatcher
  <2>1. AllMatched = {} /\ Phase = "match"
    BY <1>3 DEF List, IInv, MatchesOfCycle, Matched, AllMatched, Phase
  <2>2. UNCHANGED <<Running, todo, Phase>>
    BY <1>3 DEF List, Running, Phase
  <2>3. AllMatched' \in SUBSET Pids
    <3>1. IInv'
      BY NextIInv DEF Next
    <3> QED
      BY <3>1 DEF IInv, TypeOK, AllMatched
  <2>4. PICK pids \in SUBSET Pids : pids = AllMatched'
    BY <2>3
  <2>5. AllMatched' = AllMatched \cup pids
    BY <2>1, <2>4
  <2>6. Abstract!Match(pids)
    BY <2>1, <2>2, <2>5 DEF Abstract!Match, Running, AllMatched, Phase
  <2> QED
    BY <2>6 DEF Abstract!Next
<1>4. CASE Insert
  <2>1. ToTerminate \subseteq AllMatched /\ ToTerminate \in SUBSET Pids
    BY DEF ToTerminate, AllMatched, IInv, TypeOK
  <2>2. /\ Phase = "match" /\ Phase' = "end" /\ todo' = ToTerminate
        /\ UNCHANGED <<Running, AllMatched>>
    BY <1>4 DEF Insert, Phase, Running, AllMatched
  <2>3. Abstract!Decide(ToTerminate)
    BY <2>1, <2>2 DEF Abstract!Decide, Running, AllMatched, Phase
  <2> QED
    BY <2>1, <2>3 DEF Abstract!Next
<1>5. ASSUME NEW p \in Pids, Terminate(p) PROVE Abstract!Next
  <2>1. Running' = Running \ {p}
    BY <1>5 DEF Terminate, Running, IInv, TypeOK
  <2>2. p \in todo /\ todo' = todo \ {p} /\ UNCHANGED <<AllMatched, Phase>>
    BY <1>5 DEF Terminate, AllMatched, Phase
  <2>3. Abstract!End(p)
    BY <2>1, <2>2 DEF Abstract!End, Running, AllMatched, Phase
  <2> QED
    BY <2>3 DEF Abstract!Next
<1>6. CASE EndCycle
  <2>1. /\ Phase = "end" /\ Phase' = "match" /\ todo = {} /\ AllMatched' = {}
        /\ UNCHANGED <<Running, todo>>
    BY <1>6 DEF EndCycle, Phase, AllMatched, Running, NoMatches
  <2>2. Abstract!Finish
    BY <2>1 DEF Abstract!Finish, Running, AllMatched, Phase
  <2> QED
    BY <2>2 DEF Abstract!Next
<1> QED
  BY <1>1, <1>2, <1>3, <1>4, <1>5, <1>6
     DEF Cycle, Load, ListThrows, List, RateThrows, InsertThrows

(* For any rules, files and processes the cycle of CSessionController is a *)
(* run of Enforcement, as the termination loop is.                         *)
THEOREM CycleEnforces == Spec => ImplementsEnforcement
<1>1. IInv /\ LoopInv /\ [Next]_vars => [Abstract!Next]_(Abstract!vars)
  <2>1. UNCHANGED vars => UNCHANGED <<Running, AllMatched, Phase, todo>>
    BY DEF vars, Running, AllMatched, Phase
  <2> QED
    BY <2>1, AbstractStep, RefinesWorld, RefinesDaemon DEF Next
<1> QED
  BY <1>1, RefinesInit, SpecIInv, SpecLoopInv, PTL DEF Spec, ImplementsEnforcement, Abstract!Spec

=============================================================================
