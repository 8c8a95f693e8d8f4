------------------------------ MODULE Matcher ------------------------------
(***************************************************************************)
(* Rules and matching (common/source/CMatchingRule.cpp, CMatcher.cpp): the *)
(* value of a CMatcher is a set of rules with different names.  A regular  *)
(* expression enters as the set of the command lines that it matches.      *)
(***************************************************************************)
EXTENDS Naturals, SequencesExt

CONSTANTS
  Names,     \* names of rules
  Commands   \* command lines

(* IMatchingRule::Implication *)
Implications == {"none", "warn", "kill"}

Rule == [name : Names, limit : Nat, implication : Implications,
         white : SUBSET Commands, black : SUBSET Commands]

(* The elements below rules are read in their order.  One is a rule if it  *)
(* has a name and both lists, and a known implication or none; any other,  *)
(* an XML comment for instance, throws.                                    *)
IsRule(element) ==
  /\ {"name", "white", "black"} \subseteq DOMAIN element
  /\ "implication" \in DOMAIN element => element.implication \in Implications

Readable(list) == \A i \in DOMAIN list : IsRule(list[i])

(* An element as a rule: without a limit, or with a text that is not a     *)
(* number, there is none; without an implication the rule warns.           *)
RuleOf(entry) ==
  [name |-> entry.name,
   limit |-> IF "limit" \in DOMAIN entry THEN entry.limit ELSE 0,
   implication |-> IF "implication" \in DOMAIN entry THEN entry.implication ELSE "warn",
   white |-> entry.white,
   black |-> entry.black]

(* CMatcher::deserialize: the rules of the file are added one by one.  The *)
(* set orders them by name and emplace keeps what is there, so that the    *)
(* first rule of a name is the one that counts.                            *)
deserialize(list) ==
  {RuleOf(list[i]) : i \in {i \in DOMAIN list : \A j \in 1..(i - 1) : list[j].name # list[i].name}}

(* Mutant: a rule that implies nothing is saved without its implication. *)
serialize_NoneIsDefault(rules) ==
  LET order == SetToSeq(rules)
  IN [i \in DOMAIN order |->
        IF order[i].implication = "none"
        THEN [name |-> order[i].name, limit |-> order[i].limit,
              white |-> order[i].white, black |-> order[i].black]
        ELSE order[i]]

(* CMatcher::serialize: a rule element with all its parts for each rule.   *)
(* Of no rules it makes no rules element, which deserialize cannot do      *)
(* without.                                                                *)
serialize(rules) ==
  LET order == SetToSeq(rules)
  IN [i \in DOMAIN order |->
        [name |-> order[i].name, limit |-> order[i].limit,
         implication |-> order[i].implication,
         white |-> order[i].white, black |-> order[i].black]]

(* CMatchingRule::matches *)
matchesCommand(rule, command) == command \in rule.white /\ command \notin rule.black

(* Mutant: rules without a process make a match, too. *)
matches_Empty(rules, commands) ==
  [name \in {r.name : r \in rules} |->
     {p \in DOMAIN commands :
        \E r \in rules : r.name = name /\ matchesCommand(r, commands[p])}]

(* CMatcher::matches: a match for each rule that matches some process.  A  *)
(* process can be in several matches.  commands maps pids to command lines.*)
matches(rules, commands) ==
  LET matching == {r \in rules : \E p \in DOMAIN commands : matchesCommand(r, commands[p])}
  IN [name \in {r.name : r \in matching} |->
        {p \in DOMAIN commands :
           \E r \in matching : r.name = name /\ matchesCommand(r, commands[p])}]

=============================================================================
