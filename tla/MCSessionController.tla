------------------------ MODULE MCSessionController ------------------------
(* Two processes and two programs.  Both files have two rules of the name  *)
(* game, of which the first counts: the one without a limit, loose, is the *)
(* first in the second file.  tool has no implication and so only warns.   *)
(* The third file has a comment between its rules, the example's rule      *)
(* matches no program, and tool is no word in the line protocol.           *)
EXTENDS SessionController

game == [name |-> "game", limit |-> 1, implication |-> "kill",
         white |-> {"java game", "java editor"}, black |-> {"java editor"}]
loose == [name |-> "game", implication |-> "none", white |-> {"java game"}, black |-> {}]
tool == [name |-> "tool", limit |-> 1,
         white |-> {"java game", "java editor"}, black |-> {}]
comment == [comment |-> "not a rule"]

MCExampleRule == [name |-> "tool", limit |-> 1, implication |-> "warn",
                  white |-> {}, black |-> {}]

MCConfigs ==
  { [kind |-> "rules", rules |-> <<tool, game, loose>>],
    [kind |-> "rules", rules |-> <<loose, game>>],
    [kind |-> "rules", rules |-> <<game, comment>>],
    [kind |-> "noMatcher", rules |-> <<>>],
    [kind |-> "absent", rules |-> <<>>] }

=============================================================================
