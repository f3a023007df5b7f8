-------------------------------- MODULE MCSync --------------------------------
(***************************************************************************)
(* Sync of the secrets of two environments, two of whose names make one    *)
(* variable of a shell, to a project that holds nothing, or a variable of  *)
(* each and one of nobody's, or one as two variables of other targets.     *)
(***************************************************************************)
EXTENDS Sync, TLC

dot == <<"a", ".">>
dash == <<"a", "-">>
digit == <<"1">>
password == <<"a">>
other == <<"o">>
NameOrder == <<digit, password, dash, dot>>
Names == {digit, password, dash, dot}
Password == <<"A">>
Others == {other}
Production(i) == [value |-> [number |-> MaxChanges + i, for |-> "production"], tags |-> {"production"}]
Vaults == {[n \in Names |-> CASE n = digit -> Production(1) [] n = dot -> Production(2)
                              [] OTHER -> Nothing]}
Old(i, k, targets) == [id |-> i, key |-> k, value |-> Nothing, target |-> targets]
Projects == {{},
             {Old(1, dot, {"production", "preview"}), Old(2, digit, {"preview"}),
              Old(3, other, {"production"})},
             {Old(1, dot, {"production"}), Old(2, dot, {"preview"})}}
Symmetry == Permutations(Process)
Targets == {"production", "preview"}
Environments == {"production", "staging"}
=============================================================================
