SPECIFICATION Spec
CONSTANTS
  o1 = o1 o2 = o2 n1 = n1 s1 = s1
  Operator = {o1, o2}
  Agent <- Agents3
  Name = {n1}
  Secret = {s1}
  Ops <- SharedOps
  Torn = Torn Free = Free Nothing = Nothing
SYMMETRY OperatorSymmetry
INVARIANTS VaultTypeOK FileIsWhole ListedAgentsHaveKeys NamesStayUsable UndisturbedIsKept DocsFollowVault
