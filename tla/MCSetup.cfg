SPECIFICATION Spec
CONSTANTS
  Process = {p1, p2}
  Commands <- Command
  Runs = 3
  Password = {pw}
  Nothing = Nothing
SYMMETRY ProcessSymmetry
INVARIANTS VaultKeepsItsKey ReadyIsKept ResetNeverBlocked StartedIsTrusted
CHECK_DEADLOCK FALSE
