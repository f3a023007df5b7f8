CONSTANTS
  Process = {p1, p2}
  Runs = 3
  Environment <- Environments
  Name <- Names
  Order <- NameOrder
  PasswordKey <- Password
  Other <- Others
  Target <- Targets
  Page = 2
  MaxChanges = 1
  Held <- Vaults
  Before <- Projects
  Nothing = Nothing
SPECIFICATION Spec
SYMMETRY Symmetry
INVARIANTS ReportedIsDeployed EnvironmentsApart RefusedOnlyUnseen GapsAreCounted
CHECK_DEADLOCK FALSE
