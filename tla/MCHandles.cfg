CONSTANTS
  Party = {shell, client}
  shell = shell
  client = client
  Offers <- AllOffers
  Runs = 2
  Kind = {"openai-key", "jwt"}
  Value = {va, vb}
  va = va
  vb = vb
  Plain = Plain
  Foreign = Foreign
  Garbled = Garbled
  Nothing = Nothing
SPECIFICATION Spec
INVARIANTS HandlesAreKept SealedOrUntouched HandlesUnderTheirKindResolve
CHECK_DEADLOCK FALSE
