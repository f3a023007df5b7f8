CONSTANTS
  Party = {shell}
  shell = shell
  client = client
  Offers <- FileOffers
  Runs = 2
  Kind = {"openai-key", "jwt"}
  Value = {va, vb}
  va = va
  vb = vb
  Plain = Plain
  Foreign = Foreign
  Garbled = Garbled
  Nothing = Nothing
SPECIFICATION Spec
INVARIANT HandlesResolve
CHECK_DEADLOCK FALSE
