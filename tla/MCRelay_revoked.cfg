SPECIFICATION FairSpec
CONSTANTS
  p1 = p1 p2 = p2 r1 = r1 r2 = r2 c1 = c1 c2 = c2 k1 = k1 a1 = a1 n1 = n1 n2 = n2
  Relay = {p1}
  Req = {r1}
  Cap = {c1}
  Key = {k1}
  Agent = {a1}
  Nonce = {n1}
  Claims <- VaultClaims
  Offer <- VaultOffers
  Command <- VaultCommands
  MaxSkew = 1
  MaxTime = 0
  NoLimit = NoLimit NoProof = NoProof NoAgent = NoAgent Torn = Torn Free = Free Nothing = Nothing
PROPERTIES RevocationIsLoaded
CHECK_DEADLOCK FALSE
