SPECIFICATION AuditSpec
CONSTANTS
  Writer = {w1, w2}
  Event = {e1, e2, e3, e4}
  Genesis = Genesis Free = Free
INVARIANTS AuditTypeOK VerifyAcceptsHonestLog AckedInOrder TamperingDetected
PROPERTIES AppendOnlyOrShut
CHECK_DEADLOCK FALSE
