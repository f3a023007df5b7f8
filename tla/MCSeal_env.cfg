SPECIFICATION Spec
CONSTANTS
  Texts <- EnvTexts
  Modes <- DefaultMode
  Window = 2
  Secrets = {}
  Nothing = Nothing
INVARIANTS SealableIsHidden
CHECK_DEADLOCK FALSE
