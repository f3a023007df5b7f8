SPECIFICATION PolicySpec
CONSTANTS
  Char <- Chars
  Cases <- AllCases
  NoPreset = NoPreset
  Secret = Secret
INVARIANTS SentWasAsked AskedIsSent SecretInItsHeader
CHECK_DEADLOCK FALSE
