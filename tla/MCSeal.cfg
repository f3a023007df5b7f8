SPECIFICATION Spec
CONSTANTS
  Texts <- AllTexts
  Modes <- BothModes
  Window = 2
  Secrets <- Stored2
  Nothing = Nothing
INVARIANTS KeptInOrder NothingIsLost NestedAreHidden SealedRunsTheSame ImportedAsExported
CHECK_DEADLOCK FALSE
