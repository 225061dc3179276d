SPECIFICATION FairSpec
CONSTANTS
  MaxErrors = 3
  MaxDepth = 2
  MaxLines = 4
  MaxReparse = 1
  Modes <- MCModes
CHECK_DEADLOCK FALSE
INVARIANTS
  TypeOK
  SuccessMeansImage
  MisuseOnlyWhenLate
  SourcesClosed
  IncludersOpen
  SkimmingIsSilent
  ErrorsBounded
PROPERTIES
  KeepsContract
  Termination
