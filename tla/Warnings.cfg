SPECIFICATION Spec
CONSTANTS
  Sources <- MCSources
  MaxPasses = 2
CHECK_DEADLOCK FALSE
INVARIANTS
  ScopedPragmasExact
  OnlyHides
