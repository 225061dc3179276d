SPECIFICATION Spec
CONSTANTS
  Inputs = 3
  Paths = {p1, p2, p3}
CHECK_DEADLOCK FALSE
INVARIANTS
  TypeOK
  SuccessBuildsAll
PROPERTIES
  OldPackagesKept
  NothingLost
