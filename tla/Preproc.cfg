SPECIFICATION Spec
CONSTANTS
  sCOMP_STACK = 3
  MaxDepth = 2
CHECK_DEADLOCK FALSE
INVARIANTS
  LevelsAgree
PROPERTIES
  SelectsLines
