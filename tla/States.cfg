CONSTANTS
  Programs <- MCPrograms
  FuncNames <- MCFuncNames
  CellBytes = 4
SPECIFICATION Spec
CHECK_DEADLOCK FALSE
INVARIANTS
  ConflictsExact
  WarnedExact
  IdsUnique
PROPERTIES
  KeepsPromise
