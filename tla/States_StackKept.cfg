CONSTANTS
  Programs <- MCPrograms
  FuncNames <- MCFuncNames
  CellBytes = 4
SPECIFICATION Spec
CHECK_DEADLOCK FALSE
INVARIANTS
  StackKept
