CONSTANTS
  CellBits = 7
  CellBytes = 2
  Frame = 34
  HeapBase = 42
  HeapCells = 8
  Symbols <- MCSymbols
  Funcs <- MCFuncs
  UserOps <- MCUserOps
  Memories <- MCMemories
  Exprs <- MCExprs
  Garbage = 33
  Limit = 80
SPECIFICATION Spec
CHECK_DEADLOCK FALSE
INVARIANTS
  CodeMeansExpression
  NothingLeft
  UselessDoesNothing
