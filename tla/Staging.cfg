SPECIFICATION Spec
CONSTANTS
  sMAXARGS = 2
  sSTG_MAX = 10
  MaxFormals = 2
  MaxNesting = 2
  MaxLines = 3
CHECK_DEADLOCK FALSE
INVARIANTS
  EveryLineWritten
  OrderOfExecution
  CodeIndexExact
PROPERTIES
  UndefinedOnlyAfterError
