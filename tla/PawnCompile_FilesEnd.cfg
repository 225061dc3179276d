SPECIFICATION Spec
CONSTANTS
  MaxErrors = 3
  MaxDepth = 1
  MaxLines = 3
  MaxReparse = 0
  Modes <- ImageOnly
CHECK_DEADLOCK FALSE
INVARIANTS
  FilesEnd
