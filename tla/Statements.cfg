CONSTANTS
  Bodies <- MCBodies
  Values = {0, 1, 2}
  Decisions = 4
  Loops = 24
SPECIFICATION Spec
CHECK_DEADLOCK FALSE
INVARIANTS
  SameFlow
  FrameBalanced
  DestroyedOnce
  UnusedExact
