SPECIFICATION TaskSpec
CONSTANTS
  MaxMessages = 3
  AtOnce = 1
INVARIANT
  TaskRunsOnItsThread
CHECK_DEADLOCK FALSE
