SPECIFICATION ToolSpec
CONSTANTS
  Callers = {"c1", "c2"}
  Kinds = {"read"}
  Threshold = 3
  Window = 2
  Retries = 1
  Capacity = 1
  MaxUses = 3
INVARIANT
  RecoveryProbes
CHECK_DEADLOCK FALSE
