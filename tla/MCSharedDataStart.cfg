SPECIFICATION Spec
CONSTANTS
  v1 = v1
  v2 = v2
  VM = {v1, v2}
  Initial = 10
  MaxRequests = 2
INVARIANT EveryIncrementCounts
CHECK_DEADLOCK FALSE
