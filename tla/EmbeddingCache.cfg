CONSTANTS
  Rows = {r1, r2, r3}
  CacheSizes = {2}
  MaxRows = 2
  MaxCalls = 2
SPECIFICATION Spec
INVARIANT CacheServes
CHECK_DEADLOCK FALSE
