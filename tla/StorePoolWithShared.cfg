CONSTANTS
  Threads = {t1, t2}
  WithThreads = {t1, t2}
  Handles = {h1, h2}
  NoHandle = NoHandle
  MaxOps = 1
SPECIFICATION PoolSpec
INVARIANT RequestOwnsStore
CHECK_DEADLOCK FALSE
