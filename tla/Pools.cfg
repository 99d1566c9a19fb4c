CONSTANTS
  Callers = {c1, c2}
  Workers = {w1, w2}
  MaxJobs = 3
  MaxCalls = 2
  Threads = {t1, t2, t3}
  WithThreads = {t3}
  Handles = {h1, h2}
  NoHandle = NoHandle
  MaxOps = 2
SPECIFICATION PoolsSpec
INVARIANTS
  TypeOK
  BorrowSafety
  NoLostWakeup
  PanicIsOwn
  PoolTypeOK
  OneBorrower
  NoLeak
PROPERTIES
  ForkJoinSpec
  ScopeReturns
  WaiterServed
CHECK_DEADLOCK FALSE
