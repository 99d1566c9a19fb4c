CONSTANTS
  Callers = {c1, c2}
  Workers = {w1, w2}
  MaxJobs = 2
  MaxCalls = 2
SPECIFICATION Spec
INVARIANT PanicReplayed
CHECK_DEADLOCK FALSE
