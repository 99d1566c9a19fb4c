CONSTANTS
  Tokens = {"eos", "a"}
  Eos = "eos"
  NgramSize = 2
  Rows <- Contexts
  CacheSizes = {0, 2}
  MaxRows = 2
  MaxCalls = 3
  Inputs <- Batches
SPECIFICATION NGramSpec
INVARIANTS
  NGramTypeOK
  ContextExact
  PendingRowsExact
  QuietClose
PROPERTIES
  PrefetchCovers
  ReusesPrefetch
  CallReturns
CHECK_DEADLOCK FALSE
