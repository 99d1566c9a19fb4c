CONSTANTS
  Shards = 2
  RowsPerShard = 5
  Width = 2
  ElemBytes = 1
  Page = 5
  Keys <- SomeKeys
  MaxKeys = 3
  Threads = {1, 2}
  Lengths <- FileLengths
  WindowBadges = 2
  Methods = {"pp", "naive", "parallel", "planned", "plan", "sharded"}
  SerialKeys = 2
  MaxTokens = 3
  RowsOfToken <- TokenRows
  Depth = 2
  Units = 2
  MaxReads = 3
  MaxCalls = 2
SPECIFICATION ReadsSpec
INVARIANTS
  ReadsTypeOK
  PpRowsExact
  BadgeRowsExact
  NeverForeign
  SentOnceInWindow
  ExactUnlessFailed
  CleanUnlessFailed
PROPERTY CallReturns
CHECK_DEADLOCK FALSE
