CONSTANTS
  Shards = 2
  RowsPerShard = 4
  Width = 2
  ElemBytes = 1
  Page = 5
  Keys <- AllKeys
  MaxKeys = 2
  Threads = {1, 2}
  Lengths <- FullFiles
SPECIFICATION Spec
INVARIANT RowsOrError
CHECK_DEADLOCK FALSE
