CONSTANTS
  Heads = 2
  Slots = {2, 3}
  Lists <- MixedLists
  Batches <- Pairs
  ChunkGrams = 1
  MaxCommands = 2
  KeyFiles <- MixedFiles
  Hashes = {"fnv1a-64", "blake2b"}
  BucketCounts = {1, 2}
  Cuts = {1, 256}
  CacheBuckets = 1
  MaxBuilds = 2
SPECIFICATION StorePSpec
INVARIANTS
  StorePTypeOK
  BuildConsistent
  FreshFetch
  WholeRecords
  LookupExact
  NeverInvented
CHECK_DEADLOCK FALSE
