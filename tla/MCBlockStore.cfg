SPECIFICATION Spec
CONSTANTS
  g = g
  a = a
  b = b
  NoBlock = NoBlock
  Blocks <- RivalBlocks
  Height <- RivalHeight
  MaxHeight = 1
  HeightCacheCapacity = 1
  WarmDepth = 1
  CompactionPruning = TRUE
  Batches <- RivalBatches
  JobBatches <- RivalJobs
  Attestable = {g}
  Probed = {g}
  Statuses = {TRUE}
SYMMETRY Rivals
INVARIANTS TypeOK LookupIsStored BinAgrees CanonicalIsFlagged CachesBacked StoredInv
PROPERTIES RetainedBlocksKept OnlyStagingOutdates
