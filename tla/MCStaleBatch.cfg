SPECIFICATION Spec
CONSTANTS
  g = g
  a = a
  b = b
  NoBlock = NoBlock
  Blocks <- RivalBlocks
  Height <- RivalHeight
  MaxHeight = 1
  HeightCacheCapacity = 1
  WarmDepth = 1
  CompactionPruning = FALSE
  Batches <- RivalBatches
  JobBatches = {}
  Attestable = {}
  Probed = {}
  Statuses = {}
SYMMETRY Rivals
INVARIANT LookupIsCanonical
