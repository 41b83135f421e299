SPECIFICATION FollowerSpec
CONSTANTS
  g = g
  a1 = a1
  a2 = a2
  b1 = b1
  b2 = b2
  NoBlock = NoBlock
  Blocks <- ForkBlocks
  Height <- ForkHeight
  Parent <- ForkParent
  MaxHeight = 2
  HeightCacheCapacity = 1
  WarmDepth = 1
  CompactionPruning = FALSE
  Batches = {}
  JobBatches = {}
  Attestable = {}
  Probed = {b1}
  Statuses = {TRUE, FALSE}
  MaxDepth = 3
  Crashes = TRUE
INVARIANTS ChainIntact LookupIsCanonical AncestorIsForkPoint
PROPERTIES ImplementsChain
