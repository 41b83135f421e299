SPECIFICATION FileSpec
CONSTANTS
  g = g
  a = a
  b = b
  c = c
  Blocks = {g, a, b, c}
  NoBlock = NoBlock
  Height <- ForkHeight
  MaxHeight = 2
  HeightCacheCapacity = 0
  Batches <- ForkBatches
  CanFail = TRUE
INVARIANTS SlotsSound FileInv
PROPERTIES OpenServesRows ImplementsSlots
