SPECIFICATION Spec
CONSTANTS
  g = g
  a1 = a1
  b1 = b1
  w = w
  v = v
  r = r
  NoBlock = NoBlock
  NoThread = NoThread
  Blocks = {g, a1, b1}
  Height <- RivalHeight
  MaxHeight = 1
  HeightCacheCapacity = 1
  Threads = {w, r}
  Genesis = g
  Offers <- WriterReader
  Chains <- RivalChains
  MaxCalls <- WriterReaderCalls
INVARIANT QuietLookupIsCanonical
CHECK_DEADLOCK FALSE
