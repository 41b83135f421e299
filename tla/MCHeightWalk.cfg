SPECIFICATION Spec
CONSTANTS
  x = x
  y = y
  NoBlock = NoBlock
  Blocks = {x, y}
  Height <- MCHeight
  MaxHeight = 3
  HeightCacheCapacity = 2
  Caches <- Index
  Lowers <- MCLowers
INVARIANTS CacheMatches SeenMatches
CHECK_DEADLOCK FALSE
