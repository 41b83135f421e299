SPECIFICATION Spec
CONSTANTS
  j1 = j1
  j2 = j2
  j3 = j3
  j4 = j4
  d1 = d1
  x = x
  y = y
  Jobs = {j1, j2, j3, j4}
  DirectPuts = {d1}
  Block <- MCBlock
  BatchSize = 3
  ChannelCapacity = 1
  CanFail = TRUE
  CanStop = TRUE
INVARIANTS TypeOK JobsAccounted TrueMeansStored NovelOnce FalseMeansStored FlushInv
PROPERTIES EveryJobAnswered WorkerExits EveryBlockStored
CHECK_DEADLOCK FALSE
