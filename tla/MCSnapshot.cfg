SPECIFICATION SnapSpec
CONSTANTS
  a1 = a1
  b1 = b1
  a2 = a2
  d1 = d1
  d2 = d2
  NoBlock = NoBlock
  Blocks = {a1, b1, a2}
  Height <- ForkHeight
  Parent <- ForkParent
  MaxHeight = 1
  Chains <- ForkChains
  Held = {{}, {a1}}
  Imports = 2
  Threads = {t1}
  Dicts = {d1, d2}
  Plain = Plain
  NoDict = NoDict
  NoRow = NoRow
  Threshold = 2
  UseDict = {TRUE, FALSE}
  CanFail = TRUE
SYMMETRY Interchange
INVARIANTS SnapTypeOK RowsReadable RowsRecoverable DamageRejected ImportedChainLinked SoundFileImports SnapshotInv
