SPECIFICATION DictSpec
CONSTANTS
  Blocks = {b1, b2, b3}
  Threads = {t1, t2}
  Dicts = {d1, d2}
  Plain = Plain
  NoDict = NoDict
  NoRow = NoRow
  Threshold = 2
  UseDict = {TRUE}
  CanFail = FALSE
INVARIANT RowsRecoverable
