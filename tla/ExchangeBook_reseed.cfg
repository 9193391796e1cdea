\* No message is lost; the exchange sends Snap Quotes.
CONSTANTS
  OrderNos = {1, 2, 3}
  Prices = {2, 4}
  Qtys = {1, 2}
  Ticks = {2}
  MaxLevels = 2
  TableSize = 4
  MaxSeq = 5
  MaxCount = 4
  MayLose = FALSE
  MaySnap = TRUE
SPECIFICATION XSpec
INVARIANT LevelIsRestingSum
CHECK_DEADLOCK FALSE
