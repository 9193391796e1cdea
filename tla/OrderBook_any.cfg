CONSTANTS
  OrderNos = {1, 2}
  Prices = {2, 3, 4}
  Qtys = {1}
  Ticks = {0, 2}
  MaxLevels = 2
  TableSize = 2
  MaxSeq = 2
  MaxCount = 2
SPECIFICATION Spec
INVARIANT LevelsSorted
PROPERTY StaleIsFrozen
CHECK_DEADLOCK FALSE
