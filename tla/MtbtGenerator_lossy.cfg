\* Lost messages and reseeds, or a generated stream; neither array nor table
\* overflows.
CONSTANTS
  OrderNos = {1, 2, 3}
  Prices = {2, 4}
  Qtys = {1, 2}
  Ticks = {2}
  MaxLevels = 8
  TableSize = 16
  MaxSeq = 5
  MaxCount = 4
  MayLose = TRUE
  MaySnap = TRUE
  StartMid = 20
  Depth = 2
  MaxLive = 7
  MaxGen = 10
SPECIFICATION GenSpec
INVARIANTS MirrorsExchange TrackedAreResting TrackedAreShown GeneratedBookIsLive
CHECK_DEADLOCK FALSE
