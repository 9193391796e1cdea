SPECIFICATION Spec
CONSTANTS
  DayLen = 12
  PreOpen = 1
  MarketOpen = 2
  Preclose = 5
  MarketClose = 6
  Lot = 2
  TickSize = 1
  PrevClose = 10
  CircuitPct = 3000
  Cap = 2
  Cost = 1
  MaxOrderQty = 4
  MaxLots = 1
  MaxNotional = 100
  MaxLoss = 0
  SanityPct = 50
  AllowPreopen = FALSE
  Segment = "fo"
  NoOrder = NoOrder
  MaxPosLots = 1
  MaxSpreadTicks = 2
  QuoteTtl = 1
  QuoteLots = 1
  MaxInvSkew = 1
  MaxFlowSkew = 1
  MaxPending = 16
  Drivers = {"live", "backtest"}
  BookQuotes <- MCQuotes
  OmSlots = 2
  MaxEvents <- MCEvents
  Times = {1, 2, 4, 5}
  TradePrices = {9, 10, 12}
  TradeQtys = {1, 4}
INVARIANTS
  RateBound
  KillLag
  NoSelfCross
  BooksBalance
  NoneForgotten
PROPERTIES
  QuotesFresh
CHECK_DEADLOCK FALSE
