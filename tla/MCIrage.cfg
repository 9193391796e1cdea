SPECIFICATION Spec
CONSTANTS
  DayLen = 5
  PreOpen = 1
  MarketOpen = 2
  Preclose = 3
  MarketClose = 4
  Lot = 1
  TickSize = 3
  PrevClose = 0
  CircuitPct = 0
  Symbols <- MCSymbols
  Mticks <- MCMticks
  DprRanges <- MCDprRanges
  MaxInventory = 1
  Knobs <- MCKnobs
  MaxRejects = 1
INVARIANTS
  KillLag
  InventoryBound
  RejectsBounded
  SentInDpr
PROPERTIES
  SweepCompletes
