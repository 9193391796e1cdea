\* Ids share slots.  Either the exchange replies, or anyone calls anything.
CONSTANTS
  TableSize = 2
  MaxId = 3
  MaxQty = 2
  MaxFilled = 2
SPECIFICATION FairEntrySpec
INVARIANTS LiveCountExact NoOrphan Agreement CanCancel
PROPERTIES LiveOrderKept SlotReleased
CHECK_DEADLOCK FALSE
