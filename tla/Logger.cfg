SPECIFICATION LogSpec
CONSTANTS
  Values = {a, b}
  Critical = {b}
  Capacity = 2
  Wrap = 8
  NoItem = NoItem
INVARIANTS
  NoSlotRace
  SizeSafe
  FlushedBeforeSleep
  ClosedIsComplete
PROPERTIES
  ImplementsFifo
  Delivered
  DestructorReturns
CHECK_DEADLOCK FALSE
