\* As many orders as slots.
CONSTANTS
  OrderNos = {o1, o2}
  TableSize = 2
  Free = Free
SPECIFICATION FairSpec
PROPERTY EraseReturns
