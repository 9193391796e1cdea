\* More slots than orders: the table is never full.
CONSTANTS
  OrderNos = {o1, o2, o3, o4}
  TableSize = 8
  Free = Free
SPECIFICATION FairSpec
INVARIANT Findable
PROPERTIES ImplementsSet EraseReturns
