SPECIFICATION Spec
CONSTANTS
  c1 = c1
  c2 = c2
  Customers <- MCCustomers
  Loader = loader
  None = none
  Shelves <- MCShelves
  InitStock <- MCOne
  LoadAmounts <- MCOne
  Needs <- MCNeed
  StoreCap = 1
INVARIANT SumCountsFinished
CHECK_DEADLOCK FALSE
