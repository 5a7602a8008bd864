SPECIFICATION FairSpec
CONSTANTS
  c1 = c1
  c2 = c2
  Customers <- MCCustomers
  Loader = loader
  None = none
  Shelves <- MCShelves
  InitStock <- MCOne
  LoadAmounts <- MCOne
  Needs <- MCNeeds
  StoreCap = 1
INVARIANT ShopInv
PROPERTIES LeftoversFinal EveryNeedMet PrintsUnlessLost
CHECK_DEADLOCK FALSE
