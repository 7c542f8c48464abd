CONSTANTS
  Price = {1, 2, 3}
  Qty = {1}
  NoLevel = NoLevel
  IdMax = 4
  LevelList <- MCLevelList
  InitialBooks <- MCInitialBooks
  SnapshotLimit = 1
  MaxUpdates = 4
  MaxFaults = 0
  HalfOpen = FALSE
SPECIFICATION Spec
INVARIANT
  BestBidIsExchangeBest
CHECK_DEADLOCK FALSE
