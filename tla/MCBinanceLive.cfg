CONSTANTS
  Price = {1, 2}
  Qty = {1}
  NoLevel = NoLevel
  IdMax = 3
  LevelList <- MCLevelList
  InitialBooks <- MCInitialBooks
  SnapshotLimit = 1
  MaxUpdates = 3
  MaxFaults = 2
  HalfOpen = FALSE
SPECIFICATION FairSpec
PROPERTIES
  HoleLeadsToResync
  Settles
CHECK_DEADLOCK FALSE
