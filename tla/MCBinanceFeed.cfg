CONSTANTS
  Price = {1, 2, 3}
  Qty = {1}
  NoLevel = NoLevel
  IdMax = 4
  LevelList <- MCLevelList
  InitialBooks <- MCInitialBooks
  SnapshotLimit = 1
  MaxUpdates = 4
  MaxFaults = 1
  HalfOpen = TRUE
SPECIFICATION Spec
INVARIANTS
  TypeOK
  NoPhantomLevels
  ExactWithinDepth
  BookUncrossed
  MissedUpdateBlocksBook
PROPERTIES
  NoSpuriousResync
  ReplicaSpec
CHECK_DEADLOCK FALSE
