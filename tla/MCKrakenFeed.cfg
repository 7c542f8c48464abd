CONSTANTS
  btc = btc
  Price = {1, 2, 3}
  Qty = {1}
  NoLevel = NoLevel
  NotLearned = NotLearned
  IdMax = 4
  Symbol = {btc}
  LevelList <- MCLevelList
  InitialBooks <- MCInitialBooks
  Limit = 1
  MaxUpdates <- MCMaxUpdates
  MaxFaults = 1
  Precision <- MCPrecision
SPECIFICATION KFairSpec
INVARIANTS
  TypeOK
  CounterMatchesBook
  ExactWithoutLoss
PROPERTIES
  VerifiedIsExchangeTop
  NoSpuriousResync
  ReplicaSpec
  Settles
CHECK_DEADLOCK FALSE
