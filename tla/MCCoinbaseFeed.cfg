CONSTANTS
  btc = btc
  eth = eth
  Price = {1, 2}
  Qty = {1}
  NoLevel = NoLevel
  IdMax = 3
  Symbol = {btc, eth}
  LevelList <- MCLevelList
  InitialBooks <- MCInitialBooks
  Limit = 2
  MaxUpdates <- MCMaxUpdates
  MaxFaults = 1
SPECIFICATION FairSpec
INVARIANTS
  TypeOK
  CounterMatchesBook
  DamageConfined
  NextNumberFits
PROPERTIES
  NoSpuriousResync
  ReplicaSpec
  Settles
CHECK_DEADLOCK FALSE
