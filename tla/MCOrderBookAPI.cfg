CONSTANTS
  Price = {1, 2, 3}
  Qty = {1, 2}
  NoLevel = NoLevel
  IdMax = 2
  LevelList <- MCLevelList
  MaxDepth = 2
SPECIFICATION Spec
INVARIANTS
  TypeOK
  LoopsAgree
PROPERTIES
  AcceptedIffContiguous
  TruncationKeepsBest
