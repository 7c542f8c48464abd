CONSTANTS
  PrintEvery = 2
  Offsets <- MCOffsets
  NoTime = NoTime
  None = None
  MaxTime = 5
  MaxEvents = 5
SPECIFICATION Spec
INVARIANTS
  TypeOK
  TotalsAreVerified
  WindowsDivideSession
  LinesArePaced
CHECK_DEADLOCK FALSE
