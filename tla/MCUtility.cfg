CONSTANTS
  FirstYears <- MCFirstYears
  MaxDays = 800
  Times <- MCTimes
  Others <- MCOthers
  Bad = Bad
  None = None
  Byte <- MCByte
  MaxLength = 5
SPECIFICATION UtilitySpec
INVARIANTS
  InstantOK
  ReadsTheClock
  IsRemainder
  BurstsAreNoticed
CHECK_DEADLOCK FALSE
