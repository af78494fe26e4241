SPECIFICATION FairSpec
CONSTANTS
  LogTerms <- TheTerms
  MaxTried = 2
  MaxElect = 2
  MaxLost = 1
  NetCap = 2
INVARIANTS
  TypeOK
  
  
  PanicNeedsElections
PROPERTIES
  
  CatchesUp
CHECK_DEADLOCK FALSE
