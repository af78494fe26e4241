SPECIFICATION FairSpec
CONSTANTS
  n1 = n1
  n2 = n2
  Node = {n1, n2}
  None = None
  Quorum = 2
  RecvCap = 1
  WireCap = 1
  MaxTerm = 2
  First = n1
  MaxHup = 2
  MaxProp = 1
  MaxCrash = 1
INVARIANTS TypeOK SentIsSaved 
PROPERTIES WedgedForever GridlockForever SendWaitsForWedged
CHECK_DEADLOCK FALSE
