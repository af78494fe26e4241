SPECIFICATION FairSpec
CONSTANTS
  Key = {k1}
  Value = {v1}
  Nil = Nil
  Boot = 1
  Requests = {"put", "del", "compact"}
  MaxIndex = 3
  MaxTerm = 2
  MaxCrash = 1
  Windows = {"linger"}
INVARIANTS
  TypeOK
  StorageInv
  StorageAgrees
  Recoverable
  ReleasedDurable
  NoLostPut
PROPERTIES
  DurableMonotone
  
  
CHECK_DEADLOCK FALSE
