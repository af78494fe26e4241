SPECIFICATION Spec
CONSTANTS
  Key = {k1}
  Value = {v1}
  Nil = Nil
  Boot = 1
  Requests = {"put", "del", "compact"}
  MaxIndex = 4
  MaxTerm = 1
  MaxCrash = 0
  Windows = {}
INVARIANTS
  KvExact
CHECK_DEADLOCK FALSE
