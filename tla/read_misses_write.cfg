SPECIFICATION Spec
CONSTANTS
  Read = {r1}
  Nil = Nil
  ReadCap = 1
  MaxIndex = 2
  Expiry = FALSE
INVARIANTS
  Linearizable
CHECK_DEADLOCK FALSE
