SPECIFICATION Spec
CONSTANTS
  Node = {n1, n2, n3}
  Op = {o1}
  Nil = Nil
  Writer = o1
  Kinds <- KindsOf
  MaxTerm = 2
  MaxTry = 1
  MaxRetried = 0
  MaxUncommitted = 1
INVARIANTS
  AckKept
CHECK_DEADLOCK FALSE
