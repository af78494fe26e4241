SPECIFICATION Spec
CONSTANTS
  Node = {n1, n2, n3}
  Op = {o1, o2}
  Nil = Nil
  Writer = o1
  Kinds <- KindsOf
  MaxTerm = 2
  MaxTry = 2
  MaxRetried = 1
  MaxUncommitted = 1
INVARIANTS
  TypeOK
  
  CommittedOnce
PROPERTIES
  CommittedStable
SYMMETRY Symmetry
CHECK_DEADLOCK FALSE
