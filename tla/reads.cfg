SPECIFICATION Spec
CONSTANTS
  Read = {r1, r2, r3}
  Nil = Nil
  ReadCap = 2
  MaxIndex = 2
  Expiry = TRUE
INVARIANTS
  TypeOK
  NoNilRead
  AnsweredOnce
  OwnStateUnlessExpired
  StaleExplained
SYMMETRY Symmetry
CHECK_DEADLOCK FALSE
