SPECIFICATION Spec
CONSTANTS
  Schema <- TheSchema
  Tuples <- TheTuples
  Projections <- TheProjections
  Requests <- TheRequests
  Width = 2
  MaxSegments = 1
INVARIANTS
  TypeOK
  RowsRight
  Served
  
  TypeDeclared
CHECK_DEADLOCK FALSE
