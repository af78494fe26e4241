SPECIFICATION Spec
CONSTANTS
  Base = 5
  IndexWidth = 2
  SizeWidth = 2
  Index <- TheIndexes
  UserKey <- TheKeys
  UserValue <- TheValues
  Message = {m0, m1}
  Zero = m0
  Missing = Missing
INVARIANTS
  TypeOK
  SnapshotExact
PROPERTIES
  ImplementsStore
