SPECIFICATION FairSpec
CONSTANTS
  d1 = d1
  d2 = d2
  Dbs = {d1, d2}
  Name <- SameName
  RedisDbs = {d2}
  Calls = {c1}
  Loop = loop
  NoDb = NoDb
  Handled = {d2}
  Interval = 0
  Retentions = {1}
  MaxTime = 1
  MaxEvents = 2
INVARIANTS
  ListedBackupsRestore
PROPERTIES
  NewestAreKept
  DueIsRun
CHECK_DEADLOCK FALSE
