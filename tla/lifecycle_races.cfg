SPECIFICATION LiveSpec
CONSTANTS
  PortStart = 1
  PortEnd = 2
  Dbs = {d1}
  Users = {u1}
  Servers = {s1}
  Local = local
  Requests = {r1, r2}
  NoDb = NoDb
  MaxDatabases = 2
  MaxRestarts = 1
  MaxDbFaults = 1
INVARIANTS
  TypeOK
  TaskOwnsItsRow
  ShownDatabaseExists
  FailedIsNeverStarted
PROPERTIES
  KeepsStatusPromise
  ProvisioningSettles
  DeletionCompletes
CHECK_DEADLOCK FALSE
