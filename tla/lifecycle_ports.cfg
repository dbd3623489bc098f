SPECIFICATION Spec
CONSTANTS
  PortStart = 1
  PortEnd = 2
  Dbs = {d1, d2}
  Users = {u1}
  Servers = {s1}
  Local = local
  Requests = {r1}
  NoDb = NoDb
  MaxDatabases = 2
  MaxRestarts = 1
  MaxDbFaults = 0
SYMMETRY IdSymmetry
INVARIANTS
  PortExclusion
CHECK_DEADLOCK FALSE
