SPECIFICATION Spec
CONSTANTS
  Dbs = {d1, d2, d3}
  Handled = {}
  Users = {u1}
  Calls = {c1, c2}
  Servers = {s1}
  Local = local
  NoUser = NoUser
  PortStart = 1
  PortEnd = 3
  MaxDatabases = 2
  Capacities = {1, 2}
  MaxFaults = 0
SYMMETRY IdSymmetry
INVARIANTS
  QuotaHoldsButForOverlaps
  CapacityHoldsButForOverlaps
CHECK_DEADLOCK FALSE \* row ids are used up
