SPECIFICATION Spec
CONSTANTS
  Dbs = {d1, d2, d3}
  Handled = {d1}
  Users = {u1}
  Calls = {c1, c2}
  Servers = {}
  Local = local
  NoUser = NoUser
  PortStart = 1
  PortEnd = 3
  MaxDatabases = 2
  Capacities = {0}
  MaxFaults = 1
SYMMETRY IdSymmetry
INVARIANTS
  TypeOK
  PortsHaveHolders
  BundleHalvesAgree
  ProvisioningIsWorkedOn
CHECK_DEADLOCK FALSE \* row ids are used up
