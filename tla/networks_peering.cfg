SPECIFICATION LiveSpec
CONSTANTS
  n1 = n1
  n2 = n2
  d1 = d1
  d2 = d2
  d3 = d3
  d4 = d4
  p1 = p1
  u1 = u1
  u2 = u2
  s1 = s1
  Local = local
  Nets = {n1, n2}
  Peerings = {p1}
  Servers = {s1}
  MaxMembers = 2
  MaxNetworks = 2
  Dbs = {d1, d2}
  MaxPeerings = 1
  MaxRules = 1
  Doomed = {d1, n1}
  Rules = {r1}
  Users = {u1, u2}
  Calls = {c1}
  MaxDocks = 1
  MaxFaults = 1
  Owner <- PairOwner
  Host <- PairHost
  Ends <- PairEnds
INVARIANTS
  TypeOK
  OwnersAreIsolated
  NoOrphanInDocker
  PeeringReachesMembers
  FirewallIsOfRules
PROPERTIES
  PeeringSettles
CHECK_DEADLOCK FALSE
