SPECIFICATION Spec
CONSTANTS
  n1 = n1
  n2 = n2
  d1 = d1
  d2 = d2
  d3 = d3
  d4 = d4
  p1 = p1
  u1 = u1
  u2 = u2
  s1 = s1
  Local = local
  Nets = {n1}
  Peerings = {}
  Rules = {}
  Servers = {s1}
  MaxMembers = 1
  MaxNetworks = 1
  Dbs = {d1, d2, d3, d4}
  MaxPeerings = 1
  MaxRules = 1
  Doomed = {d1, n1}
  Users = {u1, u2}
  Calls = {c1, c2}
  MaxDocks = 2
  MaxFaults = 1
  Owner <- CrowdOwner
  Host <- CrowdHost
  Ends <- NoEnds
SYMMETRY CallSymmetry
INVARIANTS
  MembersAreConnected
  LimitsHoldButForOverlaps
CHECK_DEADLOCK FALSE
