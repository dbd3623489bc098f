SPECIFICATION FairSpec
CHECK_DEADLOCK FALSE \* the calendar stops after the last month
CONSTANTS
  ann = ann
  bob = bob
  Users = {ann}
  NoUser = NoUser
  Loop = loop
  Admins = {admin}
  Customers = {ann}
  StripeEnabled = TRUE
  Items <- OneUser
  Months = 1
  MaxFaults = 1
  MaxCrashes = 0
INVARIANTS
  SoloRunsAreUnique
PROPERTY
  RunsEnd
