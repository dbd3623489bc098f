SPECIFICATION Spec
CHECK_DEADLOCK FALSE \* the calendar stops after the last month
CONSTANTS
  ann = ann
  bob = bob
  Users = {ann, bob}
  NoUser = NoUser
  Loop = loop
  Admins = {}
  Customers = {ann, bob}
  StripeEnabled = TRUE
  Items <- SmallItems
  Months = 2
  MaxFaults = 1
  MaxCrashes = 1
INVARIANTS
  TypeOK
  LinesChargedOnce
  InvoicedIsComplete
  StatusFollowsStripe
  FirstDayCovers
