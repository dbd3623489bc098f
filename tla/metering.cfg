SPECIFICATION Spec
SYMMETRY NameSymmetry
CHECK_DEADLOCK FALSE \* the clock stops at the end of the last month
CONSTANTS
  Names = {orders, users}
  small = small
  Plans = {small}
  NoPlan = NoPlan
  HourlyPrice <- OnePriceByHour
  MonthlyPrice <- OnePriceByMonth
  TicksPerSecond = 2
  SecondsPerHour = 2
  MonthTicks = 4
  Months = 2
  MaxEvents = 3
  MaxLost = 1
INVARIANTS
  TypeOK
  UsageWithinPeriod
  ExactWhenRegular
  IdleMonthIsFree
PROPERTY
  EstimateNeverDrops
