CONSTANTS
  Suppliers = {}
  Absent = absent
  CertificationRequired = TRUE
  AqlRequired = TRUE
  Quantities = {4, 20, 28}
  Gaps = {1, 3, 13, 58}
  OrderBook <- SomeOrders
  DailyUsages = {0, 3}
  SafetyStock = 6
  MaxCounts = 3
  MaxOrders = 3
SPECIFICATION Spec
INVARIANTS
  TypeOK
  AverageWithinRates
  StopFollowsTrend
  ServedFromStock
  SimulationOrdersPlans
  AlertsShowOnDashboard
CHECK_DEADLOCK FALSE
