CONSTANTS
  p1 = p1
  sup = sup
  c1 = c1
  c2 = c2
  Entities = {p1, sup}
  PurchaseOrders = {p1}
  ScenarioOrder = p1
  ApprovalAbove <- Limits
  InitialRows <- SeedRows
  Patches <- TwoPatches
  OtherFindings <- Unanswered
  Clients = {c1, c2}
  Absent = absent
  MaxRequests = 4
  MaxNow = 1
SPECIFICATION Spec
INVARIANT
  NoDuplicateOpenAlert
CHECK_DEADLOCK FALSE
