CONSTANTS
  i1 = i1
  s1 = s1
  h1 = h1
  h2 = h2
  Incidents = {i1}
  Suppliers = {s1}
  NoSupplier = nosupplier
  DefaultSupplier = s1
  Quantities = {0, 1}
  DefaultQuantity = 2
  InitialPlans <- OnePlan
  InitialOrders <- OlderOrder
  Handlers = {h1, h2}
  MaxRequests = 3
  MaxPlans = 2
SPECIFICATION FairSpec
INVARIANTS
  NoPlanLeftExecuting
  SupersededHasSuccessor
  ResolvedWasVerified
PROPERTY
  FailureReachesHuman
CHECK_DEADLOCK FALSE
