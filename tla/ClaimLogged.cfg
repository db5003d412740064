CONSTANTS
  i1 = i1
  s1 = s1
  h1 = h1
  h2 = h2
  Incidents = {i1}
  Suppliers = {s1}
  NoSupplier = nosupplier
  DefaultSupplier = s1
  Quantities = {0, 1}
  DefaultQuantity = 2
  InitialPlans <- OnePlan
  InitialOrders <- NoOrder
  Handlers = {h1}
  MaxRequests = 3
  MaxPlans = 2
SPECIFICATION Spec
INVARIANT
  SignOffsLogged
CHECK_DEADLOCK FALSE
