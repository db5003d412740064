CONSTANTS
  i1 = i1
  s1 = s1
  c1 = c1
  c2 = c2
  Incidents = {i1}
  Suppliers = {s1}
  NoSupplier = nosupplier
  DefaultSupplier = s1
  Quantities = {1}
  DefaultQuantity = 2
  InitialPlans <- NoneOrTwoPlans
  InitialOrders <- NoOrder
  Handlers = {h1}
  MaxRequests = 3
  MaxPlans = 1
  Clients = {c1, c2}
  Nobody = nobody
  Scores = {1, 2}
  Unsourced = {}
  InitialScores <- TheirScores
SPECIFICATION TowerSpec
INVARIANTS
  TowerTypeOK
  StatusesAgree
  OrdersAsShown
  NoSecondDispatch
SYMMETRY ClientSymmetry
CHECK_DEADLOCK FALSE
