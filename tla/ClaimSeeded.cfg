CONSTANTS
  s1 = s1
  s2 = s2
  Sessions = {s1}
  Inventory <- NoRows
  MaxStarts = 1
  MaxRequests = 1
SPECIFICATION Spec
INVARIANTS
  AllScenariosRun
CHECK_DEADLOCK FALSE
