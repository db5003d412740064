CONSTANTS
  s1 = s1
  s2 = s2
  Sessions = {s1, s2}
  Inventory <- MissingRows
  MaxStarts = 2
  MaxRequests = 3
SPECIFICATION FairSpec
INVARIANTS
  LabTypeOK
  ServesOnlySeeded
  InjectionAtomic
  MemoryNeverInvents
PROPERTY
  StartsServe
CHECK_DEADLOCK FALSE
