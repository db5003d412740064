CONSTANTS
  s1 = s1
  s2 = s2
  r1 = r1
  r2 = r2
  Suppliers = {s1, s2}
  Absent = absent
  CertificationRequired = TRUE
  AqlRequired = TRUE
  InitialLinks <- SomeLinks
  InitialStock <- SomeStock
  ModelSuggestions <- SomeModel
  Scenarios = {"SCENARIO-2", "SCENARIO-4"}
  ExpiringSupplier = s1
  ScenarioStock <- Recount
  Runs = {r1, r2}
SPECIFICATION Spec
INVARIANTS
  TypeOK
  OfferedPlansHold
  GateOffersBest
  AllocationsAddUp
  InvalidRanksBelow
SYMMETRY RunSymmetry
CHECK_DEADLOCK FALSE
