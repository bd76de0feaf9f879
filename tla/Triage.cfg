SPECIFICATION Spec
CONSTANTS
  f1 = f1
  f2 = f2
  f3 = f3
  k1 = k1
  k2 = k2
  Flows <- ThreeFlows
  TraitSets <- SomeTraits
  Keys = {k1, k2}
  Forensic = FALSE
  Blocking = TRUE
  Capacity = 1
  MaxSeen = 1
  MaxRuns = 1
SYMMETRY FlowSymmetry
INVARIANTS
  DropsAreSound
  FastDetectorsDecide
  BudgetKept
CHECK_DEADLOCK FALSE
