SPECIFICATION Spec
CONSTANTS
  f1 = f1
  f2 = f2
  Flows <- TwoFlows
  Capacity = 1
  Owner = owner
  Signals = {}
  Modes = {"offline"}
  CaptureMayFail = FALSE
  MaxStarts = 1
  MaxStops = 0
INVARIANTS
  EveryFlowAnalyzed
