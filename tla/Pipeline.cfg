SPECIFICATION FairSpec
CONSTANTS
  f1 = f1
  f2 = f2
  Flows <- TwoFlows
  Capacity = 1
  Owner = owner
  Signals = {}
  Modes = {"offline", "live"}
  CaptureMayFail = FALSE
  MaxStarts = 2
  MaxStops = 1
INVARIANTS
  FlowCustody
  ZeroDropOffline
  TeardownInOrder
  JoinsDoNotWaitForRoom
  CompletionAfterCapture
PROPERTIES
  RunsEnd
