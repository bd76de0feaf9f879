SPECIFICATION FairSpec
CONSTANTS
  p1 = p1
  p2 = p2
  c1 = c1
  c2 = c2
  i1 = i1
  i2 = i2
  i3 = i3
  i4 = i4
  Producers = {p1, p2}
  Consumers = {c1, c2}
  Items <- MCItems
  Priority <- MCPriority
  Capacity = 2
  NoItem = NoItem
INVARIANTS
  CapacityBound
  Accounting
  FifoWithinBand
  WakeupsSuffice
  ReleasedForGood
PROPERTIES
  StrongestSurvive
  ImplementsLedger
  EveryPushSettles
