SPECIFICATION FairSpec
CONSTANTS
  MaxQueue = 3
  Batch <- MCBatch
  MaxEvents <- MCEvents
  MaxStarts = 2
INVARIANTS
  PendingIsLatest
  DeliveredOnceInOrder
  TimerWatches
PROPERTIES
  StopIsShown
CHECK_DEADLOCK FALSE
