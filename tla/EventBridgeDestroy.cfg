SPECIFICATION Spec
CONSTANTS
  MaxQueue = 3
  Batch <- MCBatch
  MaxEvents <- MCEvents
  MaxStarts = 2
INVARIANTS
  QueuesOutliveCallbacks
CHECK_DEADLOCK FALSE
