SPECIFICATION Spec
CONSTANTS
  SeqSpace = 16
  Length = 6
  Traffics <- AlignedAcrossWrap
  OooMax = 3
  MaxPayload = 7
  MinOverlap = 2
  MinConflict = 1
  LateSyn = FALSE
  Copies = 2
  Extras = 1
INVARIANTS
  ReconstructsContinuously
CHECK_DEADLOCK FALSE
