SPECIFICATION Spec
CONSTANTS
  SeqSpace = 16
  Length = 6
  Traffics <- AlignedOrRecut
  OooMax = 2
  MaxPayload = 4
  MinOverlap = 2
  MinConflict = 1
  LateSyn = FALSE
  Copies = 2
  Extras = 1
INVARIANTS
  ContiguousWhileOpen
  NoFalseEvasion
  PayloadFaithful
CHECK_DEADLOCK FALSE
