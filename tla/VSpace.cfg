CONSTANTS
  PAGE_SIZE = 4
  PAGE_TABLE_SIZE = 16
  VSPACE_END_PTR = 192
  ImageStart = 82
  ImageSize = 10
  Word = 512
  Zones = {z1, z2, z3}
  ApproximateSizes = {3, 8, 9, 18, 30, 256}
  PreciseSizes = {4, 12, 24}
SPECIFICATION Spec
INVARIANTS
    ZonesInOrder
    AnswersRight
PROPERTIES
    ImplementsSpace
CHECK_DEADLOCK FALSE
