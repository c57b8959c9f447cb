CONSTANTS
  BITMAP_ELEMENTS = 6
  LowSlot = 1
  HighSlot = 7
  Word = 16
SPECIFICATION ScanSpec
INVARIANTS
    SearchIsExact
PROPERTIES
    SearchEnds
CHECK_DEADLOCK FALSE
