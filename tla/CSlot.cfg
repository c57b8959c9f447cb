CONSTANTS
  BITMAP_ELEMENTS = 4
  LowSlot = 2
  HighSlot = 8
SPECIFICATION Spec
INVARIANTS
    BitmapIsOwnership
    FreeSlotsEmpty
    ExhaustedMeansNoRun
PROPERTIES
    ImplementsPool
CHECK_DEADLOCK FALSE
