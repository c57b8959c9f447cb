CONSTANTS
  BITS_4KIB = 2
  BITS_4MIB = 4
  CACHE_4K_COUNT = 2
  Regions = 2
  BootSizes = {1, 2, 3, 4, 5}
  Slots = 12
  MaxNested = 2
  NULL = NULL
SPECIFICATION Spec
INVARIANT CountAssertionsHold
CHECK_DEADLOCK FALSE
