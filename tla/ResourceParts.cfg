SPECIFICATION Spec
CONSTANTS
    NULL = NULL
    BITS_4KIB = 2
    BITS_4MIB = 4
    CACHE_4K_COUNT = 2
    Regions = 2
    BootSizes = {1, 2, 3, 4, 5}
    Slots = 12
    MaxNested = 2
    SMALL_TABLE_SIZE = 4
    WordBits = 2
    Bases = {4, 6, 8, 12}
    COOKIE_COUNT = 5
    MAX_PAGES = 2
    MaxZones = 4
    PAGE_TABLE_COUNT = 3
    PAGE_COUNT_PER_TABLE = 3
    OutsideTables = {0}
    AllPages = {1, 2, 3, 4, 5, 6, 7}
    FxPages = {2, 4, 6}
    PAGE_SIZE = 12
    FXCACHE_UNIT = 2
    FXCACHE_RANGE = 3
    INITIAL_CHUNK = 12
    NODE = 2
    HEADER = 4
    TOKEN = 2
    SpaceSize = 60
    Sizes = {1, 3, 6}
    MaxLive = 1
    MaxCached = 1
    Keys = {k1, k2, k3}
    k1 = k1
    k2 = k2
    k3 = k3
    Values = {v1, v2}
    Pointers = {p1, p2}
    HASHMAP_BUCKETS = 3
    Hash <- MCHash
CHECK_DEADLOCK FALSE
INVARIANTS
    UntypedOwned
    SmallTablesAgree
    LargeBlocksApart
    PageTablesFollow
    FxBlocksSound
    MapHoldsWhatWasSet
