SPECIFICATION Spec
CONSTANTS
    Arrays <- MCArrays
    RANLIMIT = 4
    BALANCE = 2
    Randoms = {1, 2, 3}
    LUA_MAXCAPTURES = 2
    MAXCCALLS = 4
    SizeInt = 2
    SizeT = 2
    SizeInstruction = 2
    SizeInteger = 3
    SizeNumber = 3
    Escape = 4
    LUAI_MAXSHORTLEN = 2
    IntegerBits = 4
    NB = 2
    SZINT = 2
    SizeofShort = 1
    SizeofInt = 2
    SizeofLong = 1
    SizeofSize = 2
    SizeofFloat = 2
    SizeofDouble = 4
    MAXINTSIZE = 4
    MAXALIGN = 4
    Texts <- MCTexts
    Patterns <- MCPatterns
    Functions <- MCFunctions
    Formats <- MCFormats
    Arguments <- MCArguments
    IntegerKeys = {1, 2, 3}
    Strings = {2}
    Pointers = {2}
    ArrayMax = 3
INVARIANTS
    PatternsMatch
    ChunksLoadBack
    ElementsMove
    PackedComesBack
    SortSorts
    TableSound
    HoldsLastWritten
PROPERTIES
    SortEnds
    TraversalExact
CHECK_DEADLOCK FALSE
