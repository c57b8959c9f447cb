SPECIFICATION Spec
CONSTANTS
    PageSize = 2
    PerTable = 2
    PageCount = 4
    IpcPage = 2
    Word = 16
    FileAt = 6
    FileSize = 5
    HalfMax = 3
    MinEntry = 2
    Segments <- MCSegments
    SegmentsMax = 2
INVARIANTS
    FailsCleanly
    ImageInPlace
PROPERTIES
    LaunchEnds
CHECK_DEADLOCK FALSE
