CONSTANTS
    Wanted = 2
    Initial = 3
    Low = 1
    IdLimit = 4
    MaxKeys = 4
SPECIFICATION Spec
INVARIANTS
    TypeOK
    UploadedHasLeft
    TwiceIsUnmarked
    GivenIsKept
