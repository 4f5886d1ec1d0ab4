CONSTANTS
    Limit = 2
    FileEnd = 4
    MaxSeeks = 1
    Layouts <- MCVideo
    Filters <- MCFilters
    Streams = {"video", "other"}
    FreepNull = "return"
    MaxFrames = 1
    DecodeLimit = 1
    Delay = 1
SPECIFICATION Spec
CONSTRAINT Followed
CHECK_DEADLOCK FALSE
INVARIANT StaleFramesBounded
PROPERTY FloodIsPermanent
