CONSTANTS
    Limit = 1
    FileEnd = 1
    MaxSeeks = 0
    MaxFrames = 1
    Layouts <- MCBoth
    Filters <- MCFilters
    Streams = {"audio", "video", "other"}
    FreepNull = "fault"
SPECIFICATION Spec
CHECK_DEADLOCK FALSE
INVARIANT FreepGivenPointer
