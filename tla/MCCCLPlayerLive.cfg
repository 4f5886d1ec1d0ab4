CONSTANTS
    Limit = 1
    FileEnd = 1
    MaxSeeks = 1
    MaxFrames = 1
    Layouts <- MCAny
    Filters <- MCFilters
    Streams = {"audio", "video", "other"}
    FreepNull = "return"
SPECIFICATION FairSpec
CHECK_DEADLOCK FALSE
PROPERTY ExitEndsPlayback
