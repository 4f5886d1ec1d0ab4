CONSTANTS
    Limit = 1
    FileEnd = 2
    MaxSeeks = 1
    MaxFrames = 2
    Layouts <- MCAny
    Filters <- MCFilters
    Streams = {"audio", "video", "other"}
    FreepNull = "return"
SPECIFICATION Spec
CHECK_DEADLOCK FALSE
INVARIANT LossNeedsSeek Backpressure QueuesOrdered OneStalePacket VideoClockTrusted LoadShownRight SleepNeedsSeek
PROPERTY StallIsPermanent EofDrainsOne
