CONSTANTS
    demux = demux
    decoder = decoder
    renderer = renderer
    user = user
    NoThread = NoThread
    Threads <- MCThreads
    Calls <- MCCalls
    KeyItems <- MCKeyItems
    MaxItems = 2
    RefCanFail = FALSE
SPECIFICATION Spec
CHECK_DEADLOCK FALSE
INVARIANT DroppedPacketsFreed
