CONSTANTS
    demux = demux
    decoder = decoder
    renderer = renderer
    user = user
    NoThread = NoThread
    Threads <- MCPacketThreads
    Calls <- MCPacketCalls
    KeyItems <- MCKeyItems
    MaxItems = 2
    RefCanFail = FALSE
SPECIFICATION FairSpec
CHECK_DEADLOCK FALSE
PROPERTY SleeperServed NoticeEndsGet CallsEnd
