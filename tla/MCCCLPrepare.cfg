CONSTANTS
    MaxStreams = 4
    FrameRates <- MCFrameRates
    NoRate = NoRate
    ZeroDivision <- MCZeroDivision
SPECIFICATION Spec
CHECK_DEADLOCK FALSE
INVARIANT PrepareInv PlaysLastStreams PlayersLinked NoticesTellOutcome OneObjectPerLaterStream ReturnsClean
