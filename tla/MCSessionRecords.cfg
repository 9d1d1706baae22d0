CONSTANTS
    kMaxNumOfRecords = 4
    Frames <- MCFrames
    JankDuration = 2
    LowRateInterval = 3
    ModerateJank = 1
    SevereJank = 2
    OffRatio = 2
    MaxFrames = 7
    MaxTurns = 1
SPECIFICATION RecordsSpec
INVARIANT FpsSumOfLastFrames
CHECK_DEADLOCK FALSE
