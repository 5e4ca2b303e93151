SPECIFICATION Spec
CONSTANTS
    Lanes <- MCLanes
    AckTimeout = 1
    PingInterval = 1
    StormWindow = 2
    BackoffBase = 1
    BackoffCap = 2
    MaxAttempts = 2
    MaxDecodeErrors = 2
    Count = 3
    Batch = 2
    PartRows = 1
    MaxSegments = 2
    MaxFrames = 3
    MaxTroubles = 3
    Crashes = TRUE
INVARIANTS RecordsWhatArrived SilenceEndsSegment LossIsBounded
PROPERTIES StormsAreDamped WatchedSegmentsEnd
