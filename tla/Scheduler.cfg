SPECIFICATION Spec
CONSTANTS
    LaneSeq <- MCLaneSeq
    MaintSeq <- MCMaintSeq
    Interval <- MCInterval
    Longest <- MCLongest
    Segment <- MCSegment
    MayHang = {"offload"}
    NoLimit = NoLimit
    Modes <- MCModes
    Cap = 8
    StaleAfter = 3
    StallAfter = 6
    FailureWindow = 2
    Allowance = 2
INVARIANTS LaunchesAreAccounted HealthIsTold QueueFitsAllowance
PROPERTIES LastBeatStays JobsKeepRunning
