SPECIFICATION MarketSpec
CONSTANTS
    Modes = {"rest", "dense", "chain", "checksum", "full", "none"}
    Depth = 2
    Published = 1
    MaxUpdates = 4
    MaxInFlight = 2
    MaxFaults = 1
    MaxDrops = 2
    MaxFetches = 2
    MaxAttempts = 2
    Lanes <- AllLanes
    Replayed = 2
    MaxClockSkew = 1
    StepTolerance = 1
    MaxDelay = 2
    MaxFutureSkew = 1
    MaxRuns = 2
    MaxPrints = 3
    MaxInFeed = 2
    MaxTime = 3
    MaxTroubles = 2
INVARIANTS
    VerdictIsProof
    NoFalseAlarm
    VerdictStands
    NoPrintTwice
    NoTapeFalseAlarm
CHECK_DEADLOCK FALSE
