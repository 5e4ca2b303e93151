SPECIFICATION PollingSpec
CONSTANTS
    Wallets = {"a", "b"}
    Fills = {1, 2, 3}
    Histories <- MCHistories
    ResponseCap = 2
    TwapCap = 2
    TwapEvery = 1
    Overlap = 1
    PollerMargin = 1
    TwapMargin = 1
    MaxSegment = 1
    Retention = 2
    MaxLate = 1
    MaxTime = 4
    MaxSegments = 3
    MaxCrashes = 1
    MaxBackfills = 1
    PageLimit = 1
    MaxPages = 2
    MaxResumeGap = 1
    MaxDelay = 1
    AggTime = 3
    AggTrades = 3
    AggRuns = 3
    AggFaults = 1
    Bodies <- MCBodies
    Tagged = {1}
    NoId = "none"
    SeenCap = 2
    TextRevisions = 3
    TextSegments = 3
    TextFaults = 1
INVARIANTS
    SlicesFromNowOn
CHECK_DEADLOCK FALSE
