SPECIFICATION Spec
CONSTANTS
    Runs = {1, 2}
    Legacy = {1}
    MaxRows = 2
    BatchSize = 1
    Limit = 2
    SegmentAge = 1
    Watchdog = FALSE
    Floor = 1
    Window = 2
    BackstopAge = 2
    MaxAge = 2
    Backstop = FALSE
    MinPercent = 98
    MaxFaults = 2
INVARIANTS
    BrokenRepairIsFound
    WritersApart
