SPECIFICATION Spec
CONSTANTS
    Runs = {1}
    Legacy = {}
    MaxRows = 3
    BatchSize = 2
    Limit = 2
    SegmentAge = 1
    Watchdog = TRUE
    Floor = 1
    Window = 2
    BackstopAge = 2
    MaxAge = 3
    Backstop = TRUE
    MinPercent = 98
    MaxFaults = 2
PROPERTIES
    FailedRunIsDiscarded
