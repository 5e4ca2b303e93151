SPECIFICATION AllowanceSpec
CONSTANTS
    w1 = w1
    w2 = w2
    trades = trades
    depth = depth
    universe = universe
    Workers <- TwoWorkers
    Streams <- TwoStreams
    Snapshots <- Universe
    Nobody = Nobody
    MaxGrants = 3
    Pool = 9
    Chunk = 3
    Margin = 2
    Overhead = 1
    Snapshot = 2
    MaxFrame = 3
    MaxFaults = 1
    r1 = r1
    r2 = r2
    LeaseRuns <- TwoRuns
    NoRun = NoRun
    Slots = 2
    Seconds = 2
    LastTick = 4
    MaxSteps = 1
    MaxReboots = 1
    MaxFrames = 3
    MaxBreaks = 1
    MaxMishaps = 1
SYMMETRY Symmetry
INVARIANTS
    OneWriterPerLane
    PoolHolds
    ClosedRowsAreTrue
    AdmissionIsRight
    RefusalIsTold
PROPERTIES
    FinalIsFinal
    AllowanceHolds
    StopsAreRight
