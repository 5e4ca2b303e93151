SPECIFICATION FairOffloadSpec
CONSTANTS
    Runs = {1, 2}
    Files = {"raw", "clean"}
    MaxSize = 1
    AgeOnly = FALSE
    Limit = 1
    BackstopLimit = 1
    MaxFaults = 2
    Zombies = {1}
INVARIANTS
    RawPreserved
    LeavesInOrder
PROPERTIES
    IndexedColdIsFinal
    Relocated
