SPECIFICATION FairSpec
CONSTANTS
    Procs = {p1, p2, p3}
    NoFile = NoFile
    MidWriteGrace = 1
    Deadline = 1
    CreatedGrace = 2
    FreshFor = 2
    Old = 3
    Modes <- MCModes
INVARIANT MutualExclusion
PROPERTIES ReleasesOwnLock OnlyDeadIsStale StaleLockIsReclaimed
