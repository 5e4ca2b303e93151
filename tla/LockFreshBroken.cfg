SPECIFICATION Spec
CONSTANTS
    Procs = {p1, p2, p3}
    NoFile = NoFile
    MidWriteGrace = 2
    Deadline = 3
    CreatedGrace = 4
    FreshFor = 4
    Old = 5
    Modes <- MCRace
PROPERTY NoFreshLockBroken
