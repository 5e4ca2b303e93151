---------------------------- MODULE MCRunnerLock ----------------------------
EXTENDS RunnerLock, TLC

Mode(own, serial, drain) == [ownBeat |-> own, serial |-> serial, mayDrain |-> drain]
\* The worker's lock launched one at a time, the runner's lock in a race, and the
\* worker's lock in a race among owners that may drain.
MCModes == {Mode(TRUE, TRUE, FALSE), Mode(FALSE, FALSE, FALSE), Mode(TRUE, FALSE, TRUE)}
MCRace == {Mode(FALSE, FALSE, FALSE)}
=============================================================================
