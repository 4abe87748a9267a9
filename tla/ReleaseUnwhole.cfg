SPECIFICATION Spec
CONSTANTS
    NewPages = FALSE
    MaxPushes = 0
    MaxFailures = 1
    MaxDiscards = 0
    MaxRepeats = 2
    MaxGates = 0
INVARIANT ReleasesAreWhole
CHECK_DEADLOCK FALSE
