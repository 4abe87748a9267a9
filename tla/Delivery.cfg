SPECIFICATION Spec
CONSTANTS
    Branch = {"b1", "b2"}
    LateChecks = FALSE
    Red = {"b1"}
    Adjacent = {"b1"}
    MaxFailures = 1
INVARIANTS OnlyGreenLands LandsOnce
PROPERTIES WorkLands
CHECK_DEADLOCK FALSE
