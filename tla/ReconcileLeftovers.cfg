SPECIFICATION Spec
CONSTANTS
    Roadmap = {"a"}
    Backlog = {"b"}
    AdHoc = {}
    MaxRuns = 2
    MaxFaults = 2
PROPERTIES LeftoversAreDeadFirst PrunesOnlyOrphans LeftoversAreCleared
CHECK_DEADLOCK FALSE
