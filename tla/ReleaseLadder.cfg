SPECIFICATION Spec
CONSTANTS
  NewPages = FALSE
  MaxPushes = 2
  MaxFailures = 2
  MaxDiscards = 1
  MaxRepeats = 2
  MaxGates = 1
INVARIANTS TokenCoversTheRelease VersionsGrow ReleasesComeFromMain
PROPERTIES ResumeFinishes
CHECK_DEADLOCK FALSE
