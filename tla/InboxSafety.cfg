SPECIFICATION Spec
CONSTANTS
  Slug = {a, b}
  Watcher = watcher
  OneShot = oneshot
  NoOne = noone
  MaxCycles = 3
  MaxKills = 1
INVARIANTS OneRowPerIncident NothingParkedSilently
PROPERTIES GraceHolds
SYMMETRY EntrySymmetry
CHECK_DEADLOCK FALSE
