SPECIFICATION Spec
CONSTANTS Lane = {"reviewer", "codex"}
          Finding = {"f1"}
          RoundCap = 1
          MaxTree = 2
          Reopens = FALSE
          MaxFaults = 2
INVARIANTS BlockersAreAnswered PushesAreAnswered
PROPERTIES SessionCloses
CHECK_DEADLOCK FALSE
