SPECIFICATION FairSpec
CONSTANTS
  MaxPerDay = 3
  MaxFeatures = 2
  MaxFailures = 2
  MaxStarts = 3
  MaxKills = 1
  MaxLost = 1
INVARIANTS CapSurvivesRestarts StreakTrips
PROPERTIES StopIsHonoured SigintEndsTheWatch
CHECK_DEADLOCK FALSE
