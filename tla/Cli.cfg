\* Two windows and two overlapping ticks.
SPECIFICATION FairSpec
CONSTANTS
  Exploiter = w0
  Explorers = {w1}
  Elsewhere <- MCElsewhere
  Relayer = TRUE
  MaxScore = 2
  MaxWindow = 2
  MaxTicks = 2
  MaxGames = 2
  MaxFaults = 1
  MaxDrains = 2
  Patience = 1
  Budget = 1
INVARIANTS
  TapeOfItsWindow
  LastIsTrue
PROPERTIES
  BestIsKept
  BestIsSubmitted
CHECK_DEADLOCK FALSE
