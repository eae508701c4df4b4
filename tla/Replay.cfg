\* One game sent in twice, one failure; a page of jobs is read at once.
SPECIFICATION FairSpec
CONSTANTS
  LastJob = 2
  Game <- MCGame
  PageSize = 2
  MaxJobs = 3
  BatchLimit = 3
  MaxPasses = 2
  PruneLimit = 3
  PruneEvery = 2
  MaxAttempts = 1
  MaxFaults = 1
INVARIANTS
  ShowsItsOwnGame
PROPERTIES
  
  
  IndexedIsShown
CHECK_DEADLOCK FALSE
