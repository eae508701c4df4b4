\* The cron's sync and another at the same time; pages, files and writes fail.
SPECIFICATION FairSpec
CONSTANTS
  MaxSyncs = 2
  MaxOverlaps = 1
  MaxLedger = 4
  PerLedger = 2
  FormOf <- MCForms
  PerFile = 1
  Retention = 2
  Limit = 1
  ScanLimit = 2
  MaxPages = 2
  ChunkSize = 2
  Window = 2
  FirstWindow = 1
  CatchupWindow = 2
  HasLake = TRUE
  MaxMissing = 1
  MaxFaults = 1
INVARIANTS
  NothingSkipped
PROPERTIES
  CatchesUp
