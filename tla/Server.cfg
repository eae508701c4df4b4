\* Three jobs for a table of two rows: hanging proofs, a failing call or a crash.
SPECIFICATION FairSpec
CONSTANTS
  MaxPosts = 3
  MaxJobs = 2
  KillsTimedOut = TRUE
  MaxFaults = 1
INVARIANTS
  OneActiveRow
  OneProofAtATime
  SucceededHasResult
  FileIsAccountedFor
PROPERTIES
  SlotIsFreed
CHECK_DEADLOCK FALSE
