\* Two proofs of one claimant for one seed, and each of the faults.
SPECIFICATION FairSpec
CONSTANTS
  j1 = j1
  j2 = j2
  Jobs = {j1, j2}
  Score <- LowAndHigh
  MaxDeliveries = 2
  MaxAuto = 2
  MaxMessages = 2
  Faults = {"again", "retry", "cancel", "enrich", "crash", "restart", "false", "pause", "lost", "slow"}
  MaxFaults = 1
INVARIANTS
  SucceededMeansPaid
  WrittenOffOnlyIfClosed
  IndexedOrExhausted
PROPERTIES
  ClaimsSettle
CHECK_DEADLOCK FALSE
