\* Nobody cancels, no consumer crashes: the ledger of replays is kept.
SPECIFICATION Spec
CONSTANTS
  j1 = j1
  j2 = j2
  r1 = r1
  r2 = r2
  Jobs = {j1, j2}
  Replays = {r1}
  ReplayOf <- SameReplay
  Backends = {"boundless"}
  MaxAttempts = 2
  MaxDeliveries = 1
  SlowConsumers = FALSE
  MayOverrun = FALSE
  MayExpire = TRUE
  MaxMessages = 4
  MaxRequests = 2
  MaxCancels = 0
  MaxRetries = 2
  MaxCrashes = 0
  MaxRestarts = 1
  MaxLostSends = 1
  MaxFalseErrors = 0
SYMMETRY SymmetricJobs
INVARIANTS
  ReplayDispatchedByOneJob
PROPERTIES
  KeepsLedger
CHECK_DEADLOCK FALSE
