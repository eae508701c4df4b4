\* Everything that can go wrong, two jobs competing for one replay.
SPECIFICATION Spec
CONSTANTS
  j1 = j1
  j2 = j2
  r1 = r1
  r2 = r2
  Jobs = {j1, j2}
  Replays = {r1}
  ReplayOf <- SameReplay
  Backends = {"boundless"}
  MaxAttempts = 2
  MaxDeliveries = 1
  SlowConsumers = TRUE
  MayOverrun = TRUE
  MayExpire = TRUE
  MaxMessages = 2
  MaxRequests = 2
  MaxCancels = 1
  MaxRetries = 1
  MaxCrashes = 1
  MaxRestarts = 0
  MaxLostSends = 0
  MaxFalseErrors = 0
SYMMETRY SymmetricJobs
INVARIANTS
  RegistryAgreesWithJob
  ProofFromOwnRequest
  NoOrphanedJob
PROPERTIES
  LockIsPermanent
  LockedIsNeverRequeued
CHECK_DEADLOCK FALSE
