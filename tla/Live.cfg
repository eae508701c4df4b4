\* Fair scheduling, two crashes and one restart.
SPECIFICATION FairSpec
CONSTANTS
  j1 = j1
  j2 = j2
  r1 = r1
  r2 = r2
  Jobs = {j1}
  Replays = {r1}
  ReplayOf <- OneJob
  Backends = {"boundless", "vast"}
  MaxAttempts = 2
  MaxDeliveries = 2
  SlowConsumers = FALSE
  MayOverrun = FALSE
  MayExpire = FALSE
  MaxMessages = 3
  MaxRequests = 2
  MaxCancels = 0
  MaxRetries = 0
  MaxCrashes = 2
  MaxRestarts = 1
  MaxLostSends = 0
  MaxFalseErrors = 0
INVARIANTS
  LeaseIsExclusive
  AlarmChain
PROPERTIES
  EveryJobEnds
CHECK_DEADLOCK FALSE
