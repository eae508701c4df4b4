SYMMETRY Symmetry
SPECIFICATION Spec
CONSTANTS
  c1 = c1
  c2 = c2
  j1 = j1
  j2 = j2
  Calls = {c1, c2}
  Jobs = {j1, j2}
  NonceRange = 2
  MaxTries = 1
  MaxUsd = 1
  EthPrices = {1}
  Ether = 2
  BufferBps = 1500
  Deployment = 1
  SearchWindow = 2
  PageSize = 2
  MaxBlock = 4
  MaxFaults = 2
INVARIANTS
  
  DeliveredProofIsOwn
  FundingAddsUp
PROPERTIES
  SearchMissesNothing
CHECK_DEADLOCK FALSE
