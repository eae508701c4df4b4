\* A day of two ledgers, against seeds of one window's age.
SPECIFICATION Spec
CONSTANTS
  s1 = s1
  s2 = s2
  Claimants = {"c"}
  Seeds = {s1, s2}
  Scores = {0, 1, 2}
  TempTtl = 2
  MaxSeedAge = 1
  PerWindow = 2
  MaxWindow = 2
  MaxLedger = 6
SYMMETRY SymmetricSeeds
INVARIANTS
  MintedIsBestScore
  BeatenIsRefused
  OneSeedPerWindow
CHECK_DEADLOCK FALSE
