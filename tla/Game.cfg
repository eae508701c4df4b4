CONSTANTS
  StartingLives = 2
  ExtraLifeStep = 3
  Points <- MCPoints
  RespawnFrames = 1
  NeverFrames = 9
  SafeFrames = 1
  CooldownFrames = 2
  BulletLife = 3
  BulletLimit = 2
  ShotLimit = 1
  AsteroidCap = 2
  WaveAsteroids <- MCWaveAsteroids
  WaveSaucers <- MCWaveSaucers
  MaxFrames = 5
  MaxSubsteps = 2

SPECIFICATION GameSpec

INVARIANTS
  RefusedOnlyForALateLife
  TapeHoldsTheRun
