CONSTANTS
  MaxAttempts = 1
  MaxFailures = 2
  Near <- NearEpochs
  WindowSize = 2
  MinSamples = 2
  SeedAttempts = 1
  MaxPoses = 1
  StatusDepth = 1
  MayDrop = TRUE
SPECIFICATION FairSpec
INVARIANTS CurrentWasAligned
PROPERTIES NoJump LocalizedBecomesActive
