SPECIFICATION Running
CONSTANTS
  Branches <- MCBranches
  Tags <- MCOneTag
  Platforms = {"linux", "darwin"}
  RsPlatforms = {"linux", "darwin"}
  Builds <- MCBuilds
  Batch = 1
  Runs = {"r1"}
  Wanted <- MCBlank
  MaxMoves = 1
  MaxFaults = 2
INVARIANTS HoldsWhatItSays RadioServerWhole
PROPERTY BacklogDrains
