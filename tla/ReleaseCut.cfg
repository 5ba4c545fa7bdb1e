SPECIFICATION Spec
CONSTANTS
  Branches <- MCBranches
  Tags <- MCTags
  Platforms = {"linux", "darwin"}
  RsPlatforms = {"linux", "darwin"}
  Builds <- MCBuilds
  Batch = 1
  Runs = {"r1"}
  Wanted <- MCWanted
  MaxMoves = 1
  MaxFaults = 1
INVARIANT FinishedHasBinaries
