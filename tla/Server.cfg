SPECIFICATION Spec
CONSTANTS
  Bytes = {0, 1}
  BufLen = 3
  Modems <- MCModems
  PreambleMs <- MCPreambleMs
  HeaderMs <- MCHeaderMs
  StuckIrqMs = 0
  Frames <- MCFrames
  OutFrames <- MCOneFrame
  EngineLumps = {1}
  FramesPerTick = 1
  ReportsBusy = TRUE
  GivesUp = FALSE
  OddKinds = {"Unknown"}
  MaxMs = 3
  MaxFed = 1
  MaxSent = 2
  MaxReads = 5
  FemLevels = {TRUE}
INVARIANTS FramesOut DriverMatchesChip ListenTruthful
