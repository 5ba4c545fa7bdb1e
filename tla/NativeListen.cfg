SPECIFICATION Spec
CONSTANTS
  Bytes = {0, 1}
  BufLen = 3
  Modems <- MCModems
  PreambleMs <- MCPreambleMs
  HeaderMs <- MCHeaderMs
  StuckIrqMs = 0
  Frames <- MCOneFrame
  OutFrames <- MCOneFrame
  EngineLumps = {1, 2}
  FramesPerTick = 1
  ReportsBusy = TRUE
  GivesUp = FALSE
  OddKinds = {}
  SpiMs = 0
  RtcPeriod = 2
  MaxMs = 4
  MaxFed = 2
  MaxSent = 2
INVARIANTS ListenTruthful
