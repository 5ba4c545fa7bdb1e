SPECIFICATION Spec
CONSTANTS
  Bytes = {0, 1}
  BufLen = 3
  Modems <- MCModems
  PreambleMs <- MCPreambleMs
  HeaderMs <- MCHeaderMs
  StuckIrqMs = 0
  Frames <- MCFrames
  OutFrames <- MCFrames
  EngineLumps = {1, 2}
  FramesPerTick = 1
  ReportsBusy = FALSE
  GivesUp = FALSE
  OddKinds = {"Originate"}
  SpiMs = 1
  RtcPeriod = 2
  MaxMs = 3
  MaxFed = 2
  MaxSent = 2
INVARIANTS NoTalkOver AckIsCaughtUp
PROPERTIES KeepsService ClocksForward
