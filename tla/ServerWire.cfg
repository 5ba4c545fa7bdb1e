SPECIFICATION Running
CONSTANTS
  Base = 2
  SockCap = 1
  Others <- MCOthers
  EngineLumps = {1}
  MaxMs = 2
  MaxOthers = 1
  Asked = {"CsRelease", "Xfer", "SetFem", "ReadIrq", "Unknown"}
INVARIANTS AnswersMatch EndsOnlyWithPeers AcksAreTicks
PROPERTIES KeepsChannels TicksAcked EndsWithPeers
