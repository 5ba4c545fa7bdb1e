SPECIFICATION BridgeRunning
CONSTANTS
  Base = 2
  SockCap = 2
  Others <- MCOthers
  Passes <- MCPasses
  EngineLumps = {1, 2}
  MaxMs = 2
  MaxOthers = 1
INVARIANTS AckIsLast TypedInOrder AcksAreTicks
PROPERTIES KeepsChannels EveryTickAcked EndsWithEngine
