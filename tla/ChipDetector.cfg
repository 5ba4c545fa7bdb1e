SPECIFICATION Spec
CONSTANTS
  Bytes = {0, 1}
  BufLen = 2
  Modems <- MCModems
  PreambleMs <- MCPreambleMs
  HeaderMs <- MCHeaderMs
  IrqMasks <- MCNoMask
  Frames <- MCFrames
  ClearMasks <- MCClearMasks
  StuckIrqMs = 2
  GainWrites = {"saving"}
  FemLevels = {FALSE}
  TxLengths = {0}
  TxWrites <- MCNothing
  MaxStep = 2
  MaxMs = 3
  MaxInbox = 1
  MaxReads = 1
INVARIANTS TypeOK DetectorLatched StatsPossible SpuriousRate
PROPERTY TicksSeeSignal
