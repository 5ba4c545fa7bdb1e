SPECIFICATION Spec
CONSTANTS
  Bytes = {0, 1}
  BufLen = 3
  Modems <- MCModems
  PreambleMs <- MCPreambleMs
  HeaderMs <- MCHeaderMs
  StuckIrqMs = 0
  Commands <- MCAgree
  MaxLength = 10
  Frames <- MCFrames
  MaxMs = 2
  MaxCommands = 2

INVARIANTS RepliesAgree ChipsAgree
PROPERTIES ActsAtRelease
