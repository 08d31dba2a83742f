SPECIFICATION Spec
CONSTANTS
  MaxStream = 2
  MaxSession = 2
  RelayCap = 3
  BridgeCap = 1
  MaxStreams = 1
  MaxUp <- UpFrames
  MaxDown <- DownFrames
  MaxFaults = 1
  None = None
INVARIANTS TypeOK NoStreamLeak CutIsNoticed BridgeForgets
PROPERTIES PipeSpec
CHECK_DEADLOCK FALSE
