SPECIFICATION Spec
CONSTANTS
  MaxStream = 2
  MaxSession = 2
  RelayCap = 3
  BridgeCap = 1
  MaxStreams = 1
  MaxUp <- UpFrames
  MaxDown <- DownFrames
  MaxFaults = 1
  None = None
INVARIANT RelayKnowsStreams
CHECK_DEADLOCK FALSE
