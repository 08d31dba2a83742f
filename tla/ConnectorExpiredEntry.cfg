SPECIFICATION FairSpec
CONSTANTS
  Invocations = {i1, i2}
  Idempotent = {}
  FaultKinds = {"ack_refused", "expiry"}
  MaxFaults = 2
PROPERTIES EventuallyClaimed
