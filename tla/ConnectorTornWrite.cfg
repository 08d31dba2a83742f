SPECIFICATION Spec
CONSTANTS
  Invocations = {i1, i2}
  Idempotent = {}
  FaultKinds = {"torn", "crash"}
  MaxFaults = 2
INVARIANTS RestoresLatest
