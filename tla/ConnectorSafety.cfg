SPECIFICATION FairSpec
CONSTANTS
  Invocations = {i1, i2}
  Idempotent = {i2}
  FaultKinds = {"crash", "rpc", "io", "ack_refused", "result_refused", "expiry"}
  MaxFaults = 3
INVARIANTS TypeOK AtMostOnce AckBeforeDispatch HonestOutcome OneReceipt NoContradiction RestoresLatest
PROPERTIES StagesAdvance EventuallyReported
