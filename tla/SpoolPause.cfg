SPECIFICATION Spec
SYMMETRY ProcessSymmetry
CONSTANTS
  d1 = d1
  d2 = d2
  t1 = t1
  t2 = t2
  b1 = b1
  b2 = b2
  Deliveries = {d1, d2}
  Threads = {t1, t2}
  ThreadOf <- TwoThreads
  Bodies = {b1}
  NoBody = NoBody
  BodySize <- OneSize
  Holders = {h1, h2}
  NoHolder = NoHolder
  MaxRows = 2
  MaxBytes = 2
  MaxRecordedAttempts = 1
  MaxRetryDelay = 0
  DeliveredRetention = 0
  RejectedRetention = 0
  MaxSequence = 2
  MaxEpoch = 2
  MaxRevision = 5
  Workers = {w1, w2}
  Timeout = 1
  MinLease = 0
  StartSlack = 1
  Timely = TRUE
  MaxFaults = 1
INVARIANTS PauseDrained ReplaySafe
