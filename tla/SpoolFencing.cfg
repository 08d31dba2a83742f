SPECIFICATION Spec
SYMMETRY SymmetryOfOneThread
CONSTANTS
  d1 = d1
  d2 = d2
  t1 = t1
  t2 = t2
  b1 = b1
  b2 = b2
  Deliveries = {d1, d2}
  Threads = {t1}
  ThreadOf <- OneThread
  Bodies = {b1, b2}
  NoBody = NoBody
  BodySize <- TwoSizes
  Holders = {h1}
  NoHolder = NoHolder
  MaxRows = 2
  MaxBytes = 3
  MaxRecordedAttempts = 1
  MaxRetryDelay = 1
  DeliveredRetention = 1
  RejectedRetention = 1
  MaxSequence = 3
  MaxEpoch = 2
  MaxRevision = 0
  Workers = {w1, w2}
  Timeout = 1
  MinLease = 0
  StartSlack = 0
  Timely = FALSE
  MaxFaults = 2
INVARIANTS TypeOK NoLoss ThreadOrder SingleHolder Bounded
PROPERTY OutboxSpec
