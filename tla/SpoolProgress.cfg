SPECIFICATION FairSpec

CONSTANTS
  d1 = d1
  d2 = d2
  t1 = t1
  t2 = t2
  b1 = b1
  b2 = b2
  Deliveries = {d1, d2}
  Threads = {t1, t2}
  ThreadOf <- OneThread
  Bodies = {b1}
  NoBody = NoBody
  BodySize <- OneSize
  Holders = {h1}
  NoHolder = NoHolder
  MaxRows = 2
  MaxBytes = 2
  MaxRecordedAttempts = 1
  MaxRetryDelay = 1
  DeliveredRetention = 0
  RejectedRetention = 0
  MaxSequence = 2
  MaxEpoch = 3
  MaxRevision = 2
  Workers = {w1}
  Timeout = 1
  MinLease = 0
  StartSlack = 1
  Timely = TRUE
  MaxFaults = 2
PROPERTIES EventuallyDecided PauseReturns
