SPECIFICATION Spec
CONSTANTS
  Threads = {t1, t2}
  Sessions = {s1, s2}
  Unlinks = {k1}
  Leases = {l1, l2}
  MaxToken = 3
  MaxInstance = 2
  MaxLive = 1
  None = None
INVARIANTS TypeOK RotateOnce LeasesEndWithCredential UnlinkTruth NothingOrphaned TokenTracked
CHECK_DEADLOCK FALSE
