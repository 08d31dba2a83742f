SPECIFICATION Spec
CONSTANTS
  Threads = {t1, t2}
  Renewals = {r1}
  Leases = {l1}
  MaxToken = 3
  MaxRevision = 2
  MaxInstance = 2
  MaxLive = 2
  None = None
SYMMETRY Symmetry
INVARIANTS TypeOK NeverReplayed CodePolledOnce
PROPERTIES NoLostUpdate LeaseEndsWithLogin
CHECK_DEADLOCK FALSE
