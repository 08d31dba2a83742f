SPECIFICATION Spec
CONSTANTS
  Workers = {w1, w2}
  NoWorker = NoWorker
INVARIANTS TypeOK ActiveServes HaltTerminates
PROPERTIES DeadActiveCleared NoStrayProcess
CHECK_DEADLOCK FALSE
