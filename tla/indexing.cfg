SPECIFICATION Spec
CONSTANTS
  s1 = s1
  a1 = a1
  Entity = {s1}
  KindOf <- OneSong
  Worker = {w1, w2}
  Reader = {r1}
  Job = {j1, j2}
  NoWorker = NoWorker
  MaxRetries = 1
  MaxRev = 2
  MaxFaults = 1
SYMMETRY Symmetry
CHECK_DEADLOCK FALSE
INVARIANT TypeOK
INVARIANT AcknowledgedWasSynced
INVARIANT StaleHasCause
