SPECIFICATION FairSpec
CONSTANTS
  s1 = s1
  a1 = a1
  Entity = {s1}
  KindOf <- OneSong
  Worker = {w1, w2}
  Reader = {}
  Job = {j1, j2}
  NoWorker = NoWorker
  MaxRetries = 2
  MaxRev = 1
  MaxFaults = 2
CHECK_DEADLOCK FALSE
PROPERTY EntryDelivered
