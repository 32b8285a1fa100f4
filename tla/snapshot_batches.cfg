SPECIFICATION Spec
CONSTANTS
  Video = {v1, v2}
  Lease = {l1, l2, l3, l4, l5, l6, l7, l8}
  NoLease = NoLease
  Priority = {1, 2}
  Job = {j1, j2}
  Worker = {w1}
  NoJob = NoJob
  NoWorker = NoWorker
  QueueCap = 1
  ChunkSize = 2
  MaxPerTick = 2
  MaxFaults = 0
  MaxRequests = 0
  MaxCommands = 2
SYMMETRY Symmetry
CHECK_DEADLOCK FALSE
PROPERTY LeaseAttended
