SPECIFICATION Spec
CONSTANTS
  Video = {v1}
  Lease = {l1, l2, l3, l4, l5, l6, l7, l8}
  NoLease = NoLease
  Priority = {1, 2}
  Job = {j1, j2}
  Worker = {w1, w2}
  NoJob = NoJob
  NoWorker = NoWorker
  QueueCap = 1
  ChunkSize = 1
  MaxPerTick = 2
  MaxFaults = 1
  MaxRequests = 1
  MaxCommands = 1
SYMMETRY Symmetry
ACTION_CONSTRAINT OneDisturbance
CHECK_DEADLOCK FALSE
INVARIANT TypeOK
INVARIANT QueueBounded
INVARIANT SingleCarrier
PROPERTY StaleAnswersNeverSettle
