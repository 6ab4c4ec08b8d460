SPECIFICATION Spec
CONSTANTS
  Objects = {o1, o2}
  Revisions = {0}
  RealmWorkers = {w1, w2}
  NeighborWorkers = {n1}
  QueueDepth = 2
  None = None
INVARIANTS
  TypeOK
  OneWorkerPerObject
  NoStaleClaim
PROPERTIES
  SessionsSpec
  QueuedIsWorkedOn
  CloseDrains
CHECK_DEADLOCK FALSE
