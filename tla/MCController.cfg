SPECIFICATION Spec
CONSTANTS
  Objects = {o1}
  NeighborObjects = {}
  HasNeighbor = FALSE
  RealmWorkers = {w1, w2}
  NeighborWorkers = {}
  QueueDepth = 1
  None = None
  MaxVersion = 2
  MaxFaults = 1
INVARIANTS
  TypeOK
  ReconcilersExist
  OneWatchAtWork
PROPERTIES
  RealmChangesAreDiscovered
  BrokenWatchIsNoticed
  StopIsNoticed
CHECK_DEADLOCK FALSE
