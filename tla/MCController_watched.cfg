SPECIFICATION SafeSpec
CONSTANTS
  Objects = {o1}
  NeighborObjects = {}
  HasNeighbor = FALSE
  RealmWorkers = {w1}
  NeighborWorkers = {}
  QueueDepth = 1
  None = None
  MaxVersion = 2
  MaxFaults = 1
INVARIANT
  MonitoringIsWatched
CHECK_DEADLOCK FALSE
