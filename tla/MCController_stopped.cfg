SPECIFICATION Spec
CONSTANTS
  Objects = {o1}
  NeighborObjects = {}
  HasNeighbor = FALSE
  RealmWorkers = {w1}
  NeighborWorkers = {}
  QueueDepth = 1
  None = None
  MaxVersion = 1
  MaxFaults = 0
PROPERTY
  StopStops
CHECK_DEADLOCK FALSE
