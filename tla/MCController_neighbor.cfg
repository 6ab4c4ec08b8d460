SPECIFICATION Spec
CONSTANTS
  Objects = {n1}
  NeighborObjects = {n1}
  HasNeighbor = TRUE
  RealmWorkers = {}
  NeighborWorkers = {v1}
  QueueDepth = 1
  None = None
  MaxVersion = 2
  MaxFaults = 1
PROPERTIES
  NeighborIsRegistered
CHECK_DEADLOCK FALSE
