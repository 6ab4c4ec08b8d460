SPECIFICATION Spec
CONSTANTS
  Ports = {p1}
  Zero = Zero
  None = None
  Monitors = {m1, m2, m3}
  MaxChanges = 2
  MaxFaults = 1
INVARIANTS
  TypeOK
  StrandedByFailures
PROPERTIES
  ListedPortIsKept
  PortSettles
  RemovedPortGoes
CHECK_DEADLOCK FALSE
