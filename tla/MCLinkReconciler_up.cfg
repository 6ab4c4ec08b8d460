SPECIFICATION Spec
CONSTANTS
  a = a
  b = b
  a1 = a1
  a2 = a2
  b1 = b1
  b2 = b2
  RealmDevices = {a}
  NeighborDevices = {b}
  OutPorts = {b1}
  InPorts = {a1}
  DeviceOf <- MCDeviceOf
  NoLink = NoLink
  None = None
  AgentSkew <- MCAgentSkew
  Ahead = 0
  ControllerSkew = 0
  MaxSkew = 0
  Hasty = 2
  MaxChanges = 2
  MaxFaults = 0
PROPERTY
  ReportedLinkIsUp
CHECK_DEADLOCK FALSE
