SPECIFICATION Spec
CONSTANTS
  a = a
  b = b
  a1 = a1
  a2 = a2
  b1 = b1
  b2 = b2
  RealmDevices = {a, b}
  NeighborDevices = {}
  OutPorts = {b1}
  InPorts = {a1}
  DeviceOf <- MCDeviceOf
  NoLink = NoLink
  None = None
  AgentSkew <- MCAgentSkew
  Ahead = 2
  ControllerSkew = 0
  MaxSkew = 2
  Hasty = 1
  MaxChanges = 2
  MaxFaults = 1
INVARIANTS
  TypeOK
  HalfMadeLinkIsHeld
  SteadyLinkStaysUp
PROPERTIES
  ImplementsTopoLinks
  RisenLinkIsUp
  AbsentLinkGoesDown
  ParkedIsTakenOn
  RelationsExist
CHECK_DEADLOCK FALSE
