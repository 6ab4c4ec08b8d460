SPECIFICATION SafeSpec
CONSTANTS
  a = a
  b = b
  m1 = m1
  m2 = m2
  Devices = {a, b}
  Hosts = {h1}
  AgentOf <- MCAgentOf
  AnswersEmpty = {a}
  Ports = {p1}
  Zero = Zero
  NoId = NoId
  None = None
  MonitorsOf <- MCMonitorsOf
  MaxChanges = 1
  MaxFaults = 1
INVARIANTS
  HostsHaveAgent
CHECK_DEADLOCK FALSE
