SPECIFICATION Spec
CONSTANTS
  c1 = c1
  c2 = c2
  c3 = c3
  c4 = c4
  c5 = c5
  r1 = r1
  pod1 = pod1
  rack1 = rack1
  switch1 = switch1
  server1 = server1
  ipu1 = ipu1
  Clients <- MCClients
  Ids <- MCIds
  IpuOf <- MCIpuOf
  Request <- MCRequest
  Realms = {r1}
  RealmLabel = "pod"
  RealmValue = pod1
  NoId = NoId
  None = None
  MaxFaults = 1
INVARIANTS
  TypeOK
  SuccessIsComplete
  PlacedAsLabelled
  IpuHasServer
  AddedIsFound
  HalfAddedIsHeld
PROPERTIES
  AskedIsAdded
CHECK_DEADLOCK FALSE
