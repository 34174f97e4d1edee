SPECIFICATION Spec
CONSTANTS
  a4 = a4
  b4 = b4
  pod4 = pod4
  a6 = a6
  nopolicy = nopolicy
  noblock = noblock
  absent = absent
  Policy <- MCPolicy
  NoPolicy = nopolicy
  Address <- MCAddress
  V6 <- MCV6
  NodePods <- MCNodePods
  Labels <- MCLabels
  RawSpec <- MCRawSpec
  PortSeen <- MCPorts
  NoBlock = noblock
  Absent = absent
INVARIANTS TypeOK SafeTrafficPasses EnforceDrops PermissiveShows RefusedAddsNothing AgreesWithNodePolicy
CHECK_DEADLOCK FALSE
