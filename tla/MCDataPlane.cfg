SPECIFICATION QuietFairSpec
CONSTANTS
  self = self
  p = p
  s4 = s4
  p4host = p4host
  p4 = p4
  p6 = p6
  x4 = x4
  none = none
  noaddr = noaddr
  notable = notable
  noinput = noinput
  unrenderable = unrenderable
  Node <- MCNode
  Self = self
  Prefix <- MCPrefix
  Mask <- MCMask
  Addr <- MCAddr
  V6 <- MCV6
  NoNode = none
  NoAddr = noaddr
  NodeObject <- MCNodeObject
  OnLink <- MCOnLink
  HostV6 = {}
  MaxUnread = 1
  MaxChanges = 1
  NoTable = notable
  NoInput = noinput
  Unrenderable = unrenderable
INVARIANTS PeersReached LeavingMasqueraded
PROPERTY PodTrafficComesRight
