SPECIFICATION Spec
CONSTANTS
  self = self
  p = p
  s4 = s4
  p4host = p4host
  p4 = p4
  p6 = p6
  none = none
  noaddr = noaddr
  garbage = garbage
  Node <- MCNode
  Self = self
  Prefix <- MCPrefix
  Mask <- MCMask
  Addr <- MCAddr
  V6 <- MCV6
  NoNode = none
  NoAddr = noaddr
  NodeObject <- MCNodeObject
  OnLink <- MCOnLink
  HostV6 <- MCHostV6
  MaxUnread = 1
  MaxChanges = 1
PROPERTY ForeignUntouched
