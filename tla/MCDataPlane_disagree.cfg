SPECIFICATION QuietSpec
CONSTANTS
  self = self
  p = p
  s4 = s4
  p4host = p4host
  p4 = p4
  p6 = p6
  x4 = x4
  none = none
  noaddr = noaddr
  notable = notable
  noinput = noinput
  unrenderable = unrenderable
  Node <- MCNode
  Self = self
  Prefix <- MCPrefixFew
  Mask <- MCMaskFew
  Addr <- MCAddrFew
  V6 <- MCV6
  NoNode = none
  NoAddr = noaddr
  NodeObject <- MCObjectFew
  OnLink <- MCOnLink
  HostV6 = {}
  MaxUnread = 1
  MaxChanges = 2
  NoTable = notable
  NoInput = noinput
  Unrenderable = unrenderable
INVARIANT CannotDisagree
