SPECIFICATION Spec
CONSTANTS
  n = n
  m = m
  none = none
  unreadable = unreadable
  NodeName = n
  Addr <- MCAddr
  V6 <- MCV6
  Port <- MCPort
  PodObject <- MCPodObject
  NsLabels <- MCNsLabels
  Policies <- MCPolicies
  None = none
  Unreadable = unreadable
INVARIANTS TypeOK PolicyEnforced ValidPoliciesRender RulesMatchSomething
CHECK_DEADLOCK FALSE
