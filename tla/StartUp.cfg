SPECIFICATION FairSpec
CONSTANTS
  MaxChanges = 3
INVARIANT StartsOnlyReady
PROPERTY ForwardingComesOn
\* A daemon that runs takes no further step of this module.
CHECK_DEADLOCK FALSE
