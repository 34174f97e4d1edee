SPECIFICATION Spec
CONSTANTS
  m = m
  n = n
  nopolicy = nopolicy
  notable = notable
  unrenderable = unrenderable
  noinput = noinput
  noentry = noentry
  unsaid = unsaid
  Node <- MCNode1
  Policy <- MCPolicy2
  NoPolicy = nopolicy
  PolicySpec <- MCSpecs
  Input <- MCInput
  MaxGeneration = 2
  MaxChanges = 2
  NoTable = notable
  Unrenderable = unrenderable
  NoInput = noinput
  NoEntry = noentry
  Unsaid = unsaid
INVARIANTS TypeOK 
PROPERTY TrueWhenWritten
