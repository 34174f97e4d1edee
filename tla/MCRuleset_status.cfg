SPECIFICATION Spec
CONSTANTS
  m = m
  n = n
  nopolicy = nopolicy
  notable = notable
  unrenderable = unrenderable
  noinput = noinput
  noentry = noentry
  unsaid = unsaid
  Node <- MCNode1
  Policy <- MCPolicy1
  NoPolicy = nopolicy
  PolicySpec <- MCSpecs
  Input <- Labelled
  MaxGeneration = 2
  MaxChanges = 1
  NoTable = notable
  Unrenderable = unrenderable
  NoInput = noinput
  NoEntry = noentry
  Unsaid = unsaid
INVARIANT StatusInStep
