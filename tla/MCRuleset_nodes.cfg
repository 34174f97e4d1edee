SPECIFICATION SelectedFairSpec
CONSTANTS
  m = m
  n = n
  nopolicy = nopolicy
  notable = notable
  unrenderable = unrenderable
  noinput = noinput
  noentry = noentry
  unsaid = unsaid
  Node <- MCNode2
  Policy <- MCPolicy1
  NoPolicy = nopolicy
  PolicySpec <- MCSpecsFew
  Input <- Plain
  MaxGeneration = 2
  MaxChanges = 1
  NoTable = notable
  Unrenderable = unrenderable
  NoInput = noinput
  NoEntry = noentry
  Unsaid = unsaid
PROPERTIES SpeaksForItself NoNeedlessWrite ImplementsStatusBoard StatusSettles TableComesBack
