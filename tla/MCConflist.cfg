SPECIFICATION FairSpec
CONSTANTS
  old = old
  new = new
  NoFile = NoFile
  Torn = Torn
  Content <- MCContent
  Parts = 2
  MaxChanges = 1
  MaxStrays = 1
  MaxLosses = 1
INVARIANTS TypeOK NothingLeftBehind
PROPERTIES ImplementsWholeFile ListComesRight
