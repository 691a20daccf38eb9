SPECIFICATION Spec
CONSTANTS
  Interval = 2
  Timeout = 4
  Lateness = 1
  Index = {0, 1}
  Names = {n1, n2, n3}
  Desired <- MCDesired
  ModeLists <- MCModeLists
  NoIndex = NoIndex
  NoName = NoName
INVARIANTS
  TypeOK
  NeverDropped
  RemovesItsOwn
PROPERTY
  BestMode
