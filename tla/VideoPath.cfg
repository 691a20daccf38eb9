SPECIFICATION Spec
CONSTANTS
  Sizes = {s1, s2}
  MaxPictures = 3
  MaxSessions = 2
  MaxWire = 1
  MaxTasks = 2
  MaxFaults = 1
  NoSize = NoSize
  NoTexture = NoTexture
  Dead = Dead
INVARIANTS
  TypeOK
  NeverBroken
PROPERTY
  CatchesUp
