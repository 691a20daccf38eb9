\* The pool may fail to be recreated.
SPECIFICATION Spec
CONSTANTS
  Sizes = {s1, s2}
  MaxPictures = 3
  MaxSessions = 1
  MaxWire = 1
  MaxTasks = 2
  MaxFaults = 1
  NoSize = NoSize
  NoTexture = NoTexture
  Dead = Dead
PROPERTY
  KeepsDelivering
