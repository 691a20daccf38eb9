\* Encoding a picture or locking its packet may fail.
SPECIFICATION Spec
CONSTANTS
  Sizes = {s1, s2}
  MaxPictures = 3
  MaxSessions = 1
  MaxWire = 1
  MaxTasks = 2
  MaxFaults = 1
  NoSize = NoSize
  NoTexture = NoTexture
  Dead = Dead
PROPERTY
  RequestIsAnswered
