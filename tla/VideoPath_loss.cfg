\* One fault, of the decoder among others, in a session that may last.
SPECIFICATION Spec
CONSTANTS
  Sizes = {s1, s2}
  MaxPictures = 3
  MaxSessions = 1
  MaxWire = 1
  MaxTasks = 2
  MaxFaults = 1
  NoSize = NoSize
  NoTexture = NoTexture
  Dead = Dead
PROPERTY
  LossIsReported
