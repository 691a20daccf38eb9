\* No fault, but the mode of the display changes.
SPECIFICATION Spec
CONSTANTS
  Sizes = {s1, s2}
  MaxPictures = 3
  MaxSessions = 1
  MaxWire = 1
  MaxTasks = 2
  MaxFaults = 0
  NoSize = NoSize
  NoTexture = NoTexture
  Dead = Dead
PROPERTY
  ShowsTheDisplay
