\* The mode of the display may change before a session's first frame.
SPECIFICATION Spec
CONSTANTS
  Base = 4
  DefaultPort = 9
  DefaultTarget = 50
  MinBitrate = 5
  Ceiling = 80
  DefaultFps = 6
  MaxFps = 12
  Version = 1
  Devices = {1}
  ListenPorts = {6, 9}
  MaxPackets = 3
  MaxSent = 1
  MaxBacklog = 5
  MaxFaults = 0
  Versions = {1}
  Texts <- MCTexts
  Modes <- MCModes
  Samples <- MCSamples
INVARIANT
  SizeIsEncoded
