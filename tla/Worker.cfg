SPECIFICATION Spec
CONSTANTS
  Base = 4
  DefaultPort = 9
  DefaultTarget = 50
  MinBitrate = 5
  Ceiling = 80
  DefaultFps = 6
  MaxFps = 12
  Version = 1
  Devices = {1, 2}
  ListenPorts = {6, 9}
  MaxPackets = 3
  MaxSent = 1
  MaxBacklog = 5
  MaxFaults = 1
  Versions = {1, 2}
  Texts <- MCTexts
  Modes <- MCModes
  Samples <- MCSamples
INVARIANTS
  TypeOK
  CleanTunnel
  Understood
PROPERTY
  Reaches
