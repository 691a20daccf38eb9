\* An iPad whose handshakes overlap and that may fall silent; either side may lose
\* its identity, the host as its write fails and the iPad as its read does.
SPECIFICATION FairSpec
CONSTANTS
  Devices = {p}
  Slots = {1, 2}
  MaxIds = 2
  Faults = {"host_self", "host_peer", "device_peer"}
  Misreads = {"host_peer", "device_self", "device_peer"}
INVARIANTS
  TypeOK
  HostTrustsItsPin
  MutualPins
PROPERTIES
  PinnedByItsHost
  HandshakeEnds
  PairedReconnect
CHECK_DEADLOCK FALSE
