\* The handshakes of one iPad overlap; the host's identity may fail to be saved.
SPECIFICATION Spec
CONSTANTS
  Devices = {p}
  Slots = {1, 2}
  MaxIds = 2
  Faults = {"host_self"}
  Misreads = {}
PROPERTIES
  PinIsForever
CHECK_DEADLOCK FALSE
