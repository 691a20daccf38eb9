\* A read of the host's pin may fail.
SPECIFICATION Spec
CONSTANTS
  Devices = {p, q}
  Slots = {1}
  MaxIds = 1
  Faults = {}
  Misreads = {"host_peer"}
PROPERTIES
  PinIsForever
CHECK_DEADLOCK FALSE
