\* The host's first identity may fail to be saved.
SPECIFICATION Spec
CONSTANTS
  Devices = {p}
  Slots = {1}
  MaxIds = 2
  Faults = {"host_self"}
  Misreads = {}
INVARIANTS
  HostRecognised
CHECK_DEADLOCK FALSE
