\* The iPad's pin may fail to be saved.
SPECIFICATION Spec
CONSTANTS
  Devices = {p}
  Slots = {1}
  MaxIds = 1
  Faults = {"device_peer"}
  Misreads = {}
INVARIANTS
  BothPin
CHECK_DEADLOCK FALSE
