\* An iPad's keys may fail to be saved, each by itself.
SPECIFICATION Spec
CONSTANTS
  Devices = {p}
  Slots = {1}
  MaxIds = 2
  Faults = {"device_self"}
  Misreads = {}
INVARIANTS
  KeysBelongTogether
CHECK_DEADLOCK FALSE
