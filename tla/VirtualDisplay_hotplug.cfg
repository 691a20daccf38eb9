\* Any monitor may be plugged in while Add looks for its own.
SPECIFICATION Spec
CONSTANTS
  Interval = 2
  Timeout = 4
  Lateness = 1
  Index = {0}
  Names = {n1, n2}
  Desired <- MCDesired
  ModeLists <- MCModeLists
  NoIndex = NoIndex
  NoName = NoName
INVARIANT
  ServesItsDisplay
