\* One frame callback; start-up may fail, encoding does not.
SPECIFICATION FairSpec
CONSTANTS
  Handlers = {h1}
  Tokens = {1}
  PeerMsgs <- MCRequests
  InCap = 1
  OutCap = 1
  SeqModulus = 2
  Faults = {"start", "init"}
INVARIANT
  NoLostKeyframe
PROPERTIES
  StopEndsRun
  PeerGoneEndsRun
CHECK_DEADLOCK FALSE
