\* The capture cannot start; the iPad stays connected.
SPECIFICATION FairSpec
CONSTANTS
  Handlers = {h1}
  Tokens = {1}
  PeerMsgs <- MCQuietPeer
  InCap = 1
  OutCap = 1
  SeqModulus = 2
  Faults = {"start"}
PROPERTY
  ErrorEndsRun
CHECK_DEADLOCK FALSE
