\* A frame callback between its dispatch and frame_mutex_ while Run tears down.
SPECIFICATION Spec
CONSTANTS
  Handlers = {h1}
  Tokens = {1}
  PeerMsgs <- MCQuietPeer
  InCap = 1
  OutCap = 1
  SeqModulus = 2
  Faults = {}
INVARIANT
  NoHandlerAfterReturn
CHECK_DEADLOCK FALSE
