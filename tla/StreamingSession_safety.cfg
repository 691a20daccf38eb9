\* Two frame callbacks, every fault.
SPECIFICATION Spec
CONSTANTS
  Handlers = {h1, h2}
  Tokens = {1, 2}
  PeerMsgs <- MCPeerMsgs
  InCap = 1
  OutCap = 1
  SeqModulus = 3
  Faults = {"start", "init", "encode", "bitstream"}
SYMMETRY MCHandlerSymmetry
INVARIANTS
  TypeOK
  NoUseAfterTeardown
  OneWriter
  QuiescentAfterReturn
PROPERTY
  ImplementsHostStream
CHECK_DEADLOCK FALSE
