\* Three frames, cut into chunks of one to five bytes at every place.
SPECIFICATION FairSpec
CONSTANTS
  Base = 4
  LenBytes = 2
  MaxPayload = 2
  Threshold = 5
  MaxChunk = 5
  MaxFrames = 3
  Payloads <- MCPayloads
  BadFrames <- MCBadFrames
INVARIANTS
  TypeOK
  FramesAreThoseSent
  NothingWithheld
  BufferBounded
PROPERTIES
  HardErrorIsTerminal
  EveryFrameReturned
CHECK_DEADLOCK FALSE
