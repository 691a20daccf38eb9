\* An iPad that answers every handshake and then streams.
SPECIFICATION FairSpec
CONSTANTS
  PeerAnswers = TRUE
  MayFail = FALSE
PROPERTY
  StopReturns
CHECK_DEADLOCK FALSE
