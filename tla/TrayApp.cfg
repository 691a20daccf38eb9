\* Start-up may fail, the iPad may fall silent in the handshake.
SPECIFICATION FairSpec
CONSTANTS
  PeerAnswers = FALSE
  MayFail = TRUE
INVARIANTS
  TypeOK
  NoDanglingStop
  RunningTellsWorker
  NothingLeftBehind
PROPERTIES
  StopOfPublishedReturns
  UnplugFreesUI
CHECK_DEADLOCK FALSE
