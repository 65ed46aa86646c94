\* Two clients and one descriptor, so the second gets the first one's.
SPECIFICATION Spec
CONSTANTS
  Frames = {f1}
  BitrateFields = {0, 500}
  DefaultBitrate = 500
  TxQueueLen = 1
  MaxAccepted = 1
  Clients = {1, 2}
  NoClient = 0
  Fds = {4}
  RxQueueLen = 1
  MaxFrames = 1
INVARIANTS
  AnsweredToAsker
  NothingLeftBehind
\* A client may stay silent, and a bridge stuck in listen-only mode stops.
CHECK_DEADLOCK FALSE
PROPERTIES
  
  
  EveryFrameHanded
