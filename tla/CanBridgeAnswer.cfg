SPECIFICATION FairSpec
CONSTANTS
  Frames = {f1}
  BitrateFields <- MCBitrateFieldsLive
  DefaultBitrate = 500
  TxQueueLen = 1
  MaxAccepted = 2
PROPERTY
  AlwaysAnswered
\* No client has to send, and a bridge stuck in listen-only mode stops.
CHECK_DEADLOCK FALSE
