SPECIFICATION Spec
CONSTANTS
  Frames = {f1}
  BitrateFields <- MCBitrateFieldsLive
  DefaultBitrate = 500
  TxQueueLen = 1
  MaxAccepted = 2
INVARIANT
  StatusTruthful
\* No client has to send, and a bridge stuck in listen-only mode stops.
CHECK_DEADLOCK FALSE
