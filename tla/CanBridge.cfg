\* Two frames tell an order; a queue of two fills up behind a sleeping worker.
SPECIFICATION Spec
CONSTANTS
  Frames = {f1, f2}
  BitrateFields <- MCBitrateFields
  DefaultBitrate = 500
  TxQueueLen = 2
  MaxAccepted = 3
INVARIANTS
  TypeOK
  ReadyMeansRunning
  AppliedSettings
PROPERTIES
  ReconfigureExclusive
  AcceptedWhileRunning
  ImplementsTxPipe
\* No client has to send, and a bridge stuck in listen-only mode stops.
CHECK_DEADLOCK FALSE
