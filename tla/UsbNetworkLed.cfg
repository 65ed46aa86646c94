SPECIFICATION Spec
CONSTANTS
  UpDelay = 1
  WatchdogDelay = 2
  MaxMessages = 1
INVARIANT
  LedTellsAddress
