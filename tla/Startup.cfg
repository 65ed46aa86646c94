\* A watchdog two ticks longer than the start, two messages at once.
SPECIFICATION BoardSpec
CONSTANTS
  UpDelay = 1
  WatchdogDelay = 3
  MaxMessages = 2
INVARIANTS
  TypeOK
  LedFollowsReady
  FollowsLastMessage
  RebootsOnlyStarted
  ServerFdOpen
PROPERTIES
  Recovers
  ServerComesUp
  ServiceAnnounced
\* A board whose main has failed stops.
CHECK_DEADLOCK FALSE
