SPECIFICATION Spec
CONSTANTS
  Clients = {c1, c2}
  NoClient = NoClient
  Fds = {4, 5}
  RxQueueLen = 1
  MaxFrames = 2
\* A client may stay silent, and then nothing has to happen.
CHECK_DEADLOCK FALSE
PROPERTY CatchAll
