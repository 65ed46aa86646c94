\* Three connections: one served, one refused or waiting, one after them; two
\* descriptors, so each is used again.
SPECIFICATION Spec
CONSTANTS
  Clients = {c1, c2, c3}
  NoClient = NoClient
  Fds = {4, 5}
  RxQueueLen = 2
  MaxFrames = 4
INVARIANTS
  TypeOK
  OneHolder
  ServedSession
  IdleQuiet
  FreshAndOrdered
  NoSocketLeak
SYMMETRY ClientSymmetry
\* A client may stay silent, and then nothing has to happen.
CHECK_DEADLOCK FALSE
