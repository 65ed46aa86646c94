\* Limits of 2, 7 and 15 for 8, 2^11-1 and 2^29-1, crossed on both sides.
SPECIFICATION Spec
CONSTANTS
  CAN_MAX_DLC = 2
  CAN_STD_ID_MASK = 7
  CAN_EXT_ID_MASK = 15
  Buses <- MCBuses
  Ids <- MCIds
  Dlcs <- MCDlcs
  Bytes <- MCBytes
INVARIANTS
  TypeOK
  AcceptsExactly
  LoopbackSame
\* One message is judged in a behaviour.
CHECK_DEADLOCK FALSE
