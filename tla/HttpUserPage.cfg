SPECIFICATION Spec
CONSTANTS
  STORAGE_IO_CHUNK = 2
  Capacity = 4
  NoPage = NoPage
  SMALL_MAX = 1
  WS_MAX_PAYLOAD = 5
  MASK_LEN = 4
  ReplyLens = {1}
  Requests <- MCRequests
  NoRequest = NoRequest
  HTTP_REQUEST_MAX = 4
  USER_INDEX_MAX = 3
  SizeMod = 16
  KEY_MAX = 2
  MaxUploads = 1
INVARIANT
  AbsentUntilCreated
\* A client may stay silent, and then nothing has to happen.
CHECK_DEADLOCK FALSE
