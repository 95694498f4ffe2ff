SPECIFICATION Spec
CONSTANTS
  HEADERS_LENGTH_LIMIT = 6
  CONTENT_LENGTH_LIMIT = 3
  FirstAlloc = 4
  Room = 4
  DoubleLimit = 5
  Scenarios <- AllExchanges
  Addresses = 2
  SndBuf = 5
INVARIANTS TypeOK ContentIntact SuccessMeansDone
PROPERTY Released
