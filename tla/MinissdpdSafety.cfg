SPECIFICATION FairSpec
CONSTANTS
  Devices = {"d1"}
  Services = {"s1"}
  TypeOf <- MCTypeOf
  Locations <- TwoLengths
  Lifetimes = {0}
  Clients = {"f", "c"}
  Roles <- Programs
  Known <- OneService
  RespMax = 1
  ReadMax = 3
  SockBuf = 1
  SendFailures = {"again", "error"}
  Failing = {"device"}
  MaxFaults = 1
  MaxPackets = 2
  MaxTime = 1
INVARIANTS FramesIntact FollowersKnow
CHECK_DEADLOCK FALSE
PROPERTIES OutputDrains DatagramsLeave
