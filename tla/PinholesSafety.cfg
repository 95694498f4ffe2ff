SPECIFICATION LiveSpec
CONSTANTS
  c1 = c1
  c2 = c2
  Protos = {tcp}
  AnyHost = AnyHost
  Raddrs = {AnyHost}
  Clients <- TwoClients
  Iports = {1024}
  PortDigits <- WholePort
  Nonces = {"PCP MAP 1"}
  LeaseTimes = {1, 2}
  InboundAllowed = TRUE
  MaxUid = 2
  UnixOffset = 10
  Failures = {"append", "delete"}
  MaxFaults = 1
  MaxRestarts = 1
  MaxTime = 3
  MaxLease = 3
PROPERTY ExpiredClosed
INVARIANTS ListMatchesChain GrantsHonoured
CHECK_DEADLOCK FALSE
