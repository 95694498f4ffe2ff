SPECIFICATION Spec
CONSTANTS
  c1 = c1
  c2 = c2
  Protos = {tcp}
  MaxPort = 2
  Clients <- TwoClients
  Iports = {1, 2}
  AnyHost = AnyHost
  Rhosts = {AnyHost, r1}
  Strs = {"UPnP"}
  PcpDescs = {}
  Durations = {0, 1}
  Week = 1
  upnppermlist <- FourLines
  AddressBits <- TwoAddresses
  WordBits = 2
  InUse <- Nothing
  EnableUpnp = TRUE
  EnableNatpmp = TRUE
  Threshold = 0
  CleanUnused = TRUE
  Faults <- NoFaults
  WanChanges = FALSE
  MayCrash = "serving"
  Word = 100
  UnixOffset = 10
  MaxTime = 1
  MaxLease = 2
  MaxPkts = 0
  MaxFaults = 0
  NULL = NULL
INVARIANTS AcceptPerRule GrantHonoured OnlyGranted PermittedOnly LeaseLineHasRule
