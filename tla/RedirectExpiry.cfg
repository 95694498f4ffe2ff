SPECIFICATION FairSpec
CONSTANTS
  c1 = c1
  c2 = c2
  Protos = {tcp}
  MaxPort = 2
  Clients = {c1}
  Iports = {1}
  AnyHost = AnyHost
  Rhosts = {AnyHost}
  Strs = {"UPnP"}
  PcpDescs = {}
  Durations = {1, 2}
  Week = 1
  upnppermlist <- NoLines
  AddressBits <- TwoAddresses
  WordBits = 2
  InUse <- Nothing
  EnableUpnp = FALSE
  EnableNatpmp = TRUE
  Threshold = 0
  CleanUnused = FALSE
  Faults <- NoFaults
  WanChanges = TRUE
  MayCrash = "never"
  Word = 100
  UnixOffset = 10
  MaxTime = 3
  MaxLease = 3
  MaxPkts = 1
  MaxFaults = 0
  NULL = NULL
PROPERTY LeaseEnds
