SPECIFICATION Spec
CONSTANTS
  c1 = c1
  c2 = c2
  Protos = {tcp}
  MaxPort = 2
  Clients <- TwoClients
  Iports = {1, 2}
  AnyHost = AnyHost
  Rhosts = {AnyHost}
  Strs = {"UPnP"}
  PcpDescs = {}
  Durations = {0, 1}
  Week = 1
  upnppermlist <- NoLines
  AddressBits <- TwoAddresses
  WordBits = 2
  InUse <- Nothing
  EnableUpnp = TRUE
  EnableNatpmp = TRUE
  Threshold = 0
  CleanUnused = FALSE
  Faults <- FirewallFaults
  WanChanges = FALSE
  MayCrash = "never"
  Word = 100
  UnixOffset = 10
  MaxTime = 2
  MaxLease = 2
  MaxPkts = 0
  MaxFaults = 1
  NULL = NULL
SYMMETRY ClientSymmetry
INVARIANTS TypeOK OneRulePerPort NoStaleDesc
