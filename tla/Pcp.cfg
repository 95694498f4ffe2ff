SPECIFICATION PcpSpec
CONSTANTS
  c1 = c1
  c2 = c2
  udp = udp
  Protos = {udp}
  MaxPort = 3
  Clients <- TwoClients
  Iports = {1}
  AnyHost = AnyHost
  Rhosts = {AnyHost}
  Strs = {}
  PcpDescs <- MCPcpDescs
  Durations = {1}
  Week = 1
  upnppermlist <- NoPermissions
  AddressBits <- TwoAddresses
  WordBits = 2
  InUse <- Nothing
  EnableUpnp = FALSE
  EnableNatpmp = TRUE
  Threshold = 0
  CleanUnused = FALSE
  Faults <- NoFaults
  WanChanges = FALSE
  MayCrash = "serving"
  Word = 100
  UnixOffset = 10
  MaxTime = 2
  MaxLease = 4
  MaxPkts = 0
  MaxFaults = 0
  NULL = NULL
  Packets <- MCPackets
  Nonces <- MCNonces
  ZeroNonce <- zero
  NatpmpClients = {c1}
  MinLifetime = 1
  MaxLifetime = 2
  ReservedKeys <- PortThreeReserved
  AllowThird = FALSE
  SysUptime = FALSE
  DscpValues <- Dscp
  Connections = {0, 1}
  Addresses = {"a1"}
  MaxPeers = 1
  MaxUpsets = 2
VIEW AllButAnswer
CONSTRAINT FlowsOrUpset
CHECK_DEADLOCK FALSE
INVARIANTS MapHonoured EpochTells
PROPERTY RetrySamePort
