SPECIFICATION Spec
CONSTANTS
  Compiled = {"pf", "nft", "ipf", "ipfw"}
  Keys <- UdpKeys
  Labels <- OneLabel
  Wants <- LabelledWants
  Pinholes <- OnePinhole
  PinholeTs = {1}
  Faults = {"rdr-", "filter-", "find", "rdr?", "filter?"}
  MaxFaults = 2
  MaxRestarts = 1
  MaxList = 2
  MaxRules = 2
  MaxUid = 3
  Times = {0, 1}
INVARIANTS CacheFresh
PROPERTIES KeepsOthers
CHECK_DEADLOCK FALSE
