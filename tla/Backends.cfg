SPECIFICATION Spec
CONSTANTS
  Compiled = {"pf", "nft", "ipf", "ipfw"}
  Keys <- UdpKeys
  Labels <- NoLabels
  Wants <- FourWants
  Pinholes <- OnePinhole
  PinholeTs = {1}
  Faults = {"rdr+", "rdr-", "filter+", "filter-", "nat+", "nat-", "rdr?", "filter?"}
  MaxFaults = 1
  MaxRestarts = 1
  MaxList = 2
  MaxRules = 2
  MaxUid = 3
  Times = {0, 1}
INVARIANTS RulesPaired CacheFresh ListingsAgree
PROPERTIES ImplementsTable PinholesApart
CHECK_DEADLOCK FALSE
