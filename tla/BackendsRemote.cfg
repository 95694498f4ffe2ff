SPECIFICATION Spec
CONSTANTS
  Compiled = {"pf", "nft"}
  Keys <- UdpKeys
  Labels <- NoLabels
  Wants <- TwoRemotes
  Pinholes <- OnePinhole
  PinholeTs = {1}
  Faults = {}
  MaxFaults = 0
  MaxRestarts = 1
  MaxList = 2
  MaxRules = 2
  MaxUid = 3
  Times = {0, 1}
INVARIANT RulesPaired
CHECK_DEADLOCK FALSE
