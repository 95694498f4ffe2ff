\* Two devices of any kind; at most two failures or changes.
SPECIFICATION Spec
CONSTANTS
  d1 = d1
  d2 = d2
  Devices = {d1, d2}
  Descriptions <- AllDescriptions
  DevLists <- AllDevLists
  Lines = {"down", "noaddr", "private", "public"}
  MaxServices = 3
  MaxUpsets = 2
INVARIANTS GatewayChosen UrlsFreed
