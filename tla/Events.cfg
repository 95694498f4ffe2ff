SPECIFICATION FairSpec
CONSTANTS
  Subs = {s1, s2}
  Notifs = {n1, n2}
  Services = {EWanIPC}
  NULL = NULL
  Timeouts = {0, 1}
  MaxTime = 2
  MaxVersion = 1
  UpnpStrict = TRUE
  MayFail = TRUE
INVARIANTS TypeOK PointersConsistent SeqConsecutive
PROPERTIES ExpiredRemoved NotifyReleased InitialEvent
