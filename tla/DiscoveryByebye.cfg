SPECIFICATION Spec
CONSTANTS
  Known <- OneDevice
  Uuids <- OneUuid
  Dests <- OneGroup
  Setups <- Builds
  NotifyInterval = 3
  JitterMax = 0
  RepeatDelay = 1
  AnswerDelay = 1
  Second = 2
  Delays = {1}
  Families = {FALSE, TRUE}
  Strays <- OtherPackets
  MaxRepeats = 2
PROPERTY ByebyeFirst
