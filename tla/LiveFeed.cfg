SPECIFICATION Spec
CONSTANTS
  Feeds = {"transcript", "participant", "chat"}
  Items = 2
  PageLimit = 1
  QueueMax = 1
  Leaving = FALSE
  MaxAsks = 2
  MaxMounts = 2
  MaxFaults = 1
CHECK_DEADLOCK FALSE
INVARIANTS TypeOK SpokenOrder OneStream
PROPERTIES SegmentTakesItsPlace OwnAnswersOnly BridgeCatchesUp
