SPECIFICATION Spec
CONSTANTS
  Feeds = {"participant", "chat"}
  Items = 2
  PageLimit = 2
  QueueMax = 4
  Leaving = TRUE
  MaxAsks = 2
  MaxMounts = 1
  MaxFaults = 0
CHECK_DEADLOCK FALSE
PROPERTY StreamedIsShown
