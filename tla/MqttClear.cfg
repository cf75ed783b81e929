SPECIFICATION FairSpec

CONSTANTS
  Messages = {m1, m2}
  None = None
  Timeout = 1
  MaxDrops = 1
  MaxRefusals = 0
  MaxCrashes = 0

PROPERTIES
  SilenceClears
