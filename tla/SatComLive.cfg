SPECIFICATION FairSpec

CONSTANTS
  Commands = {c1, c2}
  Telemetry = {t1}
  Heavy = {c2}
  None = None
  MaxMessages = 2
  MaxFailures = 0
  MaxPosts = 1
  MaxRelayed = 2
  MaxFaults = 1

PROPERTIES
  CommandArrives

\* With everything delivered the system waits for messages that never come.
CHECK_DEADLOCK FALSE
