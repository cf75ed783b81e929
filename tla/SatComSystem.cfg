SPECIFICATION Spec

CONSTANTS
  Commands = {c1, c2}
  Telemetry = {t1, t2}
  Heavy = {c2}
  None = None
  MaxMessages = 2
  MaxFailures = 1
  MaxPosts = 1
  MaxRelayed = 3
  MaxFaults = 1

INVARIANTS
  TypeOK
  LossExplained
  NoStaleCommand
  NoStaleTelemetry
  DuplicatesExplained

\* With everything delivered the system waits for messages that never come.
CHECK_DEADLOCK FALSE
