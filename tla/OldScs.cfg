SPECIFICATION FairSpec

CONSTANTS
  Commands = {c1, c2}
  Telemetry = {t1, t2}
  Clients = {k1, k2}
  None = None
  MaxWork = 3

INVARIANTS
  TypeOK
  LossExplained
  RepliesMatch

PROPERTIES
  RequestsAnswered

\* Nothing is left to do when every request is answered.
CHECK_DEADLOCK FALSE
