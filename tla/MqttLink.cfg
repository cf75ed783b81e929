SPECIFICATION FairSpec

CONSTANTS
  Messages = {m1, m2}
  None = None
  Timeout = 1
  MaxDrops = 2
  MaxRefusals = 1
  MaxCrashes = 1

INVARIANTS
  TypeOK
  TelemetryKept
  RetainedIsLatest

PROPERTIES
  ClearOnlyAfterSilence
  SubscriptionsRenewed
  TelemetryPublished
  SteadySilenceClears
