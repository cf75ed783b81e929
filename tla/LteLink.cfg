SPECIFICATION FairSpec

CONSTANTS
  Hosts = {h1, h2}
  Ports = {p1, p2}
  None = None
  Timeout = 2

INVARIANTS
  TypeOK
  SendUsesSeenAddresses

PROPERTIES
  ResetOnlyAfterSilence
  SilenceResets
