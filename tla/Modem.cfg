SPECIFICATION FairSpec

CONSTANTS
  Messages = {m1, m2}
  Heavy = {m2}
  None = None
  WriteLengths <- MCWriteLengths
  SessionResults = {TRUE, FALSE}
  MaxArrivals = 2
  MaxWritten = 2
  MaxUnplugs = 1

INVARIANTS
  TypeOK
  RingDeferred
  NoSilentBacklog
  OneRingTimer

PROPERTIES
  QuietDuringWrite
  RingRepeats
  ImplementsOrderedDelivery

\* A write of negative length never ends; its bytes are bounded by MaxWritten.
CHECK_DEADLOCK FALSE
