SPECIFICATION Spec

CONSTANTS
  Frames = {good, manual, unknown}
  Known = {good, manual}
  Control = {manual}
  Size <- MCSize
  Datagrams <- MCDatagrams
  MaxBuffer = 5

INVARIANTS
  TypeOK

PROPERTIES
  WholeFramesJudged
  UnknownFramePasses
  BlockedOnlyForControl

\* The parser can be full up to its bound, so that no datagram fits.
CHECK_DEADLOCK FALSE
