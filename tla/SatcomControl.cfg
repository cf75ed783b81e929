SPECIFICATION Spec

CONSTANTS
  Frames = {good, manual, unknown}
  Known = {good, manual}
  Control = {manual}
  Size <- MCSize
  Datagrams <- MCWholeDatagrams
  MaxBuffer = 6


PROPERTIES
  ControlBlocked

\* The parser can be full up to its bound, so that no datagram fits.
CHECK_DEADLOCK FALSE
