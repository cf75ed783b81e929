SPECIFICATION Spec

CONSTANTS
  Hosts = {h1, h2}
  Ports = {p1, p2}
  None = None
  Timeout = 2

PROPERTIES
  SendHasAddress
