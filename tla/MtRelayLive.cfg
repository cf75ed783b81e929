SPECIFICATION FairSpec

CONSTANTS
  Messages = {m1}
  Requests = {r1}
  Threads = {t1, t2, t3, t4}
  MqttThread = mqtt
  IoLoop = ioloop
  None = None
  MaxLost = 2
  MaxExiting = 1

PROPERTIES
  EveryMessageSettled

\* With every message settled the relay waits for one that never comes.
CHECK_DEADLOCK FALSE
