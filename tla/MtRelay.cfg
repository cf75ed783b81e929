SPECIFICATION Spec

CONSTANTS
  Messages = {m1, m2}
  Requests = {r1, r2}
  Threads = {t1, t2, t3, t4, t5, t6}
  MqttThread = mqtt
  IoLoop = ioloop
  None = None
  MaxLost = 1
  MaxExiting = 1

VIEW View

INVARIANTS
  TypeOK
  BodyMatches
  OneAttempt
  Accounting
  LiveThreadsTracked
  ThreadListBounded

PROPERTIES
  ImplementsAtLeastOnce

\* With every message settled the relay waits for one that never comes.
CHECK_DEADLOCK FALSE
