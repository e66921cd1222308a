SPECIFICATION MCSpec
CONSTANTS
  Threads = {t1, t2}
  NoThread = NoThread
  MaxAttaches = 2
  Total = 2
  QueueRoom = 1
  SocketRoom = 2
  Callers = {a, b, c}
  Hosts = {h1, h2, h3}
  None = None
  Stale = Stale
  Cases <- MCCases
INVARIANTS OwnStream BothAgree
PROPERTIES DetachReturns PathKept Reached
CHECK_DEADLOCK FALSE
