SPECIFICATION Spec
CONSTANTS
  Threads = {t1}
  NoThread = NoThread
  MaxAttaches = 2
  Total = 1
  QueueRoom = 1
  SocketRoom = 2
INVARIANT EndsAfterExit
CHECK_DEADLOCK FALSE
