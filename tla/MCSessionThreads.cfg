SPECIFICATION MCSpec
CONSTANTS
  Callers = {c1, c2}
  PtyRoom = 1
  ReadBuf = 1
  MaxOutput = 2
  Rechecks = 1
  Clients = {t1, t2}
  Redrawer = Redrawer
  ReaderThread = ReaderThread
  Nobody = Nobody
  MaxRows = 2
  MaxCalls = 3
  MaxChunks = 1
INVARIANTS ExitAfterOutput SameSizes BackToAsked
PROPERTIES SessionEnds GroupEnds CallsReturn
CHECK_DEADLOCK FALSE
