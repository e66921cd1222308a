SPECIFICATION MCSpec
CONSTANTS
  Pieces <- MCPieces
  Lost <- MCLost
  ScreenModes <- MCScreen
  MouseModes <- MCMouse
  KittyDepth = 2
  SyncMax = 6
  MaxPieces = 4
  Senders <- MCSenders
  SendKind <- MCKind
  InputQueue = 1
  PtyRoom = 1
  MaxTurns = 2
  Conns = {w1, w2}
  Rails <- MCRails
  Reports = {"working", "done"}
  MaxTime = 3
  MaxReports = 3
  MaxPublished = 2
INVARIANTS CutClean PasteWhole ReadingTrue OrphanMarked
PROPERTY SendersReturn
CHECK_DEADLOCK FALSE
