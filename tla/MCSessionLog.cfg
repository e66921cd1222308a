SPECIFICATION MCSpec
CONSTANTS
  Capacity = 4
  MaxChunk = 64
  ChunkShare = 1
  SealCap = 4
  ResizeCost = 3
  Modes = {"m0", "m1"}
  FirstModes = "m0"
  NoModes = NoModes
  Sizes = {"s0", "s1"}
  FirstSize = "s0"
  NoSize = NoSize
  Pieces <- MCPieces
  MaxSeq = 10
  Limits = {0, 2}
  MaxBatchItems = 3
  MaxBytes = {0, 2, 3}
  Sessions = {s1, s2, s3}
  Forgetter = Forgetter
  Nobody = Nobody
  Cap = 3
  LogCap = 3
  MaxWrites = 2
  Passes = 3
INVARIANTS HeldExact HeadSettled ReadsExact FairlyCounted
PROPERTIES LogPromised CallsReturn EnforceEnds
CHECK_DEADLOCK FALSE
