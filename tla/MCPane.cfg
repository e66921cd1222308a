SPECIFICATION MCSpec
CONSTANTS
  Sizes = {wide, narrow}
  Tiny = Tiny
  Bootstrap = Bootstrap
  Like = wide
  None = None
  Capacity = 2
  MaxLayouts = 2
  MaxOther = 2
  MaxFaults = 2
  GridSizes = {small, large}
  Byte = Byte
  MaxSeq = 4
INVARIANTS SizesAgree FedAsPrinted GoesLive
PROPERTY PtyFollows
CHECK_DEADLOCK FALSE
