SPECIFICATION Spec
CONSTANTS
  Connections = {c1, c2}
  Others = {c2}
  Capacity = 1
  Bytes <- MCBytes
  Sizes = {"s1"}
  FirstModes = "m0"
  FirstSize = "s0"
  NoModes = NoModes
  MaxBatch = 2
  WireRoom = 2
  MaxSeq = 3
INVARIANTS FedRight AttachedCounts
PROPERTIES StreamsEnd
CHECK_DEADLOCK FALSE
