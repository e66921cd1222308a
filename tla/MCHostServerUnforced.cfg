SPECIFICATION Spec
CONSTANTS
  Clients = {c1, c2}
  Sessions = {s1}
  MaxConnections = 2
  NoSession = NoSession
PROPERTIES UnforcedRefused
CHECK_DEADLOCK FALSE
