SPECIFICATION Spec
CONSTANTS
  Clients = {c1, c2, c3}
  Sessions = {s1}
  MaxConnections = 2
  NoSession = NoSession
INVARIANTS ClientsCounted IdleAlone ConfirmedEnded
PROPERTY AskedGoes
CHECK_DEADLOCK FALSE
