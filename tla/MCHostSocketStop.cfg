SPECIFICATION SocketSpec
CONSTANTS
  Callers = {a, b, c}
  Hosts = {h1, h2, h3}
  None = None
  Stale = Stale
  Cases = {{"stop", "socket"}, {"lock"}}

PROPERTY AllConnected
CHECK_DEADLOCK FALSE
