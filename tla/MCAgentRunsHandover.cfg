SPECIFICATION RunsSpec
CONSTANTS
  Confirm = 3
  Interval = 2
  MaxDelay = 0
  MaxBlip = 1
  Rest = 7
  MaxLag = 0
  MaxTurns = 2
  Cases = {{"hooks", "early"}}
INVARIANT RunsAreTurns
CHECK_DEADLOCK FALSE
