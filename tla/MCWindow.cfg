SPECIFICATION MCSpec
CONSTANTS
  Ids = {1, 2, 3}
  MaxWindows = 2
  MaxHost = 2
  Confirm = 3
  Interval = 2
  MaxDelay = 0
  MaxBlip = 1
  Rest = 7
  MaxLag = 0
  MaxTurns = 2
  Cases <- MCCases
INVARIANTS OneAgent InSight NeverAhead
PROPERTIES LeftRuns EndsClosed WatchedCounted
CHECK_DEADLOCK FALSE
