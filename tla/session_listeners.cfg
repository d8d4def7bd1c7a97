SPECIFICATION Spec
CONSTANTS
  Key = {k1}
  Item = {a}
  Dlna = {}
  Unlogged = {}
  Listener = {l1, l2}
  EventState = {"playing", "stopped"}
  NoItem = NoItem
  Attempts = 2
  TimerRaces = TRUE
  MaxEvents = 2
  MaxFailures = 2
  MaxRestarts = 0
  MaxReconnects = 1
  MaxBreaks = 1
CHECK_DEADLOCK FALSE
INVARIANTS NothingLost
PROPERTIES GivenUpOnlyAfterAllAttempts
