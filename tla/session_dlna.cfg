SPECIFICATION Spec
CONSTANTS
  Key = {k1}
  Item = {a}
  Dlna = {k1}
  Unlogged = {}
  Listener = {l1}
  EventState = {"playing", "stopped"}
  NoItem = NoItem
  Attempts = 2
  TimerRaces = FALSE
  MaxEvents = 2
  MaxFailures = 0
  MaxRestarts = 0
  MaxReconnects = 0
  MaxBreaks = 0
CHECK_DEADLOCK FALSE
PROPERTIES BrowsingIsNotAStream
