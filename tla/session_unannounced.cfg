SPECIFICATION Spec
CONSTANTS
  Key = {k1}
  Item = {a}
  Dlna = {}
  Unlogged = {}
  Listener = {l1}
  EventState = {"playing", "paused", "buffering", "stopped"}
  NoItem = NoItem
  Attempts = 2
  TimerRaces = FALSE
  MaxEvents = 3
  MaxFailures = 2
  MaxRestarts = 0
  MaxReconnects = 1
  MaxBreaks = 0
CHECK_DEADLOCK FALSE
PROPERTIES RecordedIsAnnounced
