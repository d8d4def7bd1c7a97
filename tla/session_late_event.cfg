SPECIFICATION Spec
CONSTANTS
  Key = {k1}
  Item = {a, b}
  Dlna = {}
  Unlogged = {}
  Listener = {l1}
  EventState = {"playing", "paused", "buffering", "stopped"}
  NoItem = NoItem
  Attempts = 2
  TimerRaces = FALSE
  MaxEvents = 4
  MaxFailures = 0
  MaxRestarts = 0
  MaxReconnects = 0
  MaxBreaks = 0
CHECK_DEADLOCK FALSE
INVARIANTS EveryStreamWatched
