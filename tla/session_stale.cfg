SPECIFICATION Spec
CONSTANTS
  Key = {k1}
  Item = {a, b}
  Dlna = {}
  Unlogged = {}
  Listener = {l1}
  EventState = {"playing", "paused", "stopped"}
  NoItem = NoItem
  Attempts = 2
  TimerRaces = FALSE
  MaxEvents = 2
  MaxFailures = 2
  MaxRestarts = 1
  MaxReconnects = 0
  MaxBreaks = 1
CHECK_DEADLOCK FALSE
INVARIANTS DuplicatesNeedInterruption StaleStreamWatched
PROPERTIES StreamEventuallyClosed
