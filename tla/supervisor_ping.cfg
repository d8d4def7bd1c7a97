SPECIFICATION FairSpec
CONSTANTS
  Thread = {t1}
  Attempts = 2
  PingPong = TRUE
  EarlyEnd = TRUE
  MaxOutages = 2
  MaxSwitches = 0
CHECK_DEADLOCK FALSE
INVARIANTS Supervised
