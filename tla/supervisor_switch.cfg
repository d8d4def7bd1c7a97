SPECIFICATION FairSpec
CONSTANTS
  Thread = {t1, t2}
  Attempts = 1
  PingPong = FALSE
  EarlyEnd = FALSE
  MaxOutages = 2
  MaxSwitches = 1
CHECK_DEADLOCK FALSE
INVARIANTS Supervised
PROPERTIES ServerIsFound
