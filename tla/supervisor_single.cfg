SPECIFICATION FairSpec
CONSTANTS
  Thread = {t1}
  Attempts = 2
  PingPong = TRUE
  EarlyEnd = FALSE
  MaxOutages = 3
  MaxSwitches = 0
CHECK_DEADLOCK FALSE
PROPERTIES KeepsNotices OutageIsAnnounced ServerIsFound
