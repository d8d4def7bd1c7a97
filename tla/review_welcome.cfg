SPECIFICATION Spec
CONSTANTS
  Day = 2
  Fresh = 2
  NoticeWait = 2
  ReminderWait = 1
  FinalWait = 1
  InactiveAfter = 3
  History = {}
  Manual = {}
  MaxTime = 5
  MaxSyncs = 4
  MaxChanges = 2
CHECK_DEADLOCK FALSE
PROPERTIES WelcomedStaysQuiet
