SPECIFICATION Spec
CONSTANTS
  Day = 2
  Fresh = 2
  NoticeWait = 2
  ReminderWait = 1
  FinalWait = 1
  InactiveAfter = 3
  History = {""}
  Manual = {"Final Reminder", "Access Removed"}
  MaxTime = 5
  MaxSyncs = 5
  MaxChanges = 2
CHECK_DEADLOCK FALSE
INVARIANTS TypeOK OncePerDelivery
PROPERTIES KeepsPromises OneMessagePerRequest RepairIsSilent ComesInOrder
