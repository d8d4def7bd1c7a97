SPECIFICATION Spec
CONSTANTS
  show = show
  s1 = s1
  s2 = s2
  e1 = e1
  e2 = e2
  Root = {show}
  Season = {s1, s2}
  Episode = {e1, e2}
  Parent <- Above
  GroupRoot = FALSE
  GroupSeason = TRUE
  MaxCreated = 3
  MaxDeleted = 1
  MaxFaults = 1
CHECK_DEADLOCK FALSE
INVARIANTS TypeOK TwiceNeedsFailure QueuedIsScheduled
PROPERTIES DroppedWasTold AddedIsAnnounced
