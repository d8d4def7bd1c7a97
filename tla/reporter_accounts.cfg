SPECIFICATION Spec
CONSTANTS
  Member = {m1, m2}
  Nobody = Nobody
  Outsider = Outsider
  Hidden = Hidden
  MaxPerCycle = 1
  PageSize = 2
  MaxPages = 3
  Delays = 1
  MaxCycles = 2
  MaxRestarts = 1
  MaxFaults = 1
  MaxOthers = 1
CHECK_DEADLOCK FALSE
INVARIANTS TypeOK BreakerHolds OneAccountPerMember DuplicateNeedsRace
SYMMETRY Alike
