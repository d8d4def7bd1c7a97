SPECIFICATION Spec
CONSTANTS
  Worker = {w1, w2}
  Member = {m1}
  NoMember = NoMember
  Limit = 1
  Window = 2
  Skew = 1
  Retries = 1
  Reading <- Agree
  MaxTime = 2
  MaxCycles = 2
  MaxMoves = 1
CHECK_DEADLOCK FALSE
INVARIANTS RollingBudget WelcomedOnce
PROPERTIES KeepsBudget
