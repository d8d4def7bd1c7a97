SPECIFICATION Spec
CONSTANTS
  Worker = {w1}
  Member = {m1, m2}
  NoMember = NoMember
  Limit = 1
  Window = 2
  Skew = 1
  Retries = 1
  Reading <- Agree
  MaxTime = 1
  MaxCycles = 2
  MaxMoves = 0
CHECK_DEADLOCK FALSE
INVARIANTS ReceiptsAccepted
