SPECIFICATION Spec
CONSTANTS
  Worker = {w1}
  Member = {m1, m2, m3}
  NoMember = NoMember
  Limit = 2
  Window = 2
  Skew = 1
  Retries = 1
  Reading <- Wander
  MaxTime = 0
  MaxCycles = 2
  MaxMoves = 0
CHECK_DEADLOCK FALSE
INVARIANTS TypeOK ReservedBeforeSent AttemptsApart AttemptsBudget OnboardedHasTicket CompletedIsDeterminate
SYMMETRY Alike
