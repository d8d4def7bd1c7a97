SPECIFICATION Spec
CONSTANTS
  Writer = {w1, w2}
  User = {u1, u2}
  Title = {x}
  Programme = {live}
  Offset = {0, 1}
  Threshold = {1, 2}
  MaxRows = 3
  MaxTroubles = 2
  MaxRegroups = 1
CHECK_DEADLOCK FALSE
SYMMETRY Alike
INVARIANTS TypeOK EntryIsOneTitle AlwaysReferred GroupedByRule
