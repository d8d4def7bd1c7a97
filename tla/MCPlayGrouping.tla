--------------------------- MODULE MCPlayGrouping ---------------------------
EXTENDS PlayGrouping, TLC

Alike == Permutations(Writer) \cup Permutations(User)
=============================================================================
