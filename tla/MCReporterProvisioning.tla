----------------------- MODULE MCReporterProvisioning -----------------------
EXTENDS ReporterProvisioning, TLC

Alike == Permutations(Member)
=============================================================================
