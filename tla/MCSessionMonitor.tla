--------------------------- MODULE MCSessionMonitor ---------------------------
(* Instances of SessionMonitor for TLC; the constants are in the cfg files. *)
EXTENDS SessionMonitor, TLC

\* Nothing tells two listener threads apart.
Alike == Permutations(Listener)
=============================================================================
