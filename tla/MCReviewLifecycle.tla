-------------------------- MODULE MCReviewLifecycle --------------------------
(* Instances of ReviewLifecycle for TLC; the constants are in the cfg files. *)
EXTENDS ReviewLifecycle
=============================================================================
