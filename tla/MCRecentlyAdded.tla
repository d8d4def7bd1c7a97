--------------------------- MODULE MCRecentlyAdded ---------------------------
(* A show with two seasons, the first of two episodes. *)
EXTENDS RecentlyAdded

CONSTANTS show, s1, s2, e1, e2

Above == [i \in {s1, s2, e1, e2} |-> IF i \in {s1, s2} THEN show ELSE s1]
=============================================================================
