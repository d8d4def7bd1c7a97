------------------------- MODULE MCNotificationGate -------------------------
(* Clocks for the instances of NotificationGate. *)
EXTENDS NotificationGate, TLC

\* A worker's clock that agrees with the server's, plus the day before time 0.
Agree == [t \in 0..MaxTime |-> {t + Window}]

\* A worker's clock that may be one tick ahead or back.
Wander == [t \in 0..MaxTime |-> {t + Window - 1, t + Window, t + Window + 1}]

\* Nothing tells two workers, or two members, apart.
Alike == Permutations(Worker) \cup Permutations(Member)
=============================================================================
