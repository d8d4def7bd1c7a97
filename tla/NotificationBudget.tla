------------------------- MODULE NotificationBudget -------------------------
(***************************************************************************)
(* What the notification gate promises, whoever asks and whatever fails:   *)
(* notifications are released one after the other, and one is released at  *)
(* a time t only if fewer than Limit of them are younger than Window at t  *)
(* (youtrack-app/cma-account-audit/account-sync.js, notificationBudget and *)
(* reserveNotificationBudget).                                             *)
(***************************************************************************)
EXTENDS Naturals, FiniteSets

CONSTANTS
  Limit,  \* MEMBER_NOTIFICATION_LIMIT
  Window  \* MEMBER_NOTIFICATION_WINDOW_MS, in ticks

\* A limit that lets something through, and a window that takes time.
Proper == Limit \in Nat \ {0} /\ Window \in Nat \ {0}

VARIABLES
  now,     \* the server's clock
  released \* the notifications, each with its number `no` and time `at`

budgetVars == <<now, released>>

\* The notifications at time t that still count against the budget.
Recent(t) == {r \in released : r.at <= t /\ t < r.at + Window}

Start ==
  /\ now \in Nat
  /\ IsFiniteSet(released)
  /\ Cardinality(released) <= 1
  /\ \A r \in released : r.at \in Nat /\ r.at <= now

\* The clock may have gone on since the time the release is dated.
Release(n) ==
  /\ n.at \in Nat
  /\ n.at <= now
  /\ n \notin released
  /\ \A r \in released : r.at <= n.at
  /\ Cardinality(Recent(n.at)) < Limit
  /\ released' = released \cup {n}
  /\ UNCHANGED now

Pass == now' = now + 1 /\ UNCHANGED released

Step == Pass \/ \E n \in released' : Release(n)

Budget == Start /\ [][Step]_budgetVars

\* No window holds more than Limit notifications; the windows that end at a
\* notification are enough.
RollingBudget == \A s \in released : Cardinality(Recent(s.at)) <= Limit
=============================================================================
