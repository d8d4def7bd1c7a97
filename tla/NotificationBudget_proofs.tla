---------------------- MODULE NotificationBudget_proofs ---------------------
(***************************************************************************)
(* The budget's promise follows from its rule, for every limit and window. *)
(***************************************************************************)
EXTENDS NotificationBudget, FiniteSetTheorems, TLAPS

\* The notifications are finitely many and none is dated in the future.
Dated ==
  /\ now \in Nat
  /\ IsFiniteSet(released)
  /\ \A r \in released : r.at \in Nat /\ r.at <= now

\* A first history is dated.
LEMMA DatedStart == Start => Dated
  BY DEF Start, Dated

\* A release, and the passing of time, keep it dated.
LEMMA DatedStep == Dated /\ [Step]_budgetVars => Dated'
<1> SUFFICES ASSUME Dated, [Step]_budgetVars
             PROVE  Dated'
  OBVIOUS
<1>1. CASE Pass
  BY <1>1 DEF Dated, Pass
<1>2. ASSUME NEW n, Release(n)
      PROVE  Dated'
  <2>1. IsFiniteSet(released')
    BY <1>2, FS_AddElement DEF Dated, Release
  <2> QED BY <1>2, <2>1 DEF Dated, Release
<1>3. CASE UNCHANGED budgetVars
  BY <1>3 DEF Dated, budgetVars
<1> QED BY <1>1, <1>2, <1>3 DEF Step

\* What is recent is part of a finite set.
LEMMA RecentFinite ==
  ASSUME Dated, NEW t
  PROVE  /\ IsFiniteSet(Recent(t))
         /\ Cardinality(Recent(t)) \in Nat
         /\ Cardinality(Recent(t)) <= Cardinality(released)
<1>1. Recent(t) \in SUBSET released
  BY DEF Recent
<1> QED BY <1>1, FS_Subset, FS_CardinalityType DEF Dated

\* A release fills its own window by one and leaves the earlier ones alone.
LEMMA ReleaseKeepsBudget ==
  ASSUME Proper, Dated, RollingBudget, NEW n, Release(n)
  PROVE  RollingBudget'
<1> USE DEF Proper
<1>1. /\ n.at \in Nat
      /\ n \notin released
      /\ released' = released \cup {n}
      /\ \A r \in released : r.at \in Nat /\ r.at <= n.at
  BY DEF Release, Dated
<1>2. Recent(n.at)' = Recent(n.at) \cup {n}
  BY <1>1 DEF Recent
<1>3. Cardinality(Recent(n.at)') <= Limit
  <2>1. /\ IsFiniteSet(Recent(n.at))
        /\ Cardinality(Recent(n.at)) \in Nat
    BY RecentFinite
  <2>2. n \notin Recent(n.at)
    BY <1>1 DEF Recent
  <2>3. Cardinality(Recent(n.at) \cup {n}) = Cardinality(Recent(n.at)) + 1
    BY <2>1, <2>2, FS_AddElement
  <2>4. Cardinality(Recent(n.at)) < Limit
    BY DEF Release
  <2> QED BY <1>2, <2>1, <2>3, <2>4
<1>4. ASSUME NEW s \in released'
      PROVE  Cardinality(Recent(s.at)') <= Limit
  <2>1. CASE s.at = n.at
    <3>1. Recent(s.at)' = Recent(n.at)'
      BY <2>1 DEF Recent
    <3> QED BY <3>1, <1>3
  <2>2. CASE s.at # n.at
    <3>1. s \in released /\ s.at \in Nat /\ s.at < n.at
      BY <1>1, <2>2
    <3>2. Recent(s.at)' = Recent(s.at)
      BY <1>1, <3>1 DEF Recent
    <3> QED BY <3>1, <3>2 DEF RollingBudget
  <2> QED BY <2>1, <2>2
<1> QED BY <1>4 DEF RollingBudget, Recent

\* A first history keeps the budget.
LEMMA BudgetStart == Proper /\ Start => RollingBudget
<1> USE DEF Proper
<1> SUFFICES ASSUME Proper, Start, NEW s \in released
             PROVE  Cardinality(Recent(s.at)) <= Limit
  BY DEF RollingBudget
<1>1. Dated
  BY DatedStart
<1>2. Cardinality(released) \in Nat /\ Cardinality(released) <= 1
  BY FS_CardinalityType DEF Start
<1> QED BY <1>1, <1>2, RecentFinite

\* A release below the limit keeps the budget of every window.
LEMMA BudgetStep == Proper /\ Dated /\ RollingBudget /\ [Step]_budgetVars => RollingBudget'
<1> SUFFICES ASSUME Proper, Dated, RollingBudget, [Step]_budgetVars
             PROVE  RollingBudget'
  OBVIOUS
<1>1. CASE Pass
  BY <1>1 DEF RollingBudget, Recent, Pass
<1>2. ASSUME NEW n, Release(n)
      PROVE  RollingBudget'
  BY <1>2, ReleaseKeepsBudget
<1>3. CASE UNCHANGED budgetVars
  BY <1>3 DEF RollingBudget, Recent, budgetVars
<1> QED BY <1>1, <1>2, <1>3 DEF Step

\* Whoever keeps the budget's rule never releases more than Limit
\* notifications in any window.
THEOREM BudgetHolds ==
  ASSUME Proper
  PROVE  Budget => []RollingBudget
<1>1. Budget => []Dated
  BY DatedStart, DatedStep, PTL DEF Budget
<1>2. Start => RollingBudget
  BY BudgetStart
<1>3. Dated /\ RollingBudget /\ [Step]_budgetVars => RollingBudget'
  BY BudgetStep
<1> QED BY <1>1, <1>2, <1>3, PTL DEF Budget
=============================================================================
