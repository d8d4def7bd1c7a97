---------------------------- MODULE ReviewPromises ----------------------------
(***************************************************************************)
(* What the review promises a member: the audit moves an account towards   *)
(* the removal queue one stage at a time, and only when the message of the *)
(* stage it is at was posted during this visit of the stage and the whole  *)
(* promised time has passed since.  The reporter and the repair only end a *)
(* review; staff may do anything, but never inherit an earlier message.    *)
(***************************************************************************)
EXTENDS Naturals

CONSTANTS
  Review,   \* stages of a review
  Closed,   \* stages the audit does not leave by itself
  Follows,  \* Follows[s]: the stage after s
  Wait      \* Wait[s]: what is promised at stage s before the next one

VARIABLES
  clock,
  stage,
  told,     \* when the message of the current stage was posted; 0 if it was not
  by        \* who made the last change

vars == <<clock, stage, told, by>>

Init == clock = 1 /\ told = 0 /\ by = "nobody"

Tick == clock' > clock /\ UNCHANGED <<stage, told, by>>

Tell ==
  /\ told = 0
  /\ told' = clock
  /\ by' \in {"audit", "staff", "retry"}
  /\ UNCHANGED <<clock, stage>>

\* A change that leaves the stage and its message alone.
Note == by' # by /\ UNCHANGED <<clock, stage, told>>

\* Another stage, whose message is posted at once or not yet.
Enter(who) ==
  /\ stage' # stage
  /\ told' \in {0, clock}
  /\ by' = who
  /\ UNCHANGED clock

Open == stage \notin Review \cup Closed /\ stage' = "Inactivity Notice" /\ Enter("audit")

Create == stage = "none" /\ stage' = "Active" /\ Enter("audit")

Retain ==
  /\ stage' = "Access Retained"
  /\ \/ stage \in Review /\ (Enter("audit") \/ Enter("reporter"))
     \/ stage = "Active" /\ Enter("audit")

Escalate ==
  /\ stage \in DOMAIN Follows
  /\ stage' = Follows[stage]
  /\ told # 0
  /\ clock >= told + Wait[stage]
  /\ Enter("audit")

\* A ticket without a stage is given one, and nobody is told.
Adopt == stage = "" /\ stage' = "Access Retained" /\ told' = 0 /\ Enter("repair")

Manage == Enter("staff")

Next == Tick \/ Tell \/ Note \/ Open \/ Create \/ Retain \/ Escalate \/ Adopt \/ Manage

Spec == Init /\ [][Next]_vars
=============================================================================
