--------------------------- MODULE ReviewLifecycle ---------------------------
(***************************************************************************)
(* The review of one account, from the ticket the audit creates to the     *)
(* queue for removal: the app's endpoint (youtrack-app/cma-account-audit/  *)
(* account-sync.js) and the rules of the CMA workflow                      *)
(* (youtrack-workflows/cma-account-review).                                *)
(*                                                                         *)
(* The server runs one transaction at a time.  A request changes the       *)
(* ticket; then every on-change rule whose field changed runs once, in an  *)
(* order nobody fixed, and may change the ticket again; an exception in    *)
(* any of them takes all of it back.  A ticket's record holds the fields   *)
(* that decide something and the delivery state the workflow keeps in      *)
(* extension properties; a message is named by the stage it belongs to.    *)
(***************************************************************************)
EXTENDS Integers, Sequences

CONSTANTS
  Day,           \* ticks of the clock in a day
  Fresh,         \* AUDIT_FRESHNESS_MS, in ticks
  NoticeWait,    \* ticks from the inactivity notice to the next stage
  ReminderWait,  \* ... from the deletion notice to the final reminder
  FinalWait,     \* ... from the final reminder to the removal queue
  InactiveAfter, \* ticks after which an account counts as inactive
  History,       \* stages of tickets that predate the workflow
  Manual,        \* stages staff move a ticket to
  MaxTime,       \* bound: the clock
  MaxSyncs,      \* bound: permitted requests of the audit
  MaxChanges     \* bound: replies, and changes by staff

NoTicket == "none"
NoStage == ""
Review == {"Inactivity Notice", "Subject to Deletion", "Final Reminder", "Removal Due"}
Gated == {"Inactivity Notice", "Subject to Deletion", "Final Reminder"}
Message == Gated \cup {"Access Removed", "Access Retained"}
Stage == {NoTicket, NoStage, "Active", "Exempt"} \cup Review \cup Message
Status == {"Active", "Inactive", "Never Used"}
Outcome == {"none", "Pending", "Retained", "Removed", "Exempt"}
State == {"New", "Pending", "Solved"}
Actor == {"nobody", "audit", "staff", "reporter", "repair", "retry"}
Rule == {"lifecycle", "message", "bridge"}

ASSUME ReviewAssumption ==
  /\ {Day, Fresh, NoticeWait, ReminderWait, FinalWait, InactiveAfter} \subseteq Nat \ {0}
  /\ History \subseteq Stage \ {NoTicket}
  /\ Manual \subseteq Stage \ {NoTicket, NoStage}
  /\ {MaxTime, MaxSyncs, MaxChanges} \subseteq Nat

VARIABLES
  now,      \* the server's clock; 0 is no time at all
  played,   \* when the account last streamed, 0 if never
  ticket,   \* the ticket
  comments, \* the public messages posted to it: the delivery, its stage, the time
  due,      \* rules the running transaction has left
  actor,    \* who asked for the running or the last transaction
  before,   \* what an exception in the running transaction restores
  syncs, changes

vars == <<now, played, ticket, comments, due, actor, before, syncs, changes>>

\* A ticket that the workflow has not seen change its stage.
Untouched(stage, status, outcome, state) ==
  [stage |-> stage, status |-> status, outcome |-> outcome, state |-> state,
   lastStreamed |-> 0, reporter |-> TRUE, pulse |-> 0, confirmedAt |-> 0,
   observed |-> NoTicket, sequence |-> 0, pending |-> 0, delivered |-> 0,
   deliveredAt |-> 0, suppressed |-> NoStage]

Nothing == [ticket |-> Untouched(NoTicket, "Active", "none", "New"), comments |-> <<>>,
            actor |-> "nobody"]

(***************************************************************************)
(* communications.js: the delivery state of the ticket's current message.  *)
(***************************************************************************)
\* hasFreshAudit.
HasFreshAudit(t, after) ==
  /\ t.confirmedAt > after
  /\ t.confirmedAt <= now
  /\ now - t.confirmedAt < Fresh

\* currentDeliveryToken: none unless the delivery was prepared for this stage.
CurrentToken(t) == IF t.observed = t.stage THEN t.pending ELSE 0

\* currentMessageDeliveredAt.
DeliveredAt(t) ==
  IF CurrentToken(t) # 0 /\ t.delivered = CurrentToken(t) THEN t.deliveredAt ELSE 0

\* startDelivery.
StartDelivery(t) ==
  IF t.stage \in Message
  THEN [t EXCEPT !.observed = t.stage, !.sequence = @ + 1, !.pending = t.sequence + 1,
                 !.deliveredAt = 0]
  ELSE [t EXCEPT !.observed = t.stage, !.pending = 0, !.deliveredAt = 0]

\* sendPreparedMessage: may the current message be posted now?  A mistake: it
\* may be posted again.
CanRepeat(t) ==
  CurrentToken(t) # 0 /\ t.reporter /\ (t.stage \in Gated => HasFreshAudit(t, 0))
CanSend(t) ==
  /\ CurrentToken(t) # 0
  /\ t.delivered # CurrentToken(t)
  /\ t.stage \in Gated => HasFreshAudit(t, 0)
  /\ t.reporter

Sent(t) == IF CanSend(t) THEN [t EXCEPT !.delivered = t.pending, !.deliveredAt = now] ELSE t
Posted(t) == IF CanSend(t)
             THEN Append(comments, [token |-> t.pending, stage |-> t.stage, at |-> now])
             ELSE comments

(***************************************************************************)
(* The review clocks, which only the audit's confirmation evaluates.       *)
(***************************************************************************)
DayOf(t) == t \div Day

\* notice-escalation.js, advanceIfReady.  A mistake: any later confirmation will do.
HastyEscalation(t) ==
  IF /\ t.stage = "Inactivity Notice" /\ t.outcome = "Pending"
     /\ DeliveredAt(t) # 0
     /\ HasFreshAudit(t, DeliveredAt(t))
  THEN [t EXCEPT !.stage = IF t.lastStreamed # 0 /\ DayOf(t.lastStreamed) >= DayOf(DeliveredAt(t))
                           THEN "Access Retained" ELSE "Subject to Deletion"]
  ELSE t
NoticeEscalation(t) ==
  IF /\ t.stage = "Inactivity Notice" /\ t.outcome = "Pending"
     /\ DeliveredAt(t) # 0
     /\ HasFreshAudit(t, DeliveredAt(t))
     /\ now >= DeliveredAt(t) + NoticeWait
  THEN [t EXCEPT !.stage = IF t.lastStreamed # 0 /\ DayOf(t.lastStreamed) >= DayOf(DeliveredAt(t))
                           THEN "Access Retained" ELSE "Subject to Deletion"]
  ELSE t

\* deadline-transitions.js, advanceIfReady.
DeadlineTransition(t) ==
  LET wait == IF t.stage = "Subject to Deletion" THEN ReminderWait ELSE FinalWait
  IN IF /\ t.stage \in {"Subject to Deletion", "Final Reminder"} /\ t.outcome = "Pending"
        /\ DeliveredAt(t) # 0
        /\ HasFreshAudit(t, DeliveredAt(t))
        /\ now >= DeliveredAt(t) + wait
     THEN [t EXCEPT !.stage = IF t.stage = "Subject to Deletion" THEN "Final Reminder"
                                                                 ELSE "Removal Due"]
     ELSE t

(***************************************************************************)
(* Outcome and State.                                                      *)
(***************************************************************************)
\* What the stage stands for.
Settled(stage) ==
  CASE stage \in Review -> [outcome |-> "Pending", state |-> "Pending"]
    [] stage = "Access Retained" -> [outcome |-> "Retained", state |-> "Solved"]
    [] stage = "Access Removed" -> [outcome |-> "Removed", state |-> "Solved"]
    [] stage = "Exempt" -> [outcome |-> "Exempt", state |-> "Solved"]

Settle(t) == [t EXCEPT !.outcome = Settled(t.stage).outcome, !.state = Settled(t.stage).state]

\* lifecycle-transitions.js: two stages of the review are left as they are.
Lifecycle(t) ==
  IF t.stage \in {"Inactivity Notice", "Subject to Deletion", "Access Retained",
                  "Access Removed", "Exempt"}
  THEN Settle(t) ELSE t

Unsettled(t, stages) ==
  /\ t.stage \in stages
  /\ t.outcome # Settled(t.stage).outcome \/ t.state # Settled(t.stage).state

\* lifecycle-catchup.js, needsRepair.  A mistake: only what the rule above settles.
SettledByRule(t) ==
  \/ t.stage = NoStage /\ t.outcome = "Pending" /\ t.status = "Active"
  \/ Unsettled(t, {"Inactivity Notice", "Subject to Deletion", "Access Retained",
                   "Access Removed", "Exempt"})
NeedsRepair(t) ==
  \/ t.stage = NoStage /\ t.outcome = "Pending" /\ t.status = "Active"
  \/ Unsettled(t, Review \cup {"Access Retained", "Access Removed", "Exempt"})

\* repair.  A mistake: the message is not suppressed.
Announced(t) == IF t.stage = NoStage THEN [t EXCEPT !.stage = "Access Retained"] ELSE Settle(t)
Repaired(t) ==
  IF t.stage = NoStage
  THEN [t EXCEPT !.suppressed = "Access Retained", !.stage = "Access Retained"]
  ELSE Settle(t)

(***************************************************************************)
(* Transactions.                                                           *)
(***************************************************************************)
\* The rules that a change of the ticket from t to u starts.
Triggered(t, u) ==
  (IF u.stage # t.stage THEN {"lifecycle", "message"} ELSE {})
    \cup (IF u.pulse # t.pulse /\ u.pulse # 0 THEN {"bridge"} ELSE {})

Begin(who, t) ==
  /\ due = {}
  /\ ticket' = t
  /\ due' = Triggered(ticket, t)
  /\ actor' = who
  /\ before' = IF due' = {} THEN Nothing
               ELSE [ticket |-> ticket, comments |-> comments, actor |-> actor]

\* A rule ran and left the ticket as t, with what that change starts.
Ran(rule, t) ==
  /\ rule \in due
  /\ ticket' = t
  /\ due' = (due \ {rule}) \cup Triggered(ticket, t)
  /\ before' = IF due' = {} THEN Nothing ELSE before
  /\ UNCHANGED <<now, played, actor, syncs, changes>>

Raised(rule) ==
  /\ rule \in due
  /\ ticket' = before.ticket
  /\ comments' = before.comments
  /\ actor' = before.actor
  /\ due' = {}
  /\ before' = Nothing
  /\ UNCHANGED <<now, played, syncs, changes>>

RunLifecycle == Ran("lifecycle", Lifecycle(ticket)) /\ UNCHANGED comments

\* sendForStageChange.
RunMessage ==
  LET t == StartDelivery([ticket EXCEPT !.suppressed = NoStage])
  IN IF ticket.suppressed # NoStage /\ ticket.suppressed = ticket.stage
     THEN /\ Ran("message", [t EXCEPT !.delivered = IF t.pending # 0 THEN t.pending ELSE @])
          /\ UNCHANGED comments
     ELSE \/ Ran("message", Sent(t)) /\ comments' = Posted(t)
          \/ CanSend(t) /\ Raised("message")

\* The bridge: check and store the confirmation, send what is pending, look at
\* the clocks.  A mistake: any confirmation will do.
Confirmed(t) == [t EXCEPT !.confirmedAt = t.pulse, !.pulse = 0]

TrustingBridge ==
  LET t == Confirmed(ticket)
  IN \/ /\ Ran("bridge", DeadlineTransition(NoticeEscalation(Sent(t))))
        /\ comments' = Posted(t)
     \/ CanSend(t) /\ Raised("bridge")
RunBridge ==
  LET t == Confirmed(ticket)
  IN \/ /\ ticket.pulse = now
        /\ Ran("bridge", DeadlineTransition(NoticeEscalation(Sent(t))))
        /\ comments' = Posted(t)
     \/ /\ ticket.pulse # now \/ CanSend(t)
        /\ Raised("bridge")

(***************************************************************************)
(* Requests.                                                               *)
(***************************************************************************)
\* classify_account; whether an unused account was observed long enough is open.
Facts ==
  IF played = 0 THEN [status : {"Never Used"}, needed : BOOLEAN]
  ELSE IF now - played >= InactiveAfter THEN [status : {"Inactive"}, needed : {TRUE}]
  ELSE [status : {"Active"}, needed : {FALSE}]

\* planReviewDecision: the stage an account's ticket is to have.
Planned(t, facts, asked) ==
  IF t.stage = NoTicket THEN "Active"
  ELSE IF asked THEN t.stage
  ELSE IF /\ facts.status = "Active"
          /\ t.stage \in Review \/ (t.stage = "Active" /\ t.status # "Active") THEN "Access Retained"
  ELSE IF \/ ~facts.needed
          \/ t.stage \in Review \cup {"Exempt", "Access Removed"}
          \/ t.stage = "Access Retained" /\ t.status # "Active" THEN t.stage
  ELSE "Inactivity Notice"

\* applyFacts, applyReviewDecision and the confirmation, which a ticket created
\* for a later notice does not get.  A mistake: it gets both at once.
AppliedAtOnce(t, facts, asked) ==
  [t EXCEPT !.stage = IF t.stage = NoTicket /\ ~asked THEN "Inactivity Notice"
                      ELSE Planned(t, facts, asked),
            !.status = facts.status, !.lastStreamed = played, !.pulse = now]
Applied(t, facts, asked) ==
  [t EXCEPT !.stage = Planned(t, facts, asked),
            !.status = facts.status,
            !.lastStreamed = played,
            !.state = IF t.stage = NoTicket /\ asked THEN "Solved" ELSE @,
            !.pulse = IF t.stage = NoTicket /\ ~asked THEN @ ELSE now]

\* A request in permit mode: it writes only when a member could hear of it.
Sync(facts, asked) ==
  /\ syncs < MaxSyncs
  /\ ticket.stage = NoTicket => facts.needed \/ asked
  /\ ticket.stage = NoTicket \/ Planned(ticket, facts, asked) \in Message
  /\ ticket.reporter
  /\ Begin("audit", Applied(ticket, facts, asked))
  /\ syncs' = syncs + 1
  /\ UNCHANGED <<now, played, comments, changes>>

\* reporter-replies.js: a reply ends a review whose outcome is open.
Reply ==
  /\ changes < MaxChanges
  /\ ticket.stage \in Review
  /\ ticket.outcome = "Pending"
  /\ ticket.reporter
  /\ Begin("reporter", [ticket EXCEPT !.stage = "Access Retained"])
  /\ changes' = changes + 1
  /\ UNCHANGED <<now, played, comments, syncs>>

\* Staff change the stage, the reporter, or set a confirmation by hand.
Staff ==
  /\ changes < MaxChanges
  /\ ticket.stage # NoTicket
  /\ \/ \E stage \in Manual \ {ticket.stage} :
          Begin("staff", [ticket EXCEPT !.stage = stage])
     \/ Begin("staff", [ticket EXCEPT !.reporter = ~@])
     \/ \E pulse \in {now - 1, now, now + 1} : Begin("staff", [ticket EXCEPT !.pulse = pulse])
  /\ changes' = changes + 1
  /\ UNCHANGED <<now, played, comments, syncs>>

\* The hourly repair.
Repair ==
  /\ NeedsRepair(ticket)
  /\ Begin("repair", Repaired(ticket))
  /\ UNCHANGED <<now, played, comments, syncs, changes>>

\* communication-catchup.js, needsCatchUp: only what needs no confirmation.  The
\* rule is kept detached for now, so it may run and is not promised to.
CatchUp ==
  /\ CanSend(ticket)
  /\ ticket.stage \notin Gated
  /\ Begin("retry", Sent(ticket))
  /\ comments' = Posted(ticket)
  /\ UNCHANGED <<now, played, syncs, changes>>

Tick ==
  /\ due = {}
  /\ now < MaxTime
  /\ now' = now + 1
  /\ UNCHANGED <<played, ticket, comments, due, actor, before, syncs, changes>>

Stream ==
  /\ due = {}
  /\ changes < MaxChanges
  /\ played < now
  /\ played' = now
  /\ changes' = changes + 1
  /\ UNCHANGED <<now, ticket, comments, due, actor, before, syncs>>

-----------------------------------------------------------------------------
Init ==
  /\ now = 1
  /\ played \in {0, 1}
  /\ \/ ticket = Untouched(NoTicket, "Active", "none", "New")
     \/ \E stage \in History, has \in BOOLEAN :
          ticket = [Untouched(stage, IF played = 0 THEN "Never Used" ELSE "Active", "Pending", "New")
                     EXCEPT !.reporter = has]
  /\ comments = <<>>
  /\ due = {}
  /\ actor = "nobody"
  /\ before = Nothing
  /\ syncs = 0
  /\ changes = 0

Rules == RunLifecycle \/ RunMessage \/ RunBridge

Next ==
  \/ Rules
  \/ \E facts \in Facts, asked \in BOOLEAN : Sync(facts, asked)
  \/ Reply
  \/ Staff
  \/ Repair
  \/ CatchUp
  \/ Tick
  \/ Stream

\* The server goes on: a transaction ends, and the hourly repair runs.  No audit,
\* reply, retry or change by staff is promised.
Fairness == WF_vars(Rules \/ Repair)

Spec == Init /\ [][Next]_vars /\ Fairness

-----------------------------------------------------------------------------
(***************************************************************************)
(* Properties.                                                             *)
(***************************************************************************)
TicketType ==
  [stage : Stage, status : Status, outcome : Outcome, state : State, lastStreamed : Nat,
   reporter : BOOLEAN, pulse : Nat, confirmedAt : Nat, observed : Stage, sequence : Nat,
   pending : Nat, delivered : Nat, deliveredAt : Nat, suppressed : Stage]

\* Types; what was posted, and what it is counted from, lies in the past.
TypeOK ==
  /\ now \in Nat \ {0}
  /\ played \in 0..now
  /\ {ticket, before.ticket} \subseteq TicketType
  /\ \A t \in {ticket, before.ticket} :
       /\ t.lastStreamed <= now /\ t.confirmedAt <= now /\ t.deliveredAt <= now
       /\ t.pending <= t.sequence /\ t.delivered <= t.sequence
  /\ due \subseteq Rule
  /\ {actor, before.actor} \subseteq Actor
  /\ {syncs, changes} \subseteq Nat

\* The promises: what a member sees between transactions implements them.
Seen == IF due = {} THEN ticket ELSE before.ticket
Promises == INSTANCE ReviewPromises WITH
  Closed <- {NoTicket, "Exempt", "Access Removed"},
  Follows <- [s \in Gated |->
                CASE s = "Inactivity Notice" -> "Subject to Deletion"
                  [] s = "Subject to Deletion" -> "Final Reminder"
                  [] s = "Final Reminder" -> "Removal Due"],
  Wait <- [s \in Gated |->
             CASE s = "Inactivity Notice" -> NoticeWait
               [] s = "Subject to Deletion" -> ReminderWait
               [] s = "Final Reminder" -> FinalWait],
  clock <- now,
  stage <- Seen.stage,
  told <- DeliveredAt(Seen),
  by <- IF due = {} THEN actor ELSE before.actor

\* The audit escalates a review one stage at a time, and only after the whole
\* period that the message of this visit of the stage promised.
KeepsPromises == Promises!Spec

\* Whatever the order in which the stage rule, the bridge and the retry come to
\* it, a delivery is posted once.
OncePerDelivery ==
  \A i, j \in DOMAIN comments : comments[i].token = comments[j].token => i = j

\* One permitted request lets out one message: the mail that announces a new
\* ticket or one public comment, even when it also advances the review.
OneMessagePerRequest ==
  [][due # {} /\ actor = "audit" =>
       Len(comments') + (IF before.ticket.stage = NoTicket THEN 1 ELSE 0)
         <= Len(before.comments) + 1]_vars

\* The hourly repair and what it sets off never post.
RepairIsSilent ==
  [][(actor' = "repair" /\ due' # {}) \/ (actor = "repair" /\ due # {}) => comments' = comments]_vars

\* The hourly repair brings a ticket in order whatever staff set, whichever rule ran
\* first and whatever an exception took back: in the end Outcome and State agree
\* with the stage.
OutOfOrder == Unsettled(ticket, Review \cup {"Access Retained", "Access Removed", "Exempt"})
ComesInOrder == OutOfOrder ~> ~OutOfOrder

\* A welcomed member's ticket, solved at the stage Active, stays quiet until a
\* review begins: the first public message on it is the inactivity notice.
WelcomedStaysQuiet ==
  [][/\ comments' # comments
     /\ actor = "audit"
     /\ before.ticket.stage = "Active" /\ before.ticket.state = "Solved"
     => ticket.stage = "Inactivity Notice"]_vars
=============================================================================
