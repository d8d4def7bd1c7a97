------------------------ MODULE ReviewLifecycle_proofs ------------------------
(***************************************************************************)
(* Proofs about ReviewLifecycle, for every clock, waiting period and       *)
(* number of requests: its types, that a delivery is posted once, that one *)
(* request lets out one message, that the repair is silent, and that the   *)
(* review keeps what its messages promise.                                 *)
(***************************************************************************)
EXTENDS ReviewLifecycle, TLAPS

\* A ticket whose times lie in the past and whose deliveries are counted.
Sound(t) ==
  /\ t \in TicketType
  /\ t.lastStreamed <= now /\ t.confirmedAt <= now /\ t.deliveredAt <= now
  /\ t.pending <= t.sequence /\ t.delivered <= t.sequence
  /\ t.pending # 0 => t.observed \in Message

\* The fields that the delivery of a message does not touch.
Besides(t, u) ==
  /\ u.stage = t.stage /\ u.status = t.status /\ u.outcome = t.outcome /\ u.state = t.state
  /\ u.lastStreamed = t.lastStreamed /\ u.reporter = t.reporter /\ u.pulse = t.pulse
  /\ u.confirmedAt = t.confirmedAt

\* The fields that say what was delivered.
SameDelivery(t, u) ==
  /\ u.observed = t.observed /\ u.sequence = t.sequence /\ u.pending = t.pending
  /\ u.delivered = t.delivered /\ u.deliveredAt = t.deliveredAt

-----------------------------------------------------------------------------
(***************************************************************************)
(* What the operators do to a ticket.                                      *)
(***************************************************************************)
\* startDelivery prepares a message of the stage, or none.
LEMMA Started ==
  ASSUME NEW t \in TicketType, NEW u, u = StartDelivery(t)
  PROVE  /\ u \in TicketType /\ Besides(t, u)
         /\ u.observed = t.stage /\ u.deliveredAt = 0
         /\ u.delivered = t.delivered /\ u.suppressed = t.suppressed
         /\ t.stage \in Message => u.sequence = t.sequence + 1 /\ u.pending = t.sequence + 1
         /\ t.stage \notin Message => u.sequence = t.sequence /\ u.pending = 0
<1>0. t.stage \in Stage /\ t.sequence \in Nat
  BY DEF TicketType
<1>s. PICK s \in Stage : s = t.stage
  BY <1>0
<1>1. CASE t.stage \in Message
  <2>1. PICK n \in Nat : n = t.sequence + 1
    BY <1>0
  <2>2. u = [t EXCEPT !.observed = s, !.sequence = n, !.pending = n, !.deliveredAt = 0]
    BY <1>1, <1>s, <2>1 DEF StartDelivery
  <2>3. u \in TicketType
    <3>1. [t EXCEPT !.observed = s, !.sequence = n, !.pending = n, !.deliveredAt = 0] \in TicketType
      BY Zenon DEF TicketType
    <3> QED BY <2>2, <3>1
  <2>4. Besides(t, u)
    BY <2>2 DEF TicketType, Besides
  <2>5. /\ u.observed = t.stage /\ u.deliveredAt = 0 /\ u.delivered = t.delivered
        /\ u.suppressed = t.suppressed /\ u.sequence = n /\ u.pending = n
    BY <1>s, <2>2 DEF TicketType
  <2> QED BY <1>1, <2>1, <2>3, <2>4, <2>5
<1>2. CASE t.stage \notin Message
  <2>1. u = [t EXCEPT !.observed = s, !.pending = 0, !.deliveredAt = 0]
    BY <1>2, <1>s DEF StartDelivery
  <2>2. u \in TicketType
    <3>1. [t EXCEPT !.observed = s, !.pending = 0, !.deliveredAt = 0] \in TicketType
      BY Zenon DEF TicketType
    <3> QED BY <2>1, <3>1
  <2>3. Besides(t, u)
    BY <2>1 DEF TicketType, Besides
  <2>4. /\ u.observed = t.stage /\ u.deliveredAt = 0 /\ u.delivered = t.delivered
        /\ u.suppressed = t.suppressed /\ u.sequence = t.sequence /\ u.pending = 0
    BY <1>s, <2>1 DEF TicketType
  <2> QED BY <1>2, <2>2, <2>3, <2>4
<1> QED BY <1>1, <1>2

\* sendPreparedMessage notes what it posted, and when.
LEMMA SentIt ==
  ASSUME NEW t \in TicketType, now \in Nat, NEW u, u = Sent(t)
  PROVE  /\ u \in TicketType /\ Besides(t, u)
         /\ u.observed = t.observed /\ u.sequence = t.sequence /\ u.pending = t.pending
         /\ u.suppressed = t.suppressed
         /\ CanSend(t) => u.delivered = t.pending /\ u.deliveredAt = now
         /\ ~CanSend(t) => u = t
<1>1. CASE CanSend(t)
  <2>1. u = [t EXCEPT !.delivered = t.pending, !.deliveredAt = now]
    BY <1>1 DEF Sent
  <2> QED BY <1>1, <2>1 DEF TicketType, Besides
<1>2. CASE ~CanSend(t)
  BY <1>2 DEF Sent, Besides
<1> QED BY <1>1, <1>2

\* Only a message that was prepared for this stage can be sent, and once.
LEMMA Sendable ==
  ASSUME NEW t \in TicketType, CanSend(t)
  PROVE  /\ t.pending # 0 /\ t.observed = t.stage /\ t.delivered # t.pending
         /\ CurrentToken(t) = t.pending /\ DeliveredAt(t) = 0
BY DEF CanSend, CurrentToken, DeliveredAt, TicketType

\* When the message of the stage was delivered, by the ticket's fields.
LEMMA Delivered ==
  ASSUME NEW t \in TicketType
  PROVE  /\ DeliveredAt(t) = IF t.observed = t.stage /\ t.pending # 0 /\ t.delivered = t.pending
                             THEN t.deliveredAt ELSE 0
         /\ DeliveredAt(t) \in Nat
<1>1. DeliveredAt(t) = IF t.observed = t.stage /\ t.pending # 0 /\ t.delivered = t.pending
                       THEN t.deliveredAt ELSE 0
  BY DEF DeliveredAt, CurrentToken, TicketType
<1> QED BY <1>1 DEF TicketType

\* The stages of the notice, the reminder and the removal, and their periods.
NextStage(s) == CASE s = "Inactivity Notice" -> "Subject to Deletion"
                  [] s = "Subject to Deletion" -> "Final Reminder"
                  [] s = "Final Reminder" -> "Removal Due"
WaitAt(s) == CASE s = "Inactivity Notice" -> NoticeWait
               [] s = "Subject to Deletion" -> ReminderWait
               [] s = "Final Reminder" -> FinalWait

\* A clock has run out: the message was delivered its whole period ago, before the
\* last confirmation.
Elapsed(t) ==
  /\ t.stage \in Gated
  /\ DeliveredAt(t) # 0 /\ now >= DeliveredAt(t) + WaitAt(t.stage)
  /\ t.confirmedAt > DeliveredAt(t)

LEMMA Escalated ==
  ASSUME NEW t \in TicketType, NEW u, u = DeadlineTransition(NoticeEscalation(t))
  PROVE  \/ u = t
         \/ /\ Elapsed(t)
            /\ \/ u = [t EXCEPT !.stage = NextStage(t.stage)]
               \/ t.stage = "Inactivity Notice" /\ u = [t EXCEPT !.stage = "Access Retained"]
<1> DEFINE v == NoticeEscalation(t)
<1>1. CASE v = t
  <2>1. u = DeadlineTransition(t)
    BY <1>1
  <2> HIDE DEF v
  <2>2. CASE u = t
    BY <2>2
  <2>3. CASE u # t
    <3>1. /\ t.stage \in {"Subject to Deletion", "Final Reminder"}
          /\ DeliveredAt(t) # 0 /\ HasFreshAudit(t, DeliveredAt(t))
          /\ now >= DeliveredAt(t) + (IF t.stage = "Subject to Deletion" THEN ReminderWait ELSE FinalWait)
          /\ u = [t EXCEPT !.stage = IF t.stage = "Subject to Deletion" THEN "Final Reminder"
                                     ELSE "Removal Due"]
      BY <2>1, <2>3 DEF DeadlineTransition
    <3>2. WaitAt(t.stage) = (IF t.stage = "Subject to Deletion" THEN ReminderWait ELSE FinalWait)
          /\ NextStage(t.stage) = (IF t.stage = "Subject to Deletion" THEN "Final Reminder" ELSE "Removal Due")
      BY <3>1 DEF WaitAt, NextStage
    <3>3. t.stage \in Gated /\ t.confirmedAt > DeliveredAt(t)
      BY <3>1 DEF Gated, HasFreshAudit
    <3>4. Elapsed(t)
      BY <3>1, <3>2, <3>3 DEF Elapsed
    <3> QED BY <3>1, <3>2, <3>4
  <2> QED BY <2>2, <2>3
<1>2. CASE v # t
  <2>1. /\ t.stage = "Inactivity Notice" /\ DeliveredAt(t) # 0
        /\ HasFreshAudit(t, DeliveredAt(t)) /\ now >= DeliveredAt(t) + NoticeWait
        /\ \/ v = [t EXCEPT !.stage = "Subject to Deletion"]
           \/ v = [t EXCEPT !.stage = "Access Retained"]
    BY <1>2 DEF NoticeEscalation
  <2>2. WaitAt(t.stage) = NoticeWait /\ NextStage(t.stage) = "Subject to Deletion"
    BY <2>1 DEF WaitAt, NextStage
  <2>3. Elapsed(t)
    <3>1. t.stage \in Gated /\ t.confirmedAt > DeliveredAt(t)
      BY <2>1 DEF Gated, HasFreshAudit
    <3> QED BY <2>1, <2>2, <3>1 DEF Elapsed
  <2>4. t.observed = "Inactivity Notice"
    BY <2>1, Delivered
  <2>5. v \in TicketType /\ v.stage # t.stage /\ v.observed = t.observed
    BY <2>1 DEF TicketType, Stage, Review, Message
  <2> HIDE DEF v
  <2>6. DeliveredAt(v) = 0
    BY <2>1, <2>4, <2>5, Delivered
  <2>7. u = v
    BY <2>6 DEF DeadlineTransition, v
  <2> QED BY <2>1, <2>2, <2>3, <2>7
<1> QED BY <1>1, <1>2

\* What the rest of a transaction looks at, besides the delivery.
Kept(t, u) ==
  /\ SameDelivery(t, u)
  /\ u.stage = t.stage /\ u.lastStreamed = t.lastStreamed /\ u.pulse = t.pulse
  /\ u.confirmedAt = t.confirmedAt /\ u.suppressed = t.suppressed

Final == {"Access Retained", "Access Removed", "Exempt"}

\* Outcome and State follow the stage, and nothing else changes.
LEMMA SettledIt ==
  ASSUME NEW t \in TicketType, t.stage \in Review \cup Final, NEW u, u = Settle(t)
  PROVE  u \in TicketType /\ Kept(t, u)
<1>1. Settled(t.stage).outcome \in Outcome /\ Settled(t.stage).state \in State
  BY DEF Settled, Final, Review, Outcome, State
<1>2. PICK o \in Outcome, s \in State : u = [t EXCEPT !.outcome = o, !.state = s]
  BY <1>1 DEF Settle
<1>3. [t EXCEPT !.outcome = o, !.state = s] \in TicketType
  BY Zenon DEF TicketType
<1>4. u \in TicketType
  BY <1>2, <1>3
<1>5. Kept(t, u)
  BY <1>2 DEF Kept, SameDelivery, TicketType
<1> QED BY <1>4, <1>5

LEMMA LifecycleIt ==
  ASSUME NEW t \in TicketType, NEW u, u = Lifecycle(t)
  PROVE  u \in TicketType /\ Kept(t, u)
<1>1. CASE t.stage \in {"Inactivity Notice", "Subject to Deletion", "Access Retained",
                        "Access Removed", "Exempt"}
  <2>1. t.stage \in Review \cup Final /\ u = Settle(t)
    BY <1>1 DEF Review, Final, Lifecycle
  <2> QED BY <2>1, SettledIt
<1>2. CASE ~(t.stage \in {"Inactivity Notice", "Subject to Deletion", "Access Retained",
                          "Access Removed", "Exempt"})
  BY <1>2 DEF Lifecycle, Kept, SameDelivery
<1> QED BY <1>1, <1>2

\* The repair gives a ticket without a stage one, silently, and settles any other.
LEMMA RepairedIt ==
  ASSUME NEW t \in TicketType, NeedsRepair(t), NEW u, u = Repaired(t)
  PROVE  /\ u \in TicketType
         /\ SameDelivery(t, u) /\ u.lastStreamed = t.lastStreamed /\ u.pulse = t.pulse
         /\ u.confirmedAt = t.confirmedAt
         /\ IF t.stage = NoStage
            THEN u.stage = "Access Retained" /\ u.suppressed = "Access Retained"
            ELSE u.stage = t.stage
<1>1. CASE t.stage = NoStage
  <2>1. u = [t EXCEPT !.suppressed = "Access Retained", !.stage = "Access Retained"]
    BY <1>1 DEF Repaired
  <2>2. PICK s \in Stage : s = "Access Retained"
    BY DEF Stage, Message
  <2>3. [t EXCEPT !.suppressed = s, !.stage = s] \in TicketType
    BY Zenon DEF TicketType
  <2>4. u \in TicketType
    BY <2>1, <2>2, <2>3
  <2> QED BY <1>1, <2>1, <2>4 DEF TicketType, SameDelivery
<1>2. CASE t.stage # NoStage
  <2>1. t.stage \in Review \cup Final /\ u = Settle(t)
    BY <1>2 DEF NeedsRepair, Unsettled, Final, Repaired
  <2> QED BY <1>2, <2>1, SettledIt DEF Kept
<1> QED BY <1>1, <1>2

\* A confirmation is stored and used up.
LEMMA ConfirmedIt ==
  ASSUME NEW t \in TicketType, NEW u, u = Confirmed(t)
  PROVE  /\ u \in TicketType /\ SameDelivery(t, u)
         /\ u.stage = t.stage /\ u.lastStreamed = t.lastStreamed /\ u.suppressed = t.suppressed
         /\ u.confirmedAt = t.pulse /\ u.pulse = 0
<1>1. PICK n \in Nat : n = t.pulse
  BY DEF TicketType
<1>2. u = [t EXCEPT !.confirmedAt = n, !.pulse = 0]
  BY <1>1 DEF Confirmed
<1>3. [t EXCEPT !.confirmedAt = n, !.pulse = 0] \in TicketType
  BY Zenon DEF TicketType
<1>4. u \in TicketType
  BY <1>2, <1>3
<1> QED BY <1>1, <1>2, <1>4 DEF TicketType, SameDelivery

\* A stage is set, by staff, a reply or a clock.
LEMMA StagedIt ==
  ASSUME NEW t \in TicketType, NEW s \in Stage, NEW u, u = [t EXCEPT !.stage = s]
  PROVE  /\ u \in TicketType /\ SameDelivery(t, u) /\ u.stage = s
         /\ u.lastStreamed = t.lastStreamed /\ u.suppressed = t.suppressed
         /\ u.confirmedAt = t.confirmedAt /\ u.pulse = t.pulse
<1>1. [t EXCEPT !.stage = s] \in TicketType
  BY Zenon DEF TicketType
<1>2. u \in TicketType
  BY <1>1
<1> QED BY <1>2 DEF TicketType, SameDelivery

-----------------------------------------------------------------------------
(***************************************************************************)
(* Who may take a review where.                                            *)
(***************************************************************************)
Closed == {NoTicket, "Exempt", "Access Removed"}

\* The audit opens, ends or creates what the facts call for.
Decided(from, to) ==
  \/ from = NoTicket /\ to = "Active"
  \/ from \notin Review \cup Closed /\ to = "Inactivity Notice"
  \/ from \in Review \cup {"Active"} /\ to = "Access Retained"

LEMMA PlannedStage ==
  ASSUME NEW t \in TicketType, NEW facts, NEW asked \in BOOLEAN,
         NEW s, s = Planned(t, facts, asked)
  PROVE  /\ s \in Stage
         /\ (s = t.stage /\ t.stage # NoTicket) \/ Decided(t.stage, s)
         /\ t.stage = NoTicket => s = "Active"
<1>1. t.stage \in Stage /\ {"Active", "Access Retained", "Inactivity Notice"} \subseteq Stage
  BY DEF TicketType, Stage, Message, Review
<1>2. CASE t.stage = NoTicket
  <2>1. s = "Active"
    BY <1>2 DEF Planned
  <2> QED BY <1>1, <1>2, <2>1 DEF Decided
<1>3. CASE t.stage # NoTicket
  <2>1. \/ s = t.stage
        \/ /\ t.stage \in Review \cup {"Active"} /\ s = "Access Retained"
        \/ /\ t.stage \notin Review \cup {"Exempt", "Access Removed"} /\ s = "Inactivity Notice"
    <3> DEFINE active == /\ facts.status = "Active"
                         /\ t.stage \in Review \/ (t.stage = "Active" /\ t.status # "Active")
               stays == \/ ~facts.needed
                        \/ t.stage \in Review \cup {"Exempt", "Access Removed"}
                        \/ t.stage = "Access Retained" /\ t.status # "Active"
    <3>1. CASE asked
      BY <1>3, <3>1 DEF Planned
    <3>2. CASE ~asked /\ active
      <4>1. s = "Access Retained"
        BY <1>3, <3>2 DEF Planned
      <4> QED BY <3>2, <4>1
    <3>3. CASE ~asked /\ ~active /\ stays
      <4>1. s = t.stage
        BY <1>3, <3>3, Zenon DEF Planned
      <4> QED BY <4>1
    <3>4. CASE ~asked /\ ~active /\ ~stays
      <4>1. s = "Inactivity Notice"
        BY <1>3, <3>4, Zenon DEF Planned
      <4> QED BY <3>4, <4>1
    <3> QED BY <3>1, <3>2, <3>3, <3>4
  <2> QED BY <1>1, <1>3, <2>1 DEF Decided, Closed
<1> QED BY <1>2, <1>3

\* A request notes the facts and sets the stage the account's ticket is to have.
LEMMA AppliedIt ==
  ASSUME NEW t \in TicketType, played \in Nat, now \in Nat,
         NEW facts \in Facts, NEW asked \in BOOLEAN, NEW u, u = Applied(t, facts, asked)
  PROVE  /\ u \in TicketType /\ SameDelivery(t, u) /\ u.stage = Planned(t, facts, asked)
         /\ u.lastStreamed = played /\ u.confirmedAt = t.confirmedAt /\ u.suppressed = t.suppressed
<1>1. PICK s \in Stage : s = Planned(t, facts, asked)
  BY PlannedStage
<1>2. PICK st \in Status : st = facts.status
  BY DEF Facts, Status
<1>3. PICK state \in State : state = IF t.stage = NoTicket /\ asked THEN "Solved" ELSE t.state
  BY DEF TicketType, State
<1>4. PICK pulse \in Nat : pulse = IF t.stage = NoTicket /\ ~asked THEN t.pulse ELSE now
  BY DEF TicketType
<1>5. u = [t EXCEPT !.stage = s, !.status = st, !.lastStreamed = played, !.state = state,
                    !.pulse = pulse]
  BY <1>1, <1>2, <1>3, <1>4 DEF Applied, TicketType
<1>6. [t EXCEPT !.stage = s, !.status = st, !.lastStreamed = played, !.state = state,
                !.pulse = pulse] \in TicketType
  BY Zenon DEF TicketType
<1>7. u \in TicketType
  BY <1>5, <1>6
<1> QED BY <1>1, <1>5, <1>7 DEF TicketType, SameDelivery

-----------------------------------------------------------------------------
(***************************************************************************)
(* What was posted.                                                        *)
(***************************************************************************)
Comment == [token : Nat, stage : Stage, at : Nat]

\* The messages posted to a ticket are deliveries it has counted, each posted once;
\* the one it prepared last counts as delivered if it is among them.
Delivery(t, c) ==
  /\ c \in Seq(Comment)
  /\ \A i \in DOMAIN c : c[i].token \in 1..t.sequence
  /\ \A i \in DOMAIN c : c[i].token = t.pending => t.delivered = t.pending
  /\ \A i, j \in DOMAIN c : c[i].token = c[j].token => i = j

Good(t, c) == Sound(t) /\ Delivery(t, c)

\* A change beside the delivery.
LEMMA GoodBeside ==
  ASSUME NEW t, NEW c, Good(t, c), now \in Nat, NEW u \in TicketType, SameDelivery(t, u),
         u.lastStreamed <= now, u.confirmedAt <= now
  PROVE  Good(u, c)
BY DEF Good, Sound, Delivery, SameDelivery

LEMMA GoodKept ==
  ASSUME NEW t, NEW c, Good(t, c), now \in Nat, NEW u \in TicketType, Kept(t, u)
  PROVE  Good(u, c)
BY GoodBeside DEF Kept, Good, Sound

\* Another stage's message is prepared: its token is new.
LEMMA GoodStarted ==
  ASSUME NEW t, NEW c, Good(t, c), now \in Nat, NEW u, u = StartDelivery(t)
  PROVE  Good(u, c)
<1>1. t \in TicketType /\ t.sequence \in Nat
  BY DEF Good, Sound, TicketType
<1>2. /\ u \in TicketType /\ Besides(t, u) /\ u.observed = t.stage /\ u.deliveredAt = 0
      /\ u.delivered = t.delivered
      /\ t.stage \in Message => u.sequence = t.sequence + 1 /\ u.pending = t.sequence + 1
      /\ t.stage \notin Message => u.sequence = t.sequence /\ u.pending = 0
  BY <1>1, Started
<1>3. Sound(u)
  <2>1. t.delivered <= t.sequence /\ t.delivered \in Nat
    BY DEF Good, Sound, TicketType
  <2>2. u.pending <= u.sequence /\ u.delivered <= u.sequence
    BY <1>1, <1>2, <2>1
  <2>3. u.lastStreamed <= now /\ u.confirmedAt <= now /\ u.deliveredAt <= now
    BY <1>2 DEF Besides, Good, Sound
  <2> QED BY <1>2, <2>2, <2>3 DEF Sound
<1>4. \A i \in DOMAIN c : c[i].token \in 1..t.sequence
  BY DEF Good, Delivery
<1>5. \A i \in DOMAIN c : c[i].token \in 1..u.sequence /\ c[i].token # u.pending
  BY <1>1, <1>2, <1>4
<1> QED BY <1>3, <1>5 DEF Good, Delivery

\* What is posted is the prepared message, once.
LEMMA GoodSent ==
  ASSUME NEW t, Good(t, comments), now \in Nat, NEW u, u = Sent(t), NEW c, c = Posted(t)
  PROVE  Good(u, c)
<1>0. t \in TicketType
  BY DEF Good, Sound
<1>1. CASE ~CanSend(t)
  BY <1>1 DEF Sent, Posted
<1>2. CASE CanSend(t)
  <2>1. t.pending # 0 /\ t.delivered # t.pending
    BY <1>0, <1>2, Sendable
  <2>2. /\ u \in TicketType /\ Besides(t, u) /\ u.observed = t.observed
        /\ u.sequence = t.sequence /\ u.pending = t.pending
        /\ u.delivered = t.pending /\ u.deliveredAt = now
    BY <1>0, <1>2, SentIt
  <2>3. Sound(u)
    BY <2>2 DEF Good, Sound, Besides
  <2> DEFINE m == [token |-> t.pending, stage |-> t.stage, at |-> now]
  <2>4. m \in Comment /\ m.token = t.pending
    BY <1>0 DEF Comment, TicketType
  <2>5. c = Append(comments, m)
    BY <1>2 DEF Posted
  <2> HIDE DEF m
  <2>6. comments \in Seq(Comment)
    BY DEF Good, Delivery
  <2>7. /\ c \in Seq(Comment) /\ DOMAIN c = 1..(Len(comments) + 1) /\ DOMAIN comments = 1..Len(comments)
        /\ Len(comments) \in Nat
        /\ \A i \in 1..Len(comments) : c[i] = comments[i]
        /\ c[Len(comments) + 1] = m
    BY <2>4, <2>5, <2>6
  <2>8. t.pending \in 1..t.sequence
    BY <1>0, <2>1 DEF Good, Sound, TicketType
  <2>9. /\ \A i \in 1..Len(comments) : comments[i].token \in 1..t.sequence
        /\ \A i \in 1..Len(comments) : comments[i].token # t.pending
        /\ \A i, j \in 1..Len(comments) : comments[i].token = comments[j].token => i = j
    BY <2>1, <2>7 DEF Good, Delivery
  <2>10. \A i \in DOMAIN c : i \in 1..Len(comments) \/ i = Len(comments) + 1
    BY <2>7
  <2>11. \A i \in DOMAIN c : c[i].token \in 1..u.sequence
    BY <2>2, <2>4, <2>7, <2>8, <2>9, <2>10
  <2>12. \A i, j \in DOMAIN c : c[i].token = c[j].token => i = j
    BY <2>4, <2>7, <2>9, <2>10
  <2> QED BY <2>2, <2>3, <2>7, <2>11, <2>12 DEF Good, Delivery
<1> QED BY <1>1, <1>2

\* A delivery that is not to be posted counts as delivered.
LEMMA GoodSuppressed ==
  ASSUME NEW t, NEW c, Good(t, c), now \in Nat, NEW u,
         u = [t EXCEPT !.delivered = IF t.pending # 0 THEN t.pending ELSE @]
  PROVE  /\ Good(u, c) /\ Besides(t, u)
         /\ u.observed = t.observed /\ u.pending = t.pending /\ u.deliveredAt = t.deliveredAt
         /\ u.suppressed = t.suppressed /\ u.sequence = t.sequence
<1>0. t \in TicketType
  BY DEF Good, Sound
<1>1. PICK n \in Nat : n = IF t.pending # 0 THEN t.pending ELSE t.delivered
  BY <1>0 DEF TicketType
<1>2. u = [t EXCEPT !.delivered = n]
  BY <1>0, <1>1 DEF TicketType
<1>3. [t EXCEPT !.delivered = n] \in TicketType
  BY <1>0, Zenon DEF TicketType
<1>4. u \in TicketType /\ u.delivered = n
  BY <1>0, <1>2, <1>3 DEF TicketType
<1>5. /\ Besides(t, u) /\ u.observed = t.observed /\ u.pending = t.pending
      /\ u.deliveredAt = t.deliveredAt /\ u.suppressed = t.suppressed /\ u.sequence = t.sequence
  BY <1>0, <1>2 DEF TicketType, Besides
<1>6. Sound(u)
  BY <1>1, <1>4, <1>5 DEF Good, Sound, Besides
<1>7. Delivery(u, c)
  <2>1. \A i \in DOMAIN c : c[i].token = t.pending => n = t.pending
    BY <1>1 DEF Good, Delivery
  <2> QED BY <1>4, <1>5, <2>1 DEF Good, Delivery
<1> QED BY <1>5, <1>6, <1>7 DEF Good

-----------------------------------------------------------------------------
(***************************************************************************)
(* Types, and what every step leaves of them.                              *)
(***************************************************************************)
Clocks == now \in Nat \ {0} /\ played \in 0..now /\ {syncs, changes} \subseteq Nat
Parties == due \subseteq Rule /\ actor \in Actor /\ before.actor \in Actor

TypeInv ==
  /\ Clocks /\ Parties
  /\ Good(ticket, comments)
  /\ Good(before.ticket, before.comments)

\* A ticket that nothing was ever posted to is good.
LEMMA GoodUntouched ==
  ASSUME now \in Nat, NEW stage \in Stage, NEW status \in Status, NEW outcome \in Outcome,
         NEW state \in State, NEW has \in BOOLEAN
  PROVE  /\ Good(Untouched(stage, status, outcome, state), <<>>)
         /\ Good([Untouched(stage, status, outcome, state) EXCEPT !.reporter = has], <<>>)
<1> DEFINE t == Untouched(stage, status, outcome, state)
           u == [t EXCEPT !.reporter = has]
<1>1. NoTicket \in Stage /\ NoStage \in Stage
  BY DEF Stage
<1>2. t \in TicketType
  BY <1>1 DEF Untouched, TicketType
<1>3. /\ t.lastStreamed = 0 /\ t.confirmedAt = 0 /\ t.deliveredAt = 0 /\ t.pending = 0
      /\ t.sequence = 0 /\ t.delivered = 0
  BY DEF Untouched
<1> HIDE DEF t
<1>4. Sound(t)
  BY <1>2, <1>3 DEF Sound
<1>5. <<>> \in Seq(Comment) /\ DOMAIN <<>> = {}
  OBVIOUS
<1>6. Good(t, <<>>)
  BY <1>4, <1>5 DEF Good, Delivery
<1>7. u \in TicketType
  BY <1>2, Zenon DEF TicketType
<1>8. SameDelivery(t, u) /\ u.lastStreamed = 0 /\ u.confirmedAt = 0
  BY <1>2, <1>3 DEF TicketType, SameDelivery
<1> HIDE DEF u
<1>9. Good(u, <<>>)
  BY <1>6, <1>7, <1>8, GoodBeside
<1> QED BY <1>6, <1>9 DEF t, u

LEMMA GoodNothing == ASSUME now \in Nat PROVE Good(Nothing.ticket, Nothing.comments)
<1>1. NoTicket \in Stage /\ "Active" \in Status /\ "none" \in Outcome /\ "New" \in State
  BY DEF Stage, Status, Outcome, State
<1>2. Nothing.ticket = Untouched(NoTicket, "Active", "none", "New") /\ Nothing.comments = <<>>
  BY DEF Nothing
<1> QED BY <1>1, <1>2, GoodUntouched

\* What a transaction leaves to go back to.
LEMMA Begun ==
  ASSUME NEW who, NEW u, Begin(who, u)
  PROVE  /\ due = {} /\ ticket' = u /\ due' = Triggered(ticket, u) /\ actor' = who
         /\ due' = {} => before' = Nothing
         /\ due' # {} => before'.ticket = ticket /\ before'.comments = comments /\ before'.actor = actor
BY DEF Begin

LEMMA WentOn ==
  ASSUME NEW rule, NEW u, Ran(rule, u)
  PROVE  /\ rule \in due /\ ticket' = u /\ due' = (due \ {rule}) \cup Triggered(ticket, u)
         /\ due' = {} => before' = Nothing
         /\ due' # {} => before' = before
         /\ UNCHANGED <<now, played, actor, syncs, changes>>
BY DEF Ran

LEMMA TriggeredRules == \A t, u : Triggered(t, u) \subseteq Rule
BY DEF Triggered, Rule

LEMMA BeginTyped ==
  ASSUME TypeInv, NEW who \in Actor, NEW u, Begin(who, u), Good(u, comments'), now' = now, Clocks'
  PROVE  TypeInv'
<1>1. Parties'
  BY Begun, TriggeredRules DEF TypeInv, Parties, Nothing, Actor
<1>2. Good(ticket, comments)'
  BY Begun DEF Good, Sound
<1>3. Good(before.ticket, before.comments)'
  <2>1. now \in Nat
    BY DEF TypeInv, Clocks
  <2>2. Good(before'.ticket, before'.comments)
    BY <2>1, Begun, GoodNothing DEF TypeInv
  <2> QED BY <2>2 DEF Good, Sound
<1> QED BY <1>1, <1>2, <1>3 DEF TypeInv

LEMMA RanTyped ==
  ASSUME TypeInv, NEW rule, NEW u, Ran(rule, u), Good(u, comments')
  PROVE  TypeInv'
<1>0. now' = now /\ Clocks'
  BY WentOn DEF TypeInv, Clocks
<1>1. Parties'
  BY WentOn, TriggeredRules DEF TypeInv, Parties, Nothing, Actor
<1>2. Good(ticket, comments)'
  BY <1>0, WentOn DEF Good, Sound
<1>3. Good(before.ticket, before.comments)'
  <2>1. now \in Nat
    BY DEF TypeInv, Clocks
  <2>2. Good(before'.ticket, before'.comments)
    BY <2>1, WentOn, GoodNothing DEF TypeInv
  <2> QED BY <1>0, <2>2 DEF Good, Sound
<1> QED BY <1>0, <1>1, <1>2, <1>3 DEF TypeInv

LEMMA RaisedTyped ==
  ASSUME TypeInv, NEW rule, Raised(rule)
  PROVE  TypeInv'
<1>0. now' = now /\ Clocks'
  BY DEF TypeInv, Clocks, Raised
<1>1. Parties'
  BY DEF TypeInv, Parties, Nothing, Actor, Raised
<1>2. Good(ticket, comments)'
  BY <1>0 DEF TypeInv, Good, Sound, Raised
<1>3. Good(before.ticket, before.comments)'
  <2>1. now \in Nat /\ before' = Nothing
    BY DEF TypeInv, Clocks, Raised
  <2> QED BY <1>0, <2>1, GoodNothing DEF Good, Sound
<1> QED BY <1>0, <1>1, <1>2, <1>3 DEF TypeInv

-----------------------------------------------------------------------------
(***************************************************************************)
(* What becomes of the ticket in each step.                                *)
(***************************************************************************)
\* A request, a reply, a change by staff or the repair leaves the delivery alone.
\* Staff may set any stage; the others what they are there for.
Requested(who, t, u) ==
  \/ /\ who = "audit"
     /\ (u.stage = t.stage /\ t.stage # NoTicket) \/ Decided(t.stage, u.stage)
     /\ t.stage = NoTicket => u.stage = "Active"
  \/ who = "reporter" /\ t.stage \in Review /\ u.stage = "Access Retained"
  \/ who = "staff" /\ t.stage # NoTicket /\ u.stage # NoTicket
  \/ /\ who = "repair" /\ u.pulse = t.pulse
     /\ IF t.stage = NoStage
        THEN u.stage = "Access Retained" /\ u.suppressed = "Access Retained"
        ELSE u.stage = t.stage

Asked(who, u) ==
  /\ Begin(who, u) /\ who \in Actor
  /\ Good(u, comments) /\ comments' = comments /\ now' = now /\ Clocks'
  /\ SameDelivery(ticket, u) /\ Requested(who, ticket, u)

LEMMA SyncAsks ==
  ASSUME TypeInv, NEW facts \in Facts, NEW asked \in BOOLEAN, Sync(facts, asked)
  PROVE  \E u : Asked("audit", u)
<1>1. PICK u : u = Applied(ticket, facts, asked)
  OBVIOUS
<1>2. Begin("audit", u) /\ comments' = comments /\ now' = now /\ played' = played
      /\ syncs' = syncs + 1 /\ changes' = changes
  BY <1>1 DEF Sync
<1>3. /\ ticket \in TicketType /\ Good(ticket, comments) /\ played \in Nat /\ now \in Nat
      /\ ticket.confirmedAt <= now /\ played <= now
  BY DEF TypeInv, Clocks, Good, Sound
<1>4. /\ u \in TicketType /\ SameDelivery(ticket, u) /\ u.stage = Planned(ticket, facts, asked)
      /\ u.lastStreamed = played /\ u.confirmedAt = ticket.confirmedAt
  BY <1>1, <1>3, AppliedIt
<1>5. Good(u, comments)
  BY <1>3, <1>4, GoodBeside
<1>6. /\ (u.stage = ticket.stage /\ ticket.stage # NoTicket) \/ Decided(ticket.stage, u.stage)
      /\ ticket.stage = NoTicket => u.stage = "Active"
  BY <1>3, <1>4, PlannedStage
<1>7. Clocks'
  BY <1>2 DEF TypeInv, Clocks
<1>8. Requested("audit", ticket, u)
  BY <1>6 DEF Requested
<1> QED BY <1>2, <1>4, <1>5, <1>7, <1>8 DEF Asked, Actor

LEMMA ReplyAsks ==
  ASSUME TypeInv, Reply
  PROVE  \E u : Asked("reporter", u)
<1>1. PICK u : u = [ticket EXCEPT !.stage = "Access Retained"]
  OBVIOUS
<1>2. Begin("reporter", u) /\ comments' = comments /\ now' = now /\ played' = played
      /\ syncs' = syncs /\ changes' = changes + 1 /\ ticket.stage \in Review
  BY <1>1 DEF Reply
<1>3. /\ ticket \in TicketType /\ Good(ticket, comments) /\ now \in Nat
      /\ ticket.confirmedAt <= now /\ ticket.lastStreamed <= now
  BY DEF TypeInv, Clocks, Good, Sound
<1>4. PICK s \in Stage : s = "Access Retained"
  BY DEF Stage, Message
<1>9. u = [ticket EXCEPT !.stage = s]
  BY <1>1, <1>4
<1>5. /\ u \in TicketType /\ SameDelivery(ticket, u) /\ u.stage = s
      /\ u.lastStreamed = ticket.lastStreamed /\ u.confirmedAt = ticket.confirmedAt
  BY <1>3, <1>9, StagedIt
<1>6. Good(u, comments)
  BY <1>3, <1>5, GoodBeside
<1>7. Clocks'
  BY <1>2 DEF TypeInv, Clocks
<1>8. Requested("reporter", ticket, u)
  BY <1>2, <1>4, <1>5 DEF Requested
<1> QED BY <1>2, <1>5, <1>6, <1>7, <1>8 DEF Asked, Actor

LEMMA StaffAsks ==
  ASSUME TypeInv, Staff
  PROVE  \E u : Asked("staff", u)
<1>1. /\ comments' = comments /\ now' = now /\ played' = played /\ syncs' = syncs
      /\ changes' = changes + 1 /\ ticket.stage # NoTicket
  BY DEF Staff
<1>2. /\ ticket \in TicketType /\ Good(ticket, comments) /\ now \in Nat \ {0}
      /\ ticket.confirmedAt <= now /\ ticket.lastStreamed <= now
  BY DEF TypeInv, Clocks, Good, Sound
<1>3. Clocks'
  BY <1>1 DEF TypeInv, Clocks
<1>4. SUFFICES \E u : /\ Begin("staff", u) /\ u \in TicketType /\ SameDelivery(ticket, u)
                      /\ u.stage # NoTicket
                      /\ u.confirmedAt = ticket.confirmedAt /\ u.lastStreamed = ticket.lastStreamed
  <2>1. PICK u : /\ Begin("staff", u) /\ u \in TicketType /\ SameDelivery(ticket, u)
                 /\ u.stage # NoTicket
                 /\ u.confirmedAt = ticket.confirmedAt /\ u.lastStreamed = ticket.lastStreamed
    BY <1>4
  <2>2. Good(u, comments)
    BY <1>2, <2>1, GoodBeside
  <2> QED BY <1>1, <1>3, <2>1, <2>2 DEF Asked, Requested, Actor
<1>5. CASE \E stage \in Manual \ {ticket.stage} : Begin("staff", [ticket EXCEPT !.stage = stage])
  <2>1. PICK stage \in Manual : Begin("staff", [ticket EXCEPT !.stage = stage])
    BY <1>5
  <2>2. stage \in Stage /\ stage # NoTicket
    BY ReviewAssumption
  <2> QED BY <1>2, <2>1, <2>2, StagedIt
<1>6. CASE Begin("staff", [ticket EXCEPT !.reporter = ~@])
  <2>1. PICK has \in BOOLEAN : has = ~ticket.reporter
    OBVIOUS
  <2>2. PICK u : u = [ticket EXCEPT !.reporter = has]
    OBVIOUS
  <2>3. Begin("staff", u)
    BY <1>2, <1>6, <2>1, <2>2 DEF TicketType
  <2>4. [ticket EXCEPT !.reporter = has] \in TicketType
    BY <1>2, Zenon DEF TicketType
  <2>5. SameDelivery(ticket, u) /\ u.stage = ticket.stage /\ u.confirmedAt = ticket.confirmedAt
        /\ u.lastStreamed = ticket.lastStreamed
    BY <1>2, <2>2 DEF TicketType, SameDelivery
  <2>6. u \in TicketType
    BY <2>2, <2>4
  <2> HIDE DEF SameDelivery
  <2> QED BY <1>1, <2>3, <2>5, <2>6
<1>7. CASE \E pulse \in {now - 1, now, now + 1} : Begin("staff", [ticket EXCEPT !.pulse = pulse])
  <2>0. PICK pulse \in {now - 1, now, now + 1} : Begin("staff", [ticket EXCEPT !.pulse = pulse])
    BY <1>7
  <2>1. pulse \in Nat
    BY <1>2
  <2>2. PICK u : u = [ticket EXCEPT !.pulse = pulse]
    OBVIOUS
  <2>4. [ticket EXCEPT !.pulse = pulse] \in TicketType
    BY <1>2, <2>1, Zenon DEF TicketType
  <2>5. SameDelivery(ticket, u) /\ u.stage = ticket.stage /\ u.confirmedAt = ticket.confirmedAt
        /\ u.lastStreamed = ticket.lastStreamed
    BY <1>2, <2>2 DEF TicketType, SameDelivery
  <2> QED BY <1>1, <2>0, <2>2, <2>4, <2>5
<1> QED BY <1>5, <1>6, <1>7 DEF Staff

LEMMA RepairAsks ==
  ASSUME TypeInv, Repair
  PROVE  \E u : Asked("repair", u)
<1>1. PICK u : u = Repaired(ticket)
  OBVIOUS
<1>2. Begin("repair", u) /\ comments' = comments /\ now' = now /\ played' = played
      /\ syncs' = syncs /\ changes' = changes /\ NeedsRepair(ticket)
  BY <1>1 DEF Repair
<1>3. /\ ticket \in TicketType /\ Good(ticket, comments) /\ now \in Nat
      /\ ticket.confirmedAt <= now /\ ticket.lastStreamed <= now
  BY DEF TypeInv, Clocks, Good, Sound
<1>4. /\ u \in TicketType
      /\ SameDelivery(ticket, u) /\ u.lastStreamed = ticket.lastStreamed /\ u.pulse = ticket.pulse
      /\ u.confirmedAt = ticket.confirmedAt
      /\ IF ticket.stage = NoStage
         THEN u.stage = "Access Retained" /\ u.suppressed = "Access Retained"
         ELSE u.stage = ticket.stage
  BY <1>1, <1>2, <1>3, RepairedIt
<1>5. Good(u, comments)
  BY <1>3, <1>4, GoodBeside
<1>6. Clocks'
  BY <1>2 DEF TypeInv, Clocks
<1>7. Requested("repair", ticket, u)
  BY <1>4 DEF Requested
<1> QED BY <1>2, <1>4, <1>5, <1>6, <1>7 DEF Asked, Actor

\* The retry posts what is pending, in a transaction that sets nothing off.
LEMMA CatchUpPosts ==
  ASSUME TypeInv, CatchUp
  PROVE  \E u : /\ Begin("retry", u) /\ Good(u, comments') /\ now' = now /\ Clocks'
                /\ u.stage = ticket.stage /\ u.observed = ticket.observed /\ u.pulse = ticket.pulse
                /\ DeliveredAt(ticket) = 0 /\ DeliveredAt(u) = now
                /\ Triggered(ticket, u) = {}
<1>1. PICK u : u = Sent(ticket)
  OBVIOUS
<1>2. /\ Begin("retry", u) /\ comments' = Posted(ticket) /\ now' = now /\ played' = played
      /\ syncs' = syncs /\ changes' = changes /\ CanSend(ticket)
  BY <1>1 DEF CatchUp
<1>3. ticket \in TicketType /\ Good(ticket, comments) /\ now \in Nat
  BY DEF TypeInv, Clocks, Good, Sound
<1>4. Good(u, comments')
  BY <1>1, <1>2, <1>3, GoodSent
<1>5. /\ u \in TicketType /\ Besides(ticket, u) /\ u.observed = ticket.observed
      /\ u.pending = ticket.pending /\ u.delivered = ticket.pending /\ u.deliveredAt = now
  BY <1>1, <1>2, <1>3, SentIt
<1>6. ticket.pending # 0 /\ ticket.observed = ticket.stage /\ DeliveredAt(ticket) = 0
  BY <1>2, <1>3, Sendable
<1>7. DeliveredAt(u) = now
  BY <1>5, <1>6, Delivered DEF Besides
<1>8. Triggered(ticket, u) = {}
  BY <1>5 DEF Triggered, Besides
<1>9. Clocks'
  BY <1>2 DEF TypeInv, Clocks
<1> QED BY <1>2, <1>4, <1>5, <1>6, <1>7, <1>8, <1>9 DEF Besides

LEMMA LifecycleRuns ==
  ASSUME TypeInv, RunLifecycle
  PROVE  \E u : /\ Ran("lifecycle", u) /\ Good(u, comments) /\ comments' = comments
                /\ u \in TicketType /\ Kept(ticket, u)
<1>1. PICK u : u = Lifecycle(ticket)
  OBVIOUS
<1>2. Ran("lifecycle", u) /\ comments' = comments
  BY <1>1 DEF RunLifecycle
<1>3. ticket \in TicketType /\ Good(ticket, comments) /\ now \in Nat
  BY DEF TypeInv, Clocks, Good, Sound
<1>4. u \in TicketType /\ Kept(ticket, u)
  BY <1>1, <1>3, LifecycleIt
<1>5. Good(u, comments)
  BY <1>3, <1>4, GoodKept
<1> QED BY <1>2, <1>4, <1>5

Suppressed(t) == t.suppressed # NoStage /\ t.suppressed = t.stage

\* The stage rule prepares the stage's message and posts it, unless it is suppressed,
\* needs a confirmation, or an exception ends the transaction.
LEMMA MessageRuns ==
  ASSUME TypeInv, RunMessage
  PROVE  \/ Raised("message") /\ ~Suppressed(ticket)
         \/ \E u : /\ Ran("message", u) /\ Good(u, comments') /\ u \in TicketType
                   /\ u.stage = ticket.stage /\ u.observed = ticket.stage /\ u.pulse = ticket.pulse
                   /\ \/ comments' = comments /\ DeliveredAt(u) = 0
                      \/ /\ ~Suppressed(ticket) /\ u.stage \in Message
                         /\ Len(comments') = Len(comments) + 1 /\ DeliveredAt(u) = now
<1> DEFINE m == [ticket EXCEPT !.suppressed = NoStage]
           t == StartDelivery(m)
<1>0. ticket \in TicketType /\ Good(ticket, comments) /\ now \in Nat
      /\ ticket.confirmedAt <= now /\ ticket.lastStreamed <= now
  BY DEF TypeInv, Clocks, Good, Sound
<1>1. /\ m \in TicketType /\ SameDelivery(ticket, m) /\ m.stage = ticket.stage /\ m.pulse = ticket.pulse
      /\ m.lastStreamed = ticket.lastStreamed /\ m.confirmedAt = ticket.confirmedAt
  <2>1. PICK s \in Stage : s = NoStage
    BY DEF Stage
  <2>2. m = [ticket EXCEPT !.suppressed = s]
    BY <2>1
  <2>3. [ticket EXCEPT !.suppressed = s] \in TicketType
    BY <1>0, Zenon DEF TicketType
  <2>4. m \in TicketType
    BY <2>2, <2>3
  <2> QED BY <1>0, <2>2, <2>4 DEF TicketType, SameDelivery
<1>2. Good(m, comments)
  BY <1>0, <1>1, GoodBeside
<1>3. /\ RunMessage <=>
            IF Suppressed(ticket)
            THEN /\ Ran("message", [t EXCEPT !.delivered = IF t.pending # 0 THEN t.pending ELSE @])
                 /\ UNCHANGED comments
            ELSE \/ Ran("message", Sent(t)) /\ comments' = Posted(t)
                 \/ CanSend(t) /\ Raised("message")
  BY DEF RunMessage, Suppressed
<1> HIDE DEF m
<1>4. t \in TicketType /\ Besides(m, t) /\ t.observed = m.stage /\ t.deliveredAt = 0
  BY <1>1, Started
<1>5. Good(t, comments)
  BY <1>0, <1>2, GoodStarted
<1>6. t.stage = ticket.stage /\ t.observed = ticket.stage /\ t.pulse = ticket.pulse
  BY <1>1, <1>4 DEF Besides
<1> HIDE DEF t
<1>7. CASE Suppressed(ticket)
  <2>1. PICK u : u = [t EXCEPT !.delivered = IF t.pending # 0 THEN t.pending ELSE @]
    OBVIOUS
  <2>2. Ran("message", u) /\ comments' = comments
    BY <1>3, <1>7, <2>1
  <2>3. Good(u, comments) /\ Besides(t, u) /\ u.observed = t.observed /\ u.deliveredAt = t.deliveredAt
    BY <1>0, <1>5, <2>1, GoodSuppressed
  <2>4. u \in TicketType
    BY <2>3 DEF Good, Sound
  <2>5. DeliveredAt(u) = 0
    BY <1>4, <2>3, <2>4, Delivered
  <2> QED BY <1>6, <2>2, <2>3, <2>4, <2>5 DEF Besides
<1>8. CASE ~Suppressed(ticket) /\ Ran("message", Sent(t)) /\ comments' = Posted(t)
  <2>1. PICK u : u = Sent(t)
    OBVIOUS
  <2>2. Ran("message", u)
    BY <1>8, <2>1
  <2>3. Good(u, comments')
    BY <1>0, <1>5, <1>8, <2>1, GoodSent
  <2>4. /\ u \in TicketType /\ Besides(t, u) /\ u.observed = t.observed /\ u.pending = t.pending
        /\ CanSend(t) => u.delivered = t.pending /\ u.deliveredAt = now
        /\ ~CanSend(t) => u = t
    BY <1>0, <1>4, <2>1, SentIt
  <2>5. CASE CanSend(t)
    <3>1. t.pending # 0 /\ t.observed = t.stage
      BY <1>4, <2>5, Sendable
    <3>2. DeliveredAt(u) = now
      BY <2>4, <2>5, <3>1, Delivered DEF Besides
    <3>3. u.stage \in Message
      BY <1>5, <2>4, <3>1 DEF Good, Sound, Besides
    <3>4. Len(comments') = Len(comments) + 1
      <4>1. comments \in Seq(Comment)
        BY <1>5 DEF Good, Delivery
      <4> QED BY <1>8, <2>5, <4>1 DEF Posted
    <3> QED BY <1>6, <1>8, <2>2, <2>3, <2>4, <3>2, <3>3, <3>4 DEF Besides
  <2>6. CASE ~CanSend(t)
    <3>1. u = t /\ comments' = comments
      BY <1>8, <2>4, <2>6 DEF Posted
    <3>2. DeliveredAt(u) = 0
      BY <1>4, <3>1, Delivered
    <3> QED BY <1>6, <2>2, <2>3, <2>4, <3>1, <3>2
  <2> QED BY <2>5, <2>6
<1>9. CASE ~Suppressed(ticket) /\ Raised("message")
  BY <1>9
<1> QED BY <1>3, <1>7, <1>8, <1>9

\* A confirmation posts what was prepared and waits for it, or takes a review whose
\* clock has run out to the next stage, never both.
Advanced(t, u) ==
  /\ t.observed = t.stage /\ t.stage \in Gated /\ u.stage # t.stage
  /\ \/ u.stage = NextStage(t.stage)
     \/ t.stage = "Inactivity Notice" /\ u.stage = "Access Retained"
  /\ DeliveredAt(t) # 0 /\ DeliveredAt(t) < now /\ now >= DeliveredAt(t) + WaitAt(t.stage)
  /\ DeliveredAt(u) = 0

LEMMA NextStages ==
  \A s \in Gated : NextStage(s) \in Stage \ {NoTicket, s}
BY DEF Gated, NextStage, Stage, Review, NoTicket

LEMMA BridgeRuns ==
  ASSUME TypeInv, RunBridge
  PROVE  \/ Raised("bridge")
         \/ \E u : /\ Ran("bridge", u) /\ Good(u, comments') /\ u \in TicketType
                   /\ u.observed = ticket.observed /\ u.pulse = 0
                   /\ \/ /\ u.stage = ticket.stage /\ comments' = comments
                         /\ DeliveredAt(u) = DeliveredAt(ticket)
                      \/ /\ u.stage = ticket.stage /\ u.observed = ticket.stage /\ u.stage \in Message
                         /\ DeliveredAt(ticket) = 0 /\ DeliveredAt(u) = now
                         /\ Len(comments') = Len(comments) + 1
                      \/ Advanced(ticket, u) /\ comments' = comments
<1>0. ticket \in TicketType /\ Good(ticket, comments) /\ now \in Nat \ {0}
      /\ ticket.confirmedAt <= now /\ ticket.lastStreamed <= now
  BY DEF TypeInv, Clocks, Good, Sound
<1> DEFINE t == Confirmed(ticket)
           v == Sent(t)
<1>1. CASE Raised("bridge")
  BY <1>1
<1>2. CASE ticket.pulse = now /\ Ran("bridge", DeadlineTransition(NoticeEscalation(v)))
           /\ comments' = Posted(t)
  <2>1. /\ t \in TicketType /\ SameDelivery(ticket, t)
        /\ t.stage = ticket.stage /\ t.lastStreamed = ticket.lastStreamed
        /\ t.confirmedAt = now /\ t.pulse = 0
    BY <1>0, <1>2, ConfirmedIt
  <2> HIDE DEF t
  <2>2. Good(t, comments)
    BY <1>0, <2>1, GoodBeside
  <2>3. /\ v \in TicketType /\ Besides(t, v)
        /\ v.observed = t.observed /\ v.sequence = t.sequence /\ v.pending = t.pending
        /\ CanSend(t) => v.delivered = t.pending /\ v.deliveredAt = now
        /\ ~CanSend(t) => v = t
    BY <1>0, <2>1, SentIt
  <2>4. Good(v, comments')
    BY <1>0, <1>2, <2>2, GoodSent
  <2>5. DeliveredAt(t) = DeliveredAt(ticket)
    BY <1>0, <2>1, Delivered DEF SameDelivery
  <2> HIDE DEF v
  <2>6. PICK u : u = DeadlineTransition(NoticeEscalation(v))
    OBVIOUS
  <2>7. Ran("bridge", u)
    BY <1>2, <2>6
  <2>8. \/ u = v
        \/ /\ Elapsed(v)
           /\ \/ u = [v EXCEPT !.stage = NextStage(v.stage)]
              \/ v.stage = "Inactivity Notice" /\ u = [v EXCEPT !.stage = "Access Retained"]
    BY <2>3, <2>6, Escalated
  <2>9. CASE CanSend(t)
    <3>1. t.pending # 0 /\ t.observed = t.stage /\ DeliveredAt(t) = 0
      BY <2>1, <2>9, Sendable
    <3>2. DeliveredAt(v) = now
      BY <2>3, <2>9, <3>1, Delivered DEF Besides
    <3>3. ~Elapsed(v)
      BY <1>0, <2>1, <2>3, <3>2 DEF Elapsed, Besides
    <3>4. u = v
      BY <2>8, <3>3
    <3>5. u.stage \in Message
      BY <2>2, <2>3, <3>1, <3>4 DEF Good, Sound, Besides
    <3>6. Len(comments') = Len(comments) + 1
      <4>1. comments \in Seq(Comment)
        BY <2>2 DEF Good, Delivery
      <4> QED BY <1>2, <2>9, <4>1 DEF Posted
    <3> QED BY <2>1, <2>3, <2>4, <2>5, <2>7, <3>1, <3>2, <3>4, <3>5, <3>6 DEF Besides, SameDelivery
  <2>10. CASE ~CanSend(t)
    <3>1. v = t /\ comments' = comments
      BY <1>2, <2>3, <2>10 DEF Posted
    <3>2. CASE u = v
      BY <2>1, <2>4, <2>5, <2>7, <3>1, <3>2 DEF SameDelivery
    <3>3. CASE u # v
      <4>1. /\ Elapsed(t)
            /\ \/ u = [t EXCEPT !.stage = NextStage(t.stage)]
               \/ t.stage = "Inactivity Notice" /\ u = [t EXCEPT !.stage = "Access Retained"]
        BY <2>8, <3>1, <3>3
      <4>2. t.stage \in Gated /\ DeliveredAt(t) # 0
        BY <4>1 DEF Elapsed
      <4>3. PICK s \in Stage \ {NoTicket, t.stage} :
              /\ u = [t EXCEPT !.stage = s]
              /\ s = NextStage(t.stage) \/ (t.stage = "Inactivity Notice" /\ s = "Access Retained")
        <5>1. CASE u = [t EXCEPT !.stage = NextStage(t.stage)]
          BY <4>2, <5>1, NextStages
        <5>2. CASE t.stage = "Inactivity Notice" /\ u = [t EXCEPT !.stage = "Access Retained"]
          <6>1. "Access Retained" \in Stage \ {NoTicket, t.stage}
            BY <5>2 DEF Stage, Message, NoTicket
          <6> QED BY <5>2, <6>1
        <5> QED BY <4>1, <5>1, <5>2
      <4>4. /\ u \in TicketType /\ SameDelivery(t, u) /\ u.stage = s
            /\ u.lastStreamed = t.lastStreamed /\ u.confirmedAt = t.confirmedAt /\ u.pulse = t.pulse
        <5>1. s \in Stage /\ u = [t EXCEPT !.stage = s]
          BY <4>3
        <5>2. t \in TicketType
          BY <2>1
        <5> QED BY <5>1, <5>2, StagedIt
      <4>5. Good(u, comments')
        BY <1>0, <2>1, <2>4, <3>1, <4>4, GoodBeside
      <4>6. t.observed = t.stage
        BY <2>1, <4>2, Delivered
      <4>7. DeliveredAt(u) = 0
        BY <4>3, <4>4, <4>6, Delivered DEF SameDelivery
      <4>8. DeliveredAt(t) < now /\ now >= DeliveredAt(t) + WaitAt(t.stage)
        <5>1. DeliveredAt(t) \in Nat
          BY <2>1, Delivered
        <5> QED BY <1>0, <2>1, <4>1, <5>1 DEF Elapsed
      <4>9. Advanced(ticket, u)
        BY <2>1, <2>5, <4>2, <4>3, <4>4, <4>6, <4>7, <4>8 DEF Advanced, SameDelivery
      <4> QED BY <2>1, <2>7, <3>1, <4>4, <4>5, <4>9 DEF SameDelivery
    <3> QED BY <3>2, <3>3
  <2> QED BY <2>9, <2>10
<1> QED BY <1>1, <1>2 DEF RunBridge

-----------------------------------------------------------------------------
(***************************************************************************)
(* The types are kept, and with them that a delivery is posted once.       *)
(***************************************************************************)
\* A request of anybody, the rules, the retry, or a step beside the ticket.
LEMMA StepsAre ==
  ASSUME TypeInv, [Next]_vars
  PROVE  \/ \E who, u : Asked(who, u)
         \/ RunLifecycle \/ RunMessage \/ RunBridge
         \/ CatchUp \/ Tick \/ Stream \/ UNCHANGED vars
BY SyncAsks, ReplyAsks, StaffAsks, RepairAsks DEF Next, Rules

\* Nothing but the clock and what the audit will find has changed.
Aside ==
  /\ UNCHANGED <<ticket, comments, due, actor, before>>
  /\ now' = now \/ (due = {} /\ now' > now)

LEMMA AsideSteps ==
  ASSUME TypeInv, Tick \/ Stream \/ UNCHANGED vars
  PROVE  Aside /\ Clocks'
<1>0. now \in Nat /\ played \in 0..now
  BY DEF TypeInv, Clocks
<1>1. CASE Tick
  <2>1. now' = now + 1 /\ now' > now /\ now' \in Nat \ {0} /\ 0..now \subseteq 0..now'
    BY <1>0, <1>1 DEF Tick
  <2>2. UNCHANGED <<played, ticket, comments, due, actor, before, syncs, changes>> /\ due = {}
    BY <1>1 DEF Tick
  <2>3. Clocks'
    BY <1>0, <2>1, <2>2 DEF TypeInv, Clocks
  <2> QED BY <2>1, <2>2, <2>3 DEF Aside
<1>2. CASE Stream
  BY <1>0, <1>2 DEF TypeInv, Clocks, Stream, Aside
<1>3. CASE UNCHANGED vars
  BY <1>3 DEF TypeInv, Clocks, Aside, vars
<1> QED BY <1>1, <1>2, <1>3

LEMMA AsideTyped ==
  ASSUME TypeInv, Aside, Clocks'
  PROVE  TypeInv'
<1>1. now \in Nat /\ now' \in Nat /\ now' >= now
  BY DEF TypeInv, Clocks, Aside
<1>2. ASSUME NEW t, Sound(t)
      PROVE  t.lastStreamed <= now' /\ t.confirmedAt <= now' /\ t.deliveredAt <= now'
  <2>1. t.lastStreamed \in Nat /\ t.confirmedAt \in Nat /\ t.deliveredAt \in Nat
    BY <1>2 DEF Sound, TicketType
  <2>2. PICK n \in Nat : n = now'
    BY <1>1
  <2> QED BY <1>1, <1>2, <2>1, <2>2 DEF Sound
<1>3. Good(ticket, comments)'
  BY <1>2 DEF TypeInv, Aside, Good, Sound
<1>4. Good(before.ticket, before.comments)'
  BY <1>2 DEF TypeInv, Aside, Good, Sound
<1>5. Parties'
  BY DEF TypeInv, Aside, Parties
<1> QED BY <1>3, <1>4, <1>5 DEF TypeInv

LEMMA TypeKept ==
  ASSUME TypeInv, [Next]_vars
  PROVE  TypeInv'
<1>1. CASE \E who, u : Asked(who, u)
  <2>1. PICK who, u : Asked(who, u)
    BY <1>1
  <2>2. /\ Begin(who, u) /\ who \in Actor /\ Good(u, comments) /\ comments' = comments
        /\ now' = now /\ Clocks'
    BY <2>1 DEF Asked
  <2> QED BY <2>2, BeginTyped
<1>2. CASE RunLifecycle
  <2>1. PICK u : Ran("lifecycle", u) /\ Good(u, comments) /\ comments' = comments
    BY <1>2, LifecycleRuns
  <2> QED BY <2>1, RanTyped
<1>3. CASE RunMessage
  BY <1>3, MessageRuns, RanTyped, RaisedTyped
<1>4. CASE RunBridge
  BY <1>4, BridgeRuns, RanTyped, RaisedTyped
<1>5. CASE CatchUp
  <2>1. PICK u : Begin("retry", u) /\ Good(u, comments') /\ now' = now /\ Clocks'
    BY <1>5, CatchUpPosts
  <2> QED BY <2>1, BeginTyped DEF Actor
<1>6. CASE Tick \/ Stream \/ UNCHANGED vars
  BY <1>6, AsideSteps, AsideTyped
<1> QED BY <1>1, <1>2, <1>3, <1>4, <1>5, <1>6, StepsAre

LEMMA TypeInit == Init => TypeInv
<1> SUFFICES ASSUME Init PROVE TypeInv
  OBVIOUS
<1>1. now = 1 /\ played \in {0, 1} /\ comments = <<>> /\ due = {} /\ actor = "nobody"
      /\ before = Nothing /\ syncs = 0 /\ changes = 0
  BY DEF Init
<1>2. Clocks /\ Parties
  BY <1>1 DEF Clocks, Parties, Nothing, Actor
<1>3. now \in Nat
  BY <1>1
<1>4. Good(before.ticket, before.comments)
  BY <1>1, <1>3, GoodNothing
<1>5. Good(ticket, comments)
  <2>1. CASE ticket = Untouched(NoTicket, "Active", "none", "New")
    <3>1. ticket = Nothing.ticket /\ comments = Nothing.comments
      BY <1>1, <2>1 DEF Nothing
    <3> QED BY <1>3, <3>1, GoodNothing
  <2>2. CASE \E stage \in History, has \in BOOLEAN :
               ticket = [Untouched(stage, IF played = 0 THEN "Never Used" ELSE "Active",
                                   "Pending", "New") EXCEPT !.reporter = has]
    <3>1. PICK stage \in History, has \in BOOLEAN :
            ticket = [Untouched(stage, IF played = 0 THEN "Never Used" ELSE "Active",
                                "Pending", "New") EXCEPT !.reporter = has]
      BY <2>2
    <3>2. stage \in Stage
      BY ReviewAssumption
    <3>3. PICK status \in Status : status = IF played = 0 THEN "Never Used" ELSE "Active"
      BY DEF Status
    <3>4. PICK outcome \in Outcome, state \in State : outcome = "Pending" /\ state = "New"
      BY DEF Outcome, State
    <3>5. ticket = [Untouched(stage, status, outcome, state) EXCEPT !.reporter = has]
      BY <3>1, <3>3, <3>4
    <3>6. Good([Untouched(stage, status, outcome, state) EXCEPT !.reporter = has], <<>>)
      BY <1>3, <3>2, GoodUntouched
    <3> QED BY <1>1, <3>5, <3>6
  <2> QED BY <2>1, <2>2 DEF Init
<1> QED BY <1>2, <1>4, <1>5 DEF TypeInv

LEMMA TypeAlways == Spec => []TypeInv
BY TypeInit, TypeKept, PTL DEF Spec

\* Whatever the waiting periods and whoever asks in whatever order: every variable has
\* its type, what was posted and confirmed lies in the past, and no delivery the ticket
\* knows of is one it has not counted.
THEOREM TypeCorrect == Spec => []TypeOK
<1>1. TypeInv => TypeOK
  BY DEF TypeInv, Clocks, Parties, Good, Sound, TypeOK
<1> QED BY <1>1, TypeAlways, PTL

\* A delivery is posted once, although the stage rule, the bridge and the retry may each
\* find it pending and an exception may take back any of them.
THEOREM OnceCorrect == Spec => []OncePerDelivery
<1>1. TypeInv => OncePerDelivery
  BY DEF TypeInv, Good, Delivery, OncePerDelivery
<1> QED BY <1>1, TypeAlways, PTL

-----------------------------------------------------------------------------
(***************************************************************************)
(* What a transaction has done so far, against what it began with.         *)
(***************************************************************************)
\* A message was prepared for another stage as long as the stage rule has to look.
Prepared(t, d) ==
  /\ "message" \in d => t.observed # t.stage
  /\ "message" \notin d => t.observed \in {t.stage, NoTicket}

\* Who may take the review from the stage of t to another one, and when.
Permitted(t, stage) ==
  \/ actor = "staff"
  \/ actor = "reporter" /\ t.stage \in Review /\ stage = "Access Retained"
  \/ actor = "repair" /\ t.stage = NoStage /\ stage = "Access Retained"
  \/ /\ actor = "audit"
     /\ \/ Decided(t.stage, stage)
        \/ /\ t.stage \in Gated /\ stage = NextStage(t.stage)
           /\ DeliveredAt(t) # 0 /\ now >= DeliveredAt(t) + WaitAt(t.stage)

\* At its stage still, with a message posted at most now; or at another that its
\* actor may take it to, whose message was posted now or not yet.
Moved(t, d) ==
  IF t.stage = before.ticket.stage
  THEN /\ "message" \notin d /\ actor \in {"audit", "staff"}
       /\ \/ DeliveredAt(t) = DeliveredAt(before.ticket)
          \/ DeliveredAt(before.ticket) = 0 /\ DeliveredAt(t) = now
  ELSE /\ DeliveredAt(t) \in {0, now}
       /\ actor = "repair" => DeliveredAt(t) = 0
       /\ Permitted(before.ticket, t.stage)

\* What the repair sets off finds nothing to post.
Mute(t, d) ==
  actor = "repair" => "bridge" \notin d /\ ("message" \in d => Suppressed(t))

\* The audit's request has posted nothing, or the message that counts as posted now.
Single(t, c, d) ==
  actor = "audit" =>
    /\ \/ Len(c) = Len(before.comments)
       \/ Len(c) = Len(before.comments) + 1 /\ "message" \notin d /\ DeliveredAt(t) = now
    /\ before.ticket.stage = NoTicket => t.stage = "Active" /\ Len(c) = Len(before.comments)

Course(t, c, d) == Prepared(t, d) /\ Moved(t, d) /\ Mute(t, d) /\ Single(t, c, d)

CourseInv ==
  /\ TypeInv
  /\ Prepared(ticket, due)
  /\ before.ticket.observed \in {before.ticket.stage, NoTicket}
  /\ due # {} => Course(ticket, comments, due)

\* What a request of anybody begins.
LEMMA AskedCourse ==
  ASSUME CourseInv, NEW who, NEW u, Asked(who, u)
  PROVE  CourseInv'
<1>1. /\ Begin(who, u) /\ who \in Actor /\ Good(u, comments) /\ comments' = comments
      /\ now' = now /\ Clocks' /\ SameDelivery(ticket, u) /\ Requested(who, ticket, u)
  BY DEF Asked
<1>2. TypeInv /\ TypeInv'
  BY <1>1, BeginTyped DEF CourseInv
<1>3. /\ due = {} /\ ticket' = u /\ due' = Triggered(ticket, u) /\ actor' = who
      /\ due' = {} => before' = Nothing
      /\ due' # {} => before'.ticket = ticket /\ before'.comments = comments
  BY <1>1, Begun
<1>4. /\ ticket \in TicketType /\ u \in TicketType /\ now \in Nat \ {0}
      /\ ticket.observed \in {ticket.stage, NoTicket} /\ u.observed = ticket.observed
  BY <1>1, <1>2, <1>3 DEF CourseInv, Prepared, TypeInv, Clocks, Good, Sound, SameDelivery
<1>5. /\ "message" \in Triggered(ticket, u) <=> u.stage # ticket.stage
      /\ "bridge" \in Triggered(ticket, u) => u.pulse # ticket.pulse
      /\ u.stage = ticket.stage /\ u.pulse = ticket.pulse => Triggered(ticket, u) = {}
  BY DEF Triggered
<1>6. u.stage # ticket.stage => u.stage # NoTicket
  BY <1>1 DEF Requested, Decided, NoTicket
<1>7. Prepared(u, Triggered(ticket, u))
  BY <1>4, <1>5, <1>6 DEF Prepared
<1>8. Prepared(ticket, due)'
  BY <1>3, <1>7 DEF Prepared
<1>9. (before.ticket.observed \in {before.ticket.stage, NoTicket})'
  BY <1>3, <1>4 DEF Nothing, Untouched
<1>10. ASSUME due' # {} PROVE Course(ticket, comments, due)'
  <2>1. before'.ticket = ticket /\ before'.comments = comments
    BY <1>3, <1>10
  <2>2. DeliveredAt(u) = IF u.stage = ticket.stage THEN DeliveredAt(ticket) ELSE 0
    BY <1>1, <1>4, <1>6, Delivered DEF SameDelivery
  <2>3. CASE u.stage = ticket.stage
    <3>1. who \in {"audit", "staff"}
      BY <1>1, <1>3, <1>5, <1>10, <2>3 DEF Requested, Review, NoStage
    <3>2. DeliveredAt(ticket)' = DeliveredAt(ticket) /\ DeliveredAt(before.ticket)' = DeliveredAt(ticket)
      BY <1>3, <2>1, <2>2, <2>3 DEF DeliveredAt, CurrentToken
    <3>3. Moved(ticket, due)'
      BY <1>3, <1>5, <2>1, <2>3, <3>1, <3>2 DEF Moved
    <3>4. Mute(ticket, due)'
      BY <1>3, <3>1 DEF Mute
    <3>5. Single(ticket, comments, due)'
      BY <1>1, <1>3, <2>1, <2>3 DEF Single, Requested
    <3> QED BY <1>8, <3>3, <3>4, <3>5 DEF Course
  <2>4. CASE u.stage # ticket.stage
    <3>1. DeliveredAt(ticket)' = 0
      BY <1>3, <2>2, <2>4 DEF DeliveredAt, CurrentToken
    <3>2. Permitted(before.ticket, ticket.stage)'
      BY <1>1, <1>3, <2>1, <2>4 DEF Requested, Permitted
    <3>3. Moved(ticket, due)'
      BY <1>3, <2>1, <2>4, <3>1, <3>2 DEF Moved
    <3>4. Mute(ticket, due)'
      BY <1>1, <1>3, <1>5, <2>4 DEF Mute, Requested, Suppressed, NoStage
    <3>5. Single(ticket, comments, due)'
      BY <1>1, <1>3, <2>1 DEF Single, Requested
    <3> QED BY <1>8, <3>3, <3>4, <3>5 DEF Course
  <2> QED BY <2>3, <2>4
<1> QED BY <1>2, <1>8, <1>9, <1>10 DEF CourseInv

\* The stage rule settles Outcome and State and leaves the course as it is.
LEMMA LifecycleCourse ==
  ASSUME CourseInv, NEW u, Ran("lifecycle", u), u \in TicketType, Kept(ticket, u),
         comments' = comments
  PROVE  Course(u, comments', due')
<1>1. "lifecycle" \in due /\ due' = (due \ {"lifecycle"}) \cup Triggered(ticket, u)
  BY WentOn
<1>2. Triggered(ticket, u) = {}
  BY DEF Triggered, Kept
<1>3. PICK d : d = due' /\ ("message" \in d <=> "message" \in due) /\ ("bridge" \in d <=> "bridge" \in due)
  BY <1>1, <1>2
<1>4. ticket \in TicketType /\ Course(ticket, comments, due)
  BY <1>1 DEF CourseInv, TypeInv, Good, Sound
<1>5. DeliveredAt(u) = DeliveredAt(ticket)
  BY <1>4, Delivered DEF Kept, SameDelivery
<1>6. u.stage = ticket.stage /\ u.observed = ticket.observed /\ u.suppressed = ticket.suppressed
  BY DEF Kept, SameDelivery
<1>7. Prepared(u, d)
  BY <1>3, <1>4, <1>6 DEF Course, Prepared
<1>8. Moved(u, d)
  BY <1>3, <1>4, <1>5, <1>6 DEF Course, Moved
<1>9. Mute(u, d)
  BY <1>3, <1>4, <1>6 DEF Course, Mute, Suppressed
<1>10. Single(u, comments, d)
  BY <1>3, <1>4, <1>5, <1>6 DEF Course, Single
<1> QED BY <1>3, <1>7, <1>8, <1>9, <1>10 DEF Course

\* The message rule runs at a stage the transaction came to, and only once.
LEMMA MessageCourse ==
  ASSUME CourseInv, NEW u, Ran("message", u), u \in TicketType, now' = now,
         u.stage = ticket.stage, u.observed = ticket.stage, u.pulse = ticket.pulse,
         \/ comments' = comments /\ DeliveredAt(u) = 0
         \/ /\ ~Suppressed(ticket) /\ u.stage \in Message
            /\ Len(comments') = Len(comments) + 1 /\ DeliveredAt(u) = now
  PROVE  Course(u, comments', due') /\ (actor = "repair" => comments' = comments)
<1>1. "message" \in due /\ due' = (due \ {"message"}) \cup Triggered(ticket, u)
  BY WentOn
<1>2. Triggered(ticket, u) = {}
  BY DEF Triggered
<1>3. PICK d : d = due' /\ "message" \notin d /\ ("bridge" \in d <=> "bridge" \in due)
  BY <1>1, <1>2
<1>4. PICK c : c = comments'
  OBVIOUS
<1>5. Course(ticket, comments, due)
  BY <1>1 DEF CourseInv
<1>6. /\ ticket.stage # before.ticket.stage /\ Permitted(before.ticket, ticket.stage)
      /\ actor = "repair" => Suppressed(ticket)
  BY <1>1, <1>5 DEF Course, Moved, Mute
<1>7. Prepared(u, d)
  BY <1>3 DEF Prepared
<1>8. Moved(u, d)
  BY <1>6 DEF Moved
<1>9. Mute(u, d)
  BY <1>3, <1>5 DEF Course, Mute
<1>10. Single(u, c, d)
  <2>1. SUFFICES ASSUME actor = "audit"
                 PROVE  /\ \/ Len(c) = Len(before.comments)
                           \/ Len(c) = Len(before.comments) + 1 /\ "message" \notin d /\ DeliveredAt(u) = now
                        /\ before.ticket.stage = NoTicket => u.stage = "Active" /\ Len(c) = Len(before.comments)
    BY DEF Single
  <2>2. Len(comments) = Len(before.comments)
    BY <1>1, <1>5, <2>1 DEF Course, Single
  <2>3. before.ticket.stage = NoTicket => ticket.stage = "Active"
    BY <1>5, <2>1 DEF Course, Single
  <2>4. "Active" \notin Message
    BY DEF Message, Gated
  <2> QED BY <1>3, <1>4, <2>2, <2>3, <2>4
<1> QED BY <1>3, <1>4, <1>6, <1>7, <1>8, <1>9, <1>10 DEF Course

\* The bridge waits for what the transaction itself posted, so it advances a review only
\* from the stage and the message that the transaction found.
LEMMA BridgeCourse ==
  ASSUME CourseInv, NEW u, Ran("bridge", u), u \in TicketType, now' = now,
         u.observed = ticket.observed, u.pulse = 0,
         \/ /\ u.stage = ticket.stage /\ comments' = comments
            /\ DeliveredAt(u) = DeliveredAt(ticket)
         \/ /\ u.stage = ticket.stage /\ u.observed = ticket.stage /\ u.stage \in Message
            /\ DeliveredAt(ticket) = 0 /\ DeliveredAt(u) = now
            /\ Len(comments') = Len(comments) + 1
         \/ Advanced(ticket, u) /\ comments' = comments
  PROVE  Course(u, comments', due') /\ actor # "repair"
<1>1. "bridge" \in due /\ due' = (due \ {"bridge"}) \cup Triggered(ticket, u)
  BY WentOn
<1>2. Triggered(ticket, u) = IF u.stage # ticket.stage THEN {"lifecycle", "message"} ELSE {}
  BY DEF Triggered
<1>3. PICK d : /\ d = due'
               /\ "message" \in d <=> u.stage # ticket.stage \/ "message" \in due
  BY <1>1, <1>2
<1>4. PICK c : c = comments'
  OBVIOUS
<1>5. Course(ticket, comments, due)
  BY <1>1 DEF CourseInv
<1>6. now \in Nat \ {0} /\ ticket \in TicketType /\ before.ticket \in TicketType
  BY DEF CourseInv, TypeInv, Clocks, Good, Sound
<1>7. actor # "repair"
  BY <1>1, <1>5 DEF Course, Mute
<1>8. Mute(u, d)
  BY <1>7 DEF Mute
<1>9. CASE u.stage = ticket.stage /\ comments' = comments /\ DeliveredAt(u) = DeliveredAt(ticket)
  <2>1. Prepared(u, d)
    BY <1>3, <1>5, <1>9 DEF Course, Prepared
  <2>2. Moved(u, d)
    BY <1>3, <1>5, <1>9 DEF Course, Moved
  <2>3. Single(u, c, d)
    BY <1>3, <1>4, <1>5, <1>9 DEF Course, Single
  <2> QED BY <1>3, <1>4, <1>7, <1>8, <2>1, <2>2, <2>3 DEF Course
<1>10. CASE /\ u.stage = ticket.stage /\ u.observed = ticket.stage /\ u.stage \in Message
            /\ DeliveredAt(ticket) = 0 /\ DeliveredAt(u) = now /\ Len(comments') = Len(comments) + 1
  <2>0. "message" \notin d
    BY <1>3, <1>5, <1>10 DEF Course, Prepared
  <2>1. Prepared(u, d)
    BY <1>10, <2>0 DEF Prepared
  <2>2. Moved(u, d)
    <3>1. DeliveredAt(before.ticket) \in Nat
      BY <1>6, Delivered
    <3> QED BY <1>5, <1>6, <1>7, <1>10, <2>0, <3>1 DEF Course, Moved
  <2>3. Single(u, c, d)
    <3>1. "Active" \notin Message
      BY DEF Message, Gated
    <3> QED BY <1>4, <1>5, <1>6, <1>10, <2>0, <3>1 DEF Course, Single
  <2> QED BY <1>3, <1>4, <1>7, <1>8, <2>1, <2>2, <2>3 DEF Course
<1>11. CASE Advanced(ticket, u) /\ comments' = comments
  <2>1. /\ ticket.observed = ticket.stage /\ ticket.stage \in Gated /\ u.stage # ticket.stage
        /\ \/ u.stage = NextStage(ticket.stage)
           \/ ticket.stage = "Inactivity Notice" /\ u.stage = "Access Retained"
        /\ DeliveredAt(ticket) # 0 /\ DeliveredAt(ticket) < now
        /\ now >= DeliveredAt(ticket) + WaitAt(ticket.stage)
        /\ DeliveredAt(u) = 0
    BY <1>11 DEF Advanced
  <2>2. DeliveredAt(ticket) # now
    <3>1. PICK n \in Nat : n = DeliveredAt(ticket)
      BY <1>6, Delivered
    <3>2. n < now
      BY <2>1, <3>1
    <3> QED BY <1>6, <3>1, <3>2
  <2>3. /\ ticket.stage = before.ticket.stage /\ actor \in {"audit", "staff"}
        /\ DeliveredAt(ticket) = DeliveredAt(before.ticket)
    BY <1>5, <2>1, <2>2 DEF Course, Moved
  <2>4. Permitted(before.ticket, u.stage)
    <3>1. CASE actor = "staff"
      BY <3>1 DEF Permitted
    <3>2. CASE actor = "audit" /\ u.stage = NextStage(ticket.stage)
      BY <2>1, <2>3, <3>2 DEF Permitted
    <3>3. CASE actor = "audit" /\ ticket.stage = "Inactivity Notice" /\ u.stage = "Access Retained"
      BY <2>3, <3>3 DEF Permitted, Decided, Review
    <3> QED BY <2>1, <2>3, <3>1, <3>2, <3>3
  <2>5. Moved(u, d)
    BY <2>1, <2>3, <2>4 DEF Moved
  <2>6. Prepared(u, d)
    BY <1>3, <2>1 DEF Prepared
  <2>7. Single(u, c, d)
    <3>1. before.ticket.stage # NoTicket
      BY <2>1, <2>3 DEF Gated, NoTicket
    <3>2. actor = "audit" => Len(c) = Len(before.comments)
      BY <1>4, <1>5, <1>11, <2>2 DEF Course, Single
    <3> QED BY <3>1, <3>2 DEF Single
  <2> QED BY <1>3, <1>4, <1>7, <1>8, <2>5, <2>6, <2>7 DEF Course
<1> QED BY <1>9, <1>10, <1>11

\* A rule goes on with the transaction or takes all of it back.
LEMMA RulesRun ==
  ASSUME CourseInv, RunLifecycle \/ RunMessage \/ RunBridge
  PROVE  /\ due # {}
         /\ \/ /\ \E rule : Raised(rule)
               /\ actor # "repair"
            \/ /\ \E rule : Ran(rule, ticket')
               /\ Course(ticket', comments', due')
               /\ actor = "repair" => comments' = comments
<1>0. TypeInv
  BY DEF CourseInv
<1>1. CASE RunLifecycle
  <2>1. PICK u : /\ Ran("lifecycle", u) /\ comments' = comments
                 /\ u \in TicketType /\ Kept(ticket, u)
    BY <1>0, <1>1, LifecycleRuns
  <2>2. u = ticket' /\ "lifecycle" \in due
    BY <2>1, WentOn
  <2>3. Course(u, comments', due')
    BY <2>1, LifecycleCourse
  <2> QED BY <2>1, <2>2, <2>3
<1>2. CASE RunMessage
  <2>1. CASE Raised("message") /\ ~Suppressed(ticket)
    <3>1. "message" \in due
      BY <2>1 DEF Raised
    <3> QED BY <2>1, <3>1 DEF CourseInv, Course, Mute
  <2>2. ASSUME NEW u, Ran("message", u), u \in TicketType,
               u.stage = ticket.stage, u.observed = ticket.stage, u.pulse = ticket.pulse,
               \/ comments' = comments /\ DeliveredAt(u) = 0
               \/ /\ ~Suppressed(ticket) /\ u.stage \in Message
                  /\ Len(comments') = Len(comments) + 1 /\ DeliveredAt(u) = now
        PROVE  /\ "message" \in due /\ Ran("message", ticket')
               /\ Course(ticket', comments', due')
               /\ actor = "repair" => comments' = comments
    <3>1. u = ticket' /\ "message" \in due /\ now' = now
      BY <2>2, WentOn
    <3>2. Course(u, comments', due') /\ (actor = "repair" => comments' = comments)
      BY <2>2, <3>1, MessageCourse
    <3> QED BY <2>2, <3>1, <3>2
  <2> QED BY <1>0, <1>2, <2>1, <2>2, MessageRuns
<1>3. CASE RunBridge
  <2>1. CASE Raised("bridge")
    <3>1. "bridge" \in due
      BY <2>1 DEF Raised
    <3> QED BY <2>1, <3>1 DEF CourseInv, Course, Mute
  <2>2. ASSUME NEW u, Ran("bridge", u), u \in TicketType,
               u.observed = ticket.observed, u.pulse = 0,
               \/ /\ u.stage = ticket.stage /\ comments' = comments
                  /\ DeliveredAt(u) = DeliveredAt(ticket)
               \/ /\ u.stage = ticket.stage /\ u.observed = ticket.stage /\ u.stage \in Message
                  /\ DeliveredAt(ticket) = 0 /\ DeliveredAt(u) = now
                  /\ Len(comments') = Len(comments) + 1
               \/ Advanced(ticket, u) /\ comments' = comments
        PROVE  /\ "bridge" \in due /\ Ran("bridge", ticket')
               /\ Course(ticket', comments', due') /\ actor # "repair"
    <3>1. u = ticket' /\ "bridge" \in due /\ now' = now
      BY <2>2, WentOn
    <3>2. Course(u, comments', due') /\ actor # "repair"
      BY <2>2, <3>1, BridgeCourse
    <3> QED BY <2>2, <3>1, <3>2
  <2> QED BY <1>0, <1>3, <2>1, <2>2, BridgeRuns
<1> QED BY <1>1, <1>2, <1>3

\* What a course says once a rule has gone on, in the next state's own terms.
LEMMA CourseGoesOn ==
  ASSUME Course(ticket', comments', due'), before' = before, actor' = actor, now' = now
  PROVE  Course(ticket, comments, due)'
<1>1. Prepared(ticket, due)'
  BY DEF Course, Prepared
<1>2. /\ DeliveredAt(ticket)' = DeliveredAt(ticket')
      /\ DeliveredAt(before.ticket)' = DeliveredAt(before.ticket)
  BY DEF DeliveredAt, CurrentToken
<1>3. Permitted(before.ticket, ticket'.stage) => Permitted(before.ticket, ticket.stage)'
  BY <1>2 DEF Permitted
<1>4. Moved(ticket, due)'
  BY <1>2, <1>3 DEF Course, Moved
<1>5. Mute(ticket, due)'
  BY DEF Course, Mute, Suppressed
<1>6. Single(ticket, comments, due)'
  BY <1>2 DEF Course, Single
<1> QED BY <1>1, <1>4, <1>5, <1>6 DEF Course

LEMMA CourseKept ==
  ASSUME CourseInv, [Next]_vars
  PROVE  CourseInv'
<1>0. TypeInv /\ TypeInv'
  BY TypeKept DEF CourseInv
<1>1. CASE \E who, u : Asked(who, u)
  BY <1>1, AskedCourse
<1>2. CASE RunLifecycle \/ RunMessage \/ RunBridge
  <2>1. CASE \E rule : Raised(rule)
    <3>1. due' = {} /\ before' = Nothing /\ ticket' = before.ticket
      BY <2>1 DEF Raised
    <3>2. Prepared(ticket, due)'
      BY <3>1 DEF CourseInv, Prepared
    <3>3. (before.ticket.observed \in {before.ticket.stage, NoTicket})'
      BY <3>1 DEF Nothing, Untouched
    <3> QED BY <1>0, <3>1, <3>2, <3>3 DEF CourseInv
  <2>2. CASE (\E rule : Ran(rule, ticket')) /\ Course(ticket', comments', due')
    <3>1. /\ due' = {} => before' = Nothing
          /\ due' # {} => before' = before
          /\ now' = now /\ actor' = actor
      BY <2>2, WentOn
    <3>2. Prepared(ticket, due)'
      BY <2>2 DEF Course, Prepared
    <3>3. (before.ticket.observed \in {before.ticket.stage, NoTicket})'
      BY <3>1 DEF CourseInv, Nothing, Untouched
    <3>4. due' # {} => Course(ticket, comments, due)'
      BY <2>2, <3>1, CourseGoesOn
    <3> QED BY <1>0, <3>2, <3>3, <3>4 DEF CourseInv
  <2> QED BY <1>2, <2>1, <2>2, RulesRun
<1>3. CASE CatchUp
  <2>1. PICK u : /\ Begin("retry", u) /\ u.stage = ticket.stage /\ u.observed = ticket.observed
                 /\ Triggered(ticket, u) = {}
    BY <1>0, <1>3, CatchUpPosts
  <2>2. due = {} /\ due' = {} /\ before' = Nothing /\ ticket' = u
    BY <2>1, Begun
  <2>3. Prepared(ticket, due)'
    BY <2>1, <2>2 DEF CourseInv, Prepared
  <2>4. (before.ticket.observed \in {before.ticket.stage, NoTicket})'
    BY <2>2 DEF Nothing, Untouched
  <2> QED BY <1>0, <2>2, <2>3, <2>4 DEF CourseInv
<1>4. CASE Tick \/ Stream \/ UNCHANGED vars
  <2>1. Aside
    BY <1>0, <1>4, AsideSteps
  <2>2. Prepared(ticket, due)'
    BY <2>1 DEF CourseInv, Aside, Prepared
  <2>3. (before.ticket.observed \in {before.ticket.stage, NoTicket})'
    BY <2>1 DEF CourseInv, Aside
  <2>4. due' # {} => Course(ticket, comments, due)'
    <3>1. ASSUME due' # {} PROVE Course(ticket, comments, due)'
      <4>1. /\ ticket' = ticket /\ comments' = comments /\ due' = due /\ before' = before
            /\ actor' = actor /\ now' = now
        BY <2>1, <3>1 DEF Aside
      <4>2. Course(ticket', comments', due')
        BY <3>1, <4>1 DEF CourseInv
      <4> QED BY <4>1, <4>2, CourseGoesOn
    <3> QED BY <3>1
  <2> QED BY <1>0, <2>2, <2>3, <2>4 DEF CourseInv
<1> QED BY <1>0, <1>1, <1>2, <1>3, <1>4, StepsAre

LEMMA CourseAlways == Spec => []CourseInv
<1>1. Init => CourseInv
  <2> SUFFICES ASSUME Init PROVE CourseInv
    OBVIOUS
  <2>1. due = {} /\ before = Nothing
    BY DEF Init
  <2>2. ticket.observed = NoTicket
    <3>1. CASE ticket = Untouched(NoTicket, "Active", "none", "New")
      BY <3>1 DEF Untouched
    <3>2. CASE \E stage \in History, has \in BOOLEAN :
                 ticket = [Untouched(stage, IF played = 0 THEN "Never Used" ELSE "Active",
                                     "Pending", "New") EXCEPT !.reporter = has]
      BY <3>2 DEF Untouched
    <3> QED BY <3>1, <3>2 DEF Init
  <2> QED BY <2>1, <2>2, TypeInit DEF CourseInv, Prepared, Nothing, Untouched
<1> QED BY <1>1, CourseKept, PTL DEF Spec

-----------------------------------------------------------------------------
(***************************************************************************)
(* What follows: silence, one message per request, and the promises.       *)
(***************************************************************************)
LEMMA RepairStep ==
  ASSUME CourseInv, [Next]_vars, (actor' = "repair" /\ due' # {}) \/ (actor = "repair" /\ due # {})
  PROVE  comments' = comments
<1>0. TypeInv
  BY DEF CourseInv
<1>1. CASE \E who, u : Asked(who, u)
  BY <1>1 DEF Asked
<1>2. CASE RunLifecycle \/ RunMessage \/ RunBridge
  <2>1. CASE (\E rule : Raised(rule)) /\ actor # "repair"
    <3>1. due' = {}
      BY <2>1 DEF Raised
    <3> QED BY <2>1, <3>1
  <2>2. CASE (\E rule : Ran(rule, ticket')) /\ (actor = "repair" => comments' = comments)
    BY <2>2, WentOn
  <2> QED BY <1>2, <2>1, <2>2, RulesRun
<1>3. CASE CatchUp
  <2>1. due = {} /\ actor' = "retry"
    BY <1>3 DEF CatchUp, Begin
  <2> QED BY <2>1
<1>4. CASE Tick \/ Stream \/ UNCHANGED vars
  BY <1>4 DEF Tick, Stream, vars
<1> QED BY <1>0, <1>1, <1>2, <1>3, <1>4, StepsAre

\* The hourly repair, the rules it sets off and an exception in any of them post no
\* message, whatever the ticket was like and whatever was pending on it.
THEOREM SilentCorrect == Spec => RepairIsSilent
<1>1. CourseInv /\ [Next]_vars
        => [(actor' = "repair" /\ due' # {}) \/ (actor = "repair" /\ due # {})
              => comments' = comments]_vars
  BY RepairStep
<1> QED BY <1>1, CourseAlways, PTL DEF Spec, RepairIsSilent

LEMMA RequestStep ==
  ASSUME CourseInv, [Next]_vars, due # {}, actor = "audit"
  PROVE  Len(comments') + (IF before.ticket.stage = NoTicket THEN 1 ELSE 0)
           <= Len(before.comments) + 1
<1>0. TypeInv
  BY DEF CourseInv
<1>s. comments \in Seq(Comment) /\ before.comments \in Seq(Comment)
  BY <1>0 DEF TypeInv, Good, Delivery
<1>n. Len(before.comments) \in Nat
  BY <1>s
<1>c. ASSUME NEW c, NEW t, NEW d, Single(t, c, d)
      PROVE  Len(c) + (IF before.ticket.stage = NoTicket THEN 1 ELSE 0) <= Len(before.comments) + 1
  <2>1. /\ Len(c) = Len(before.comments) \/ Len(c) = Len(before.comments) + 1
        /\ before.ticket.stage = NoTicket => Len(c) = Len(before.comments)
    BY <1>c DEF Single
  <2> QED BY <1>n, <2>1
<1>1. CASE \E who, u : Asked(who, u)
  BY <1>1 DEF Asked, Begin
<1>2. CASE RunLifecycle \/ RunMessage \/ RunBridge
  <2>1. CASE \E rule : Raised(rule)
    <3>1. comments' = before.comments
      BY <2>1 DEF Raised
    <3> QED BY <1>n, <3>1
  <2>2. CASE Course(ticket', comments', due')
    <3>1. Single(ticket', comments', due')
      BY <2>2 DEF Course
    <3> QED BY <1>c, <3>1
  <2> QED BY <1>2, <2>1, <2>2, RulesRun
<1>3. CASE CatchUp
  BY <1>3 DEF CatchUp, Begin
<1>4. CASE Tick \/ Stream \/ UNCHANGED vars
  <2>1. comments' = comments
    BY <1>4 DEF Tick, Stream, vars
  <2>2. Single(ticket, comments, due)
    BY DEF CourseInv, Course
  <2> QED BY <1>c, <2>1, <2>2
<1> QED BY <1>0, <1>1, <1>2, <1>3, <1>4, StepsAre

\* One permitted request lets out one message, whichever order its rules run in: the
\* confirmation that escalates a review waits for the message it sent itself.
THEOREM SingleCorrect == Spec => OneMessagePerRequest
<1>1. CourseInv /\ [Next]_vars
        => [due # {} /\ actor = "audit" =>
              Len(comments') + (IF before.ticket.stage = NoTicket THEN 1 ELSE 0)
                <= Len(before.comments) + 1]_vars
  BY RequestStep
<1> QED BY <1>1, CourseAlways, PTL DEF Spec, OneMessagePerRequest

\* The end of a transaction is a step the promises allow.
LEMMA EndPromised ==
  ASSUME CourseInv, due # {}, due' = {}, now' = now, actor' = actor,
         Course(ticket', comments', due')
  PROVE  [Promises!Next]_Promises!vars
<1> USE DEF Promises!vars
<1>0. /\ Seen = before.ticket /\ Seen' = ticket'
      /\ (IF due = {} THEN actor ELSE before.actor) = before.actor
      /\ (IF due = {} THEN actor ELSE before.actor)' = actor
  BY DEF Seen
<1>1. PICK u : u = ticket'
  OBVIOUS
<1>2. Moved(u, {})
  BY <1>1 DEF Course
<1>3. Seen' = u /\ DeliveredAt(Seen)' = DeliveredAt(u)
  BY <1>0, <1>1 DEF DeliveredAt, CurrentToken
<1> DEFINE b == before.ticket
<1>4. CASE u.stage = b.stage /\ DeliveredAt(u) = DeliveredAt(b)
  BY <1>0, <1>3, <1>4 DEF Promises!Next, Promises!Note
<1>5. CASE /\ u.stage = b.stage /\ actor \in {"audit", "staff"}
           /\ DeliveredAt(b) = 0 /\ DeliveredAt(u) = now
  <2>1. Promises!Tell
    BY <1>0, <1>3, <1>5 DEF Promises!Tell
  <2> QED BY <2>1 DEF Promises!Next
<1>6. CASE /\ u.stage # b.stage /\ DeliveredAt(u) \in {0, now}
           /\ actor = "repair" => DeliveredAt(u) = 0
           /\ Permitted(b, u.stage)
  <2>1. Promises!Enter(actor)
    BY <1>0, <1>3, <1>6 DEF Promises!Enter
  <2>2. CASE actor = "staff"
    BY <2>1, <2>2 DEF Promises!Next, Promises!Manage
  <2>3. CASE actor = "reporter" /\ b.stage \in Review /\ u.stage = "Access Retained"
    BY <1>0, <1>3, <2>1, <2>3 DEF Promises!Next, Promises!Retain
  <2>4. CASE actor = "repair" /\ b.stage = NoStage /\ u.stage = "Access Retained"
    BY <1>0, <1>3, <1>6, <2>1, <2>4 DEF Promises!Next, Promises!Adopt, NoStage
  <2>5. CASE actor = "audit" /\ Decided(b.stage, u.stage)
    <3>1. CASE b.stage = NoTicket /\ u.stage = "Active"
      BY <1>0, <1>3, <2>1, <2>5, <3>1 DEF Promises!Next, Promises!Create, NoTicket
    <3>2. CASE b.stage \notin Review \cup Closed /\ u.stage = "Inactivity Notice"
      BY <1>0, <1>3, <2>1, <2>5, <3>2 DEF Promises!Next, Promises!Open, Closed
    <3>3. CASE b.stage \in Review \cup {"Active"} /\ u.stage = "Access Retained"
      BY <1>0, <1>3, <2>1, <2>5, <3>3 DEF Promises!Next, Promises!Retain
    <3> QED BY <2>5, <3>1, <3>2, <3>3 DEF Decided
  <2>6. CASE /\ actor = "audit" /\ b.stage \in Gated /\ u.stage = NextStage(b.stage)
             /\ DeliveredAt(b) # 0 /\ now >= DeliveredAt(b) + WaitAt(b.stage)
    <3>1. Promises!Escalate
      BY <1>0, <1>3, <2>1, <2>6 DEF Promises!Escalate, NextStage, WaitAt
    <3> QED BY <3>1 DEF Promises!Next
  <2> QED BY <1>6, <2>2, <2>3, <2>4, <2>5, <2>6 DEF Permitted
<1> QED BY <1>2, <1>4, <1>5, <1>6 DEF Moved

LEMMA StepPromised ==
  ASSUME CourseInv, [Next]_vars
  PROVE  [Promises!Next]_Promises!vars
<1>0. TypeInv
  BY DEF CourseInv
<1> DEFINE by == IF due = {} THEN actor ELSE before.actor
<1>s. ASSUME Seen' = Seen, by' = by, now' = now
      PROVE  [Promises!Next]_Promises!vars
  BY <1>s DEF Promises!vars, DeliveredAt, CurrentToken
<1>1. CASE \E who, u : Asked(who, u)
  <2>1. PICK who, u : /\ Begin(who, u) /\ now' = now
                      /\ SameDelivery(ticket, u) /\ Good(u, comments)
    BY <1>1 DEF Asked
  <2>2. /\ due = {} /\ ticket' = u /\ actor' = who /\ due' = Triggered(ticket, u)
        /\ due' # {} => before'.ticket = ticket /\ before'.actor = actor
    BY <2>1, Begun
  <2>3. CASE due' # {}
    BY <1>s, <2>1, <2>2, <2>3 DEF Seen
  <2>4. CASE due' = {}
    <3>1. u.stage = ticket.stage
      BY <2>2, <2>4 DEF Triggered
    <3>2. Seen = ticket /\ Seen' = u /\ by = actor /\ by' = who
      BY <2>2, <2>4 DEF Seen
    <3>3. DeliveredAt(Seen)' = DeliveredAt(Seen)
      BY <2>1, <3>1, <3>2 DEF DeliveredAt, CurrentToken, SameDelivery
    <3> QED BY <2>1, <3>1, <3>2, <3>3 DEF Promises!Next, Promises!Note, Promises!vars
  <2> QED BY <2>3, <2>4
<1>2. CASE RunLifecycle \/ RunMessage \/ RunBridge
  <2>0. due # {}
    BY <1>2, RulesRun
  <2>1. CASE \E rule : Raised(rule)
    <3>1. due' = {} /\ ticket' = before.ticket /\ actor' = before.actor /\ now' = now
      BY <2>1 DEF Raised
    <3> QED BY <1>s, <2>0, <3>1 DEF Seen
  <2>2. CASE (\E rule : Ran(rule, ticket')) /\ Course(ticket', comments', due')
    <3>1. /\ due' # {} => before' = before
          /\ now' = now /\ actor' = actor
      BY <2>2, WentOn
    <3>2. CASE due' # {}
      BY <1>s, <2>0, <3>1, <3>2 DEF Seen
    <3>3. CASE due' = {}
      BY <2>0, <2>2, <3>1, <3>3, EndPromised
    <3> QED BY <3>2, <3>3
  <2> QED BY <1>2, <2>1, <2>2, RulesRun
<1>3. CASE CatchUp
  <2>1. PICK u : /\ Begin("retry", u) /\ now' = now /\ u.stage = ticket.stage
                 /\ DeliveredAt(ticket) = 0 /\ DeliveredAt(u) = now
                 /\ Triggered(ticket, u) = {}
    BY <1>0, <1>3, CatchUpPosts
  <2>2. due = {} /\ due' = {} /\ ticket' = u /\ actor' = "retry"
    BY <2>1, Begun
  <2>3. Seen = ticket /\ Seen' = u /\ by' = "retry"
    BY <2>2 DEF Seen
  <2>4. DeliveredAt(Seen) = 0 /\ DeliveredAt(Seen)' = now
    BY <2>1, <2>3 DEF DeliveredAt, CurrentToken
  <2>5. Promises!Tell
    BY <2>1, <2>3, <2>4 DEF Promises!Tell
  <2> QED BY <2>5 DEF Promises!Next
<1>4. CASE Tick \/ Stream \/ UNCHANGED vars
  <2>1. UNCHANGED <<ticket, due, actor, before>> /\ (now' = now \/ now' > now)
    BY <1>0, <1>4, AsideSteps DEF Aside
  <2>2. Seen' = Seen /\ by' = by /\ DeliveredAt(Seen)' = DeliveredAt(Seen)
    BY <2>1 DEF Seen, DeliveredAt, CurrentToken
  <2>3. CASE now' > now
    BY <2>2, <2>3 DEF Promises!Next, Promises!Tick
  <2> QED BY <1>s, <2>1, <2>2, <2>3
<1> QED BY <1>0, <1>1, <1>2, <1>3, <1>4, StepsAre

LEMMA InitPromised == Init => Promises!Init
<1> SUFFICES ASSUME Init PROVE Promises!Init
  OBVIOUS
<1>1. now = 1 /\ due = {} /\ actor = "nobody"
  BY DEF Init
<1>2. ticket.pending = 0
  <2>1. CASE ticket = Untouched(NoTicket, "Active", "none", "New")
    BY <2>1 DEF Untouched
  <2>2. CASE \E stage \in History, has \in BOOLEAN :
               ticket = [Untouched(stage, IF played = 0 THEN "Never Used" ELSE "Active",
                                   "Pending", "New") EXCEPT !.reporter = has]
    BY <2>2 DEF Untouched
  <2> QED BY <2>1, <2>2 DEF Init
<1>3. Seen = ticket /\ DeliveredAt(ticket) = 0
  BY <1>1, <1>2 DEF Seen, DeliveredAt, CurrentToken
<1> QED BY <1>1, <1>3 DEF Promises!Init

\* The workflow keeps the promises, for all waiting periods, clocks and numbers of
\* requests and changes: between transactions the audit moves a review one stage at a
\* time, and never before the time that the message of this visit of the stage promised.
THEOREM PromisesKept == Spec => KeepsPromises
<1>1. CourseInv /\ [Next]_vars => [Promises!Next]_Promises!vars
  BY StepPromised
<1> QED BY <1>1, InitPromised, CourseAlways, PTL DEF Spec, KeepsPromises, Promises!Spec
=============================================================================
