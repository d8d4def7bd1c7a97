-------------------------- MODULE NotificationGate --------------------------
(***************************************************************************)
(* The two-sided gate in front of member-visible notifications of the      *)
(* account audit: the worker's registry file                               *)
(* (camcore-account-audit/audit.py) and the app's reservation list         *)
(* (youtrack-app/cma-account-audit/account-sync.js).                       *)
(*                                                                         *)
(* A worker cycle sends every account in suppress mode, which only reads;  *)
(* then, for one candidate after the other, it writes a reservation to its *)
(* registry and repeats the account in permit mode.  The app answers each  *)
(* permit request in a transaction of its own: it reserves one of `Limit`  *)
(* notifications of the trailing window and changes the ticket, or neither.*)
(* A worker here is a registry file and the process that holds its lock; a *)
(* second one stands for another installation or a restored registry.      *)
(* Requests outlive the worker that stopped waiting for them.              *)
(***************************************************************************)
EXTENDS Naturals, FiniteSets

CONSTANTS
  Worker,     \* registries, each with the process that holds its lock
  Member,     \* accounts of the inventory
  NoMember,   \* nobody
  Limit,      \* MEMBER_NOTIFICATION_LIMIT, as the protocol handshake advertises it
  Window,     \* MEMBER_NOTIFICATION_WINDOW, in ticks of the clock
  Skew,       \* MAX_FUTURE_CLOCK_SKEW, in ticks
  Retries,    \* length of PERMIT_CONFLICT_RETRY_DELAYS_SECONDS
  Reading,    \* Reading[t]: what a worker's clock may read at server time t
  MaxTime,    \* bound: the clock
  MaxCycles,  \* bound: audit cycles, of all workers
  MaxMoves    \* bound: changes of a ticket's stage by staff

ASSUME GateAssumption ==
  /\ IsFiniteSet(Member)
  /\ NoMember \notin Member
  /\ Limit \in Nat \ {0}
  /\ Window \in Nat \ {0}
  /\ Skew \in Nat
  /\ Retries \in Nat
  /\ MaxTime \in Nat
  /\ Reading \in [0..MaxTime -> SUBSET (Nat \ {0})]
  /\ MaxCycles \in Nat
  /\ MaxMoves \in Nat

VARIABLES
  now,      \* the server's clock
  ticket,   \* per member: no ticket, or whether its stage releases messages
  storage,  \* the app's reservation list
  sent,     \* every reservation ever committed: a notification released
  inflight, \* permit requests the server has not answered
  registry, \* per worker: the registry file
  worker,   \* per worker: the process and its copy of the registry
  attempts, \* every reservation a worker saved
  cycles, moves

vars == <<now, ticket, storage, sent, inflight, registry, worker, attempts, cycles, moves>>

Ticket == {"none", "quiet", "message"}
Onboarding == {"unknown", "baseline", "pending", "completed"}
Never == 0 \* datetime.min: before every reading of a clock
NoGate == [cycle |-> 0, member |-> NoMember, at |-> Never, status |-> "none"]

(***************************************************************************)
(* The app: planReviewDecision, isMemberNotificationCandidate, receipts.   *)
(***************************************************************************)
\* What a request of a member with a ticket `t` leads to: `asked` when the
\* worker requests onboarding; the facts of the audit choose between the rest.
\* A mistake: the welcome does not look for a ticket.
AlwaysWelcome(asked, t) ==
  IF asked THEN {"welcome"}
  ELSE IF t = "none" THEN {"facts", "create"} ELSE {"facts", "notice"}
Plans(asked, t) ==
  CASE asked /\ t = "none" -> {"welcome"}
    [] asked /\ t # "none" -> {"existing"}
    [] ~asked /\ t = "none" -> {"facts", "create"}
    [] OTHER -> {"facts", "notice"}

Candidate(t, plan) == plan \in {"welcome", "create", "notice"} \/ t = "message"

\* The stage the ticket has after a permitted request.
Applied(t, plan) ==
  CASE plan \in {"welcome", "create"} -> "quiet"
    [] plan = "notice" -> "message"
    [] OTHER -> t

\* The answers: deferred in suppress mode, for lack of budget, or planned
\* (read-only), or done.
Receipt(result, plan, asked, required, reserved) ==
  [result |-> result, plan |-> plan, required |-> required, reserved |-> reserved,
   completed |-> /\ asked
                 /\ \/ plan = "existing" /\ result \in {"planned", "updated"}
                    \/ plan = "welcome" /\ result = "created"]

SuppressReceipt(t, plan, asked) ==
  IF Candidate(t, plan) THEN Receipt("deferred", plan, asked, TRUE, FALSE)
                        ELSE Receipt("planned", plan, asked, FALSE, FALSE)

DoneReceipt(t, plan, asked) ==
  Receipt(IF t = "none" THEN "created" ELSE "updated", plan, asked, TRUE, TRUE)

(***************************************************************************)
(* The worker: validate_sync_response, candidate_priority.                 *)
(***************************************************************************)
\* A receipt the worker accepts.  What the app's other fields say is right by
\* the way Receipt builds them.
Valid(receipt, asked) ==
  IF receipt.completed
  THEN \/ receipt.plan = "welcome" /\ receipt.reserved
       \/ receipt.plan = "existing" /\ ~receipt.required
  ELSE ~(asked /\ receipt.plan = "existing")

Priority(plan) ==
  CASE plan = "welcome" -> 0
    [] plan = "notice" -> 1
    [] plan \in {"facts", "existing"} -> 2
    [] OTHER -> 3

(***************************************************************************)
(* The registry.  `history` keeps each member's last reservation.          *)
(***************************************************************************)
Fresh == [history |-> [m \in Member |-> Never], gate |-> NoGate,
          users |-> [m \in Member |-> "unknown"], baseline |-> FALSE, completed |-> 0]

Reserved(reg) == {m \in Member : reg.history[m] # Never}

\* notification_permit_available: the gate's own window, used at a limit of one.
GateOpen(reg, t) == reg.gate = NoGate \/ reg.gate.at + Window <= t

\* notification_permits_remaining.  A mistake: what is in the future does not count.
PastOnly(reg, t) == {m \in Reserved(reg) : reg.history[m] <= t /\ t < reg.history[m] + Window}
InWindow(reg, t) == {m \in Reserved(reg) : t < reg.history[m] + Window}

\* A mistake: one reservation too many.
OneMore(reg, t) == Limit + 1 - Cardinality(InWindow(reg, t))
Remaining(reg, t) ==
  IF Limit = 1 /\ ~GateOpen(reg, t) THEN 0
  ELSE IF Cardinality(InWindow(reg, t)) >= Limit THEN 0
  ELSE Limit - Cardinality(InWindow(reg, t))

\* member_notification_available.  A mistake: a day counts as over one tick early.
EarlyAvailable(reg, m, t) == reg.history[m] = Never \/ reg.history[m] + Window <= t + 1
MemberAvailable(reg, m, t) == reg.history[m] = Never \/ reg.history[m] + Window <= t

\* A reservation too far in the future of the worker's clock is a configuration
\* error; one within the tolerance counts for the budget and for its member.
FromTheFuture(reg, t) == \E m \in Reserved(reg) : reg.history[m] > t + Skew

\* reserve_notification_permit.
Reserve(reg, m, c, t) ==
  [reg EXCEPT !.history[m] = t,
              !.gate = [cycle |-> c, member |-> m, at |-> t, status |-> "reserved"]]

\* observe_account for every account, then complete_onboarding_baseline.
Observe(reg, accounts) ==
  [reg EXCEPT !.users = [m \in Member |->
                           IF m \notin accounts \/ @[m] # "unknown" THEN @[m]
                           ELSE IF reg.baseline THEN "pending" ELSE "baseline"],
              !.baseline = TRUE]

\* confirm_onboarding.  A mistake: any answer will do.
ConfirmedAnyway(reg, m, receipt) ==
  IF reg.users[m] = "pending" THEN [reg EXCEPT !.users[m] = "completed"] ELSE reg
Confirmed(reg, m, receipt) ==
  IF receipt.completed THEN [reg EXCEPT !.users[m] = "completed"] ELSE reg

(***************************************************************************)
(* The audit cycle of a worker: _run_once_locked.                          *)
(***************************************************************************)
NoAnswer == [kind |-> "none"]
Idle == [step |-> "idle", cycle |-> 0, mem |-> Fresh, todo |-> {}, found |-> {},
         errors |-> FALSE, refused |-> FALSE, at |-> Never, left |-> 0,
         member |-> NoMember, retries |-> 0, answer |-> NoAnswer]

Asked(w, m) == worker[w].mem.users[m] = "pending"
Becomes(w, process) == worker' = [worker EXCEPT ![w] = process]
Save(w, reg) == registry' = [registry EXCEPT ![w] = reg]

\* The lock is taken, the accounts are read, the protocol answers (or the cycle
\* is over before it began), the registry is loaded and every account observed.
StartCycle(w) ==
  /\ worker[w].step = "idle"
  /\ cycles < MaxCycles
  /\ cycles' = cycles + 1
  /\ \E accounts \in SUBSET Member :
       /\ accounts # {} \/ registry[w].baseline
       /\ Becomes(w, [Idle EXCEPT !.step = "suppress", !.cycle = cycles',
                                  !.mem = Observe(registry[w], accounts), !.todo = accounts])
  /\ UNCHANGED <<now, ticket, storage, sent, inflight, registry, attempts, moves>>

\* One account in suppress mode: the app reads and answers, or the request fails
\* for this member alone (no candidate) or for a reason that stops the cycle.
Suppress(w, m) ==
  LET process == [worker[w] EXCEPT !.todo = @ \ {m}]
      asked == Asked(w, m)
  IN /\ worker[w].step = "suppress"
     /\ m \in worker[w].todo
     /\ \/ \E plan \in Plans(asked, ticket[m]) :
             LET receipt == SuppressReceipt(ticket[m], plan, asked) IN
             IF Valid(receipt, asked)
             THEN Becomes(w, [process EXCEPT
                    !.mem = Confirmed(@, m, receipt),
                    !.found = IF receipt.required THEN @ \cup {[member |-> m, plan |-> plan]}
                              ELSE @])
             ELSE Becomes(w, [process EXCEPT !.errors = TRUE, !.refused = TRUE])
        \/ Becomes(w, process)
        \/ Becomes(w, [process EXCEPT !.errors = TRUE])
     /\ UNCHANGED <<now, ticket, storage, sent, inflight, registry, attempts, cycles, moves>>

\* The end of a cycle: lastCompletedAt only when nothing failed, then save().
Closed(process) ==
  IF process.errors THEN process.mem ELSE [process.mem EXCEPT !.completed = process.cycle]
Finish(w, process) == Save(w, Closed(process)) /\ Becomes(w, Idle)

\* The clock is read again and the budget is counted; a registry with a
\* reservation too far in the future is left alone.
OpenPermits(w) ==
  LET process == worker[w] IN
  /\ process.step = "suppress"
  /\ process.todo = {}
  /\ \E t \in Reading[now] :
       IF FromTheFuture(process.mem, t)
       THEN Becomes(w, Idle) /\ UNCHANGED registry
       ELSE LET free == {c \in process.found : MemberAvailable(process.mem, c.member, t)}
            IN IF process.errors \/ free = {} \/ Remaining(process.mem, t) = 0
               THEN Finish(w, process)
               ELSE /\ Becomes(w, [process EXCEPT !.step = "choose", !.found = free, !.at = t,
                                                  !.left = Remaining(process.mem, t)])
                    /\ UNCHANGED registry
  /\ UNCHANGED <<now, ticket, storage, sent, inflight, attempts, cycles, moves>>

\* A dry run plans and saves, and asks for nothing.
DryRun(w) ==
  /\ worker[w].step = "suppress"
  /\ worker[w].todo = {}
  /\ Finish(w, worker[w])
  /\ UNCHANGED <<now, ticket, storage, sent, inflight, attempts, cycles, moves>>

Ahead(reg, c, d) ==
  \/ Priority(c.plan) < Priority(d.plan)
  \/ Priority(c.plan) = Priority(d.plan) /\ reg.history[c.member] <= reg.history[d.member]

\* The reservation is saved before the request is made.  A mistake: it is kept
\* in memory, to be saved with the outcome.
SavedLate(w, reg) == UNCHANGED registry
SavedFirst(w, reg) == Save(w, reg)

Choose(w) ==
  LET process == worker[w] IN
  /\ process.step = "choose"
  /\ process.left > 0
  /\ \E c \in process.found :
       LET reg == Reserve(process.mem, c.member, process.cycle, process.at) IN
       /\ \A d \in process.found : Ahead(process.mem, c, d)
       /\ Remaining(process.mem, process.at) > 0
       /\ MemberAvailable(process.mem, c.member, process.at)
       /\ SavedFirst(w, reg)
       /\ attempts' = attempts \cup {[worker |-> w, member |-> c.member, cycle |-> process.cycle,
                                      at |-> process.at]}
       /\ Becomes(w, [process EXCEPT !.step = "post", !.mem = reg, !.found = @ \ {c},
                                     !.left = @ - 1, !.member = c.member, !.retries = 0])
  /\ UNCHANGED <<now, ticket, storage, sent, inflight, cycles, moves>>

NoneLeft(w) ==
  /\ worker[w].step = "choose"
  /\ worker[w].left = 0 \/ worker[w].found = {}
  /\ Finish(w, worker[w])
  /\ UNCHANGED <<now, ticket, storage, sent, inflight, attempts, cycles, moves>>

Post(w) ==
  LET process == worker[w] IN
  /\ process.step = "post"
  /\ inflight' = inflight \cup {[worker |-> w, member |-> process.member,
                                 cycle |-> process.cycle, asked |-> Asked(w, process.member),
                                 step |-> "sent", at |-> Never, base |-> {}, ticket |-> "none"]}
  /\ Becomes(w, [process EXCEPT !.step = "wait"])
  /\ UNCHANGED <<now, ticket, storage, sent, registry, attempts, cycles, moves>>

\* A determinate answer: onboarding and the gate's status are confirmed and
\* saved; an exhausted budget ends the cycle.
Settled(reg, status) == [reg EXCEPT !.gate.status = status]

TakeReceipt(w) ==
  LET process == worker[w]
      receipt == process.answer.receipt
      status == IF receipt.reserved THEN "confirmed"
                ELSE IF receipt.result = "deferred" THEN "server-budget-exhausted"
                ELSE "no-longer-required"
      reg == Settled(Confirmed(process.mem, process.member, receipt), status)
      settled == [process EXCEPT !.step = "choose", !.mem = reg, !.answer = NoAnswer]
  IN /\ process.step = "answered" /\ process.answer.kind = "receipt"
     /\ IF ~Valid(receipt, Asked(w, process.member))
        THEN Finish(w, [process EXCEPT !.errors = TRUE])
        ELSE IF receipt.result = "deferred"
        THEN Finish(w, settled)
        ELSE Save(w, reg) /\ Becomes(w, settled)
     /\ UNCHANGED <<now, ticket, storage, sent, inflight, attempts, cycles, moves>>

\* The structured conflict is the one answer after which the request is repeated.
TakeConflict(w) ==
  LET process == worker[w] IN
  /\ process.step = "answered" /\ process.answer.kind = "conflict"
  /\ IF process.retries < Retries
     THEN /\ Becomes(w, [process EXCEPT !.step = "post", !.retries = @ + 1, !.answer = NoAnswer])
          /\ UNCHANGED registry
     ELSE Finish(w, [process EXCEPT !.errors = TRUE])
  /\ UNCHANGED <<now, ticket, storage, sent, inflight, attempts, cycles, moves>>

\* No answer, or an error: nothing is known of the notification.  A mistake: the
\* cycle goes on to complete.
Shrug(w) == Finish(w, worker[w])
Ambiguous(w) == Finish(w, [worker[w] EXCEPT !.errors = TRUE])

Timeout(w) ==
  /\ worker[w].step = "wait"
  /\ Ambiguous(w)
  /\ UNCHANGED <<now, ticket, storage, sent, inflight, attempts, cycles, moves>>

\* The process dies: the lock is released, the registry file stays.
Crash(w) ==
  /\ worker[w].step # "idle"
  /\ Becomes(w, Idle)
  /\ UNCHANGED <<now, ticket, storage, sent, inflight, registry, attempts, cycles, moves>>

(***************************************************************************)
(* The app's transaction for a permit request.                             *)
(***************************************************************************)
\* notificationBudget: the reservations still in their window.  A mistake: they
\* expire one tick early.
ExpiredEarly(list, t) == {s \in list : t + 1 < s.at + Window}
Active(list, t) == {s \in list : t < s.at + Window}

\* reserveNotificationBudget.
Extended(active, reservation) == active \cup {reservation}

\* The handler reads the clock, the list and the ticket.
Begin(r) ==
  /\ r.step = "sent"
  /\ inflight' = (inflight \ {r}) \cup
       {[r EXCEPT !.step = "open", !.at = now, !.base = storage, !.ticket = ticket[r.member]]}
  /\ UNCHANGED <<now, ticket, storage, sent, registry, worker, attempts, cycles, moves>>

\* The answer reaches the worker if it still waits for it.
Answer(r, answer) ==
  /\ inflight' = inflight \ {r}
  /\ worker' = [worker EXCEPT ![r.worker] =
       IF @.step = "wait" /\ @.cycle = r.cycle /\ @.member = r.member
       THEN [@ EXCEPT !.step = "answered", !.answer = answer]
       ELSE @]

\* Nothing to notify, or no budget: the answer is read-only.
Decline(r) ==
  /\ r.step = "open"
  /\ \E plan \in Plans(r.asked, r.ticket) :
       \/ /\ ~Candidate(r.ticket, plan)
          /\ Answer(r, [kind |-> "receipt",
                        receipt |-> Receipt("planned", plan, r.asked, FALSE, FALSE)])
       \/ /\ Candidate(r.ticket, plan)
          /\ Cardinality(Active(r.base, r.at)) >= Limit
          /\ Answer(r, [kind |-> "receipt",
                        receipt |-> Receipt("deferred", plan, r.asked, TRUE, FALSE)])
  /\ UNCHANGED <<now, ticket, storage, sent, registry, attempts, cycles, moves>>

\* YouTrack lets a transaction commit if nobody changed the list since it was
\* read.  A mistake: the last one wins.
LastWins(r) == TRUE
Undisturbed(r) == storage = r.base

\* The reservation and the ticket are written together, or neither.
Commit(r) ==
  /\ r.step = "open"
  /\ Undisturbed(r)
  /\ \E plan \in Plans(r.asked, r.ticket) :
       LET reservation == [no |-> Cardinality(sent) + 1, at |-> r.at, member |-> r.member,
                           cycle |-> r.cycle, plan |-> plan]
       IN /\ Candidate(r.ticket, plan)
          /\ Cardinality(Active(r.base, r.at)) < Limit
          /\ storage' = Extended(Active(r.base, r.at), reservation)
          /\ sent' = sent \cup {reservation}
          /\ ticket' = [ticket EXCEPT ![r.member] = Applied(@, plan)]
          /\ Answer(r, [kind |-> "receipt", receipt |-> DoneReceipt(r.ticket, plan, r.asked)])
  /\ UNCHANGED <<now, registry, attempts, cycles, moves>>

\* The transaction is rolled back: on a conflict, or with another error.
Conflict(r) ==
  /\ r.step = "open"
  /\ ~Undisturbed(r)
  /\ Answer(r, [kind |-> "conflict"])
  /\ UNCHANGED <<now, ticket, storage, sent, registry, attempts, cycles, moves>>

\* The request is lost or refused; the worker sees no more of it than a timeout.
Lose(r) ==
  /\ inflight' = inflight \ {r}
  /\ UNCHANGED <<now, ticket, storage, sent, registry, worker, attempts, cycles, moves>>

\* Staff, and the review workflows, move a ticket between stages.
MoveTicket(m) ==
  /\ moves < MaxMoves
  /\ moves' = moves + 1
  /\ ticket[m] # "none"
  /\ ticket' = [ticket EXCEPT ![m] = IF @ = "quiet" THEN "message" ELSE "quiet"]
  /\ UNCHANGED <<now, storage, sent, inflight, registry, worker, attempts, cycles>>

Tick ==
  /\ now < MaxTime
  /\ now' = now + 1
  /\ UNCHANGED <<ticket, storage, sent, inflight, registry, worker, attempts, cycles, moves>>

-----------------------------------------------------------------------------
\* A registry whose baseline was completed with other accounts.
Baselined == [Fresh EXCEPT !.baseline = TRUE]

\* A list of the earlier single-slot version may hold one reservation.
Slot(m) == [no |-> 1, at |-> Never, member |-> m, cycle |-> 0, plan |-> "notice"]

Init ==
  /\ now = 0
  /\ ticket \in [Member -> Ticket]
  /\ storage \in {{}} \cup {{Slot(m)} : m \in Member}
  /\ sent = storage
  /\ inflight = {}
  /\ registry \in [Worker -> {Fresh, Baselined}]
  /\ worker = [w \in Worker |-> Idle]
  /\ attempts = {}
  /\ cycles = 0
  /\ moves = 0

Cycle(w) ==
  \/ StartCycle(w)
  \/ \E m \in Member : Suppress(w, m)
  \/ OpenPermits(w) \/ DryRun(w)
  \/ Choose(w) \/ NoneLeft(w) \/ Post(w)
  \/ TakeReceipt(w) \/ TakeConflict(w) \/ Timeout(w)
  \/ Crash(w)

Handle(r) == Begin(r) \/ Decline(r) \/ Commit(r) \/ Conflict(r) \/ Lose(r)

Next ==
  \/ \E w \in Worker : Cycle(w)
  \/ \E r \in inflight : Handle(r)
  \/ \E m \in Member : MoveTicket(m)
  \/ Tick

Spec == Init /\ [][Next]_vars

-----------------------------------------------------------------------------
(***************************************************************************)
(* Properties.                                                             *)
(***************************************************************************)
Time == Nat
Plan == {"welcome", "create", "notice", "existing", "facts"}
Reservation == [no : Nat \ {0}, at : Time, member : Member, cycle : Nat, plan : Plan]
Registry == [history : [Member -> Time],
             gate : [cycle : Nat, member : Member \cup {NoMember}, at : Time,
                     status : {"none", "reserved", "confirmed", "server-budget-exhausted",
                               "no-longer-required"}],
             users : [Member -> Onboarding], baseline : BOOLEAN, completed : Nat]
Request == [worker : Worker, member : Member, cycle : Nat, asked : BOOLEAN,
            step : {"sent", "open"}, at : Time, base : SUBSET Reservation, ticket : Ticket]
Answers == [kind : {"none", "conflict"}] \cup
           [kind : {"receipt"},
            receipt : [result : {"planned", "deferred", "created", "updated"}, plan : Plan,
                       required : BOOLEAN, reserved : BOOLEAN, completed : BOOLEAN]]
Process == [step : {"idle", "suppress", "choose", "post", "wait", "answered"}, cycle : Nat,
            mem : Registry, todo : SUBSET Member, found : SUBSET [member : Member, plan : Plan],
            errors : BOOLEAN, refused : BOOLEAN, at : Time, left : 0..Limit,
            member : Member \cup {NoMember}, retries : Nat, answer : Answers]
Attempt == [worker : Worker, member : Member, cycle : Nat, at : Time]

TypeOK ==
  /\ now \in 0..MaxTime
  /\ ticket \in [Member -> Ticket]
  /\ sent \subseteq Reservation
  /\ storage \subseteq sent
  /\ inflight \subseteq Request
  /\ registry \in [Worker -> Registry]
  /\ worker \in [Worker -> Process]
  /\ \A w \in Worker : worker[w].step \in {"post", "wait", "answered"} => worker[w].member \in Member
  /\ attempts \subseteq Attempt
  /\ cycles \in Nat
  /\ moves \in Nat

\* Over all workers and whatever fails, at most Limit notifications are
\* released in any window.
Promise == INSTANCE NotificationBudget WITH released <- sent
RollingBudget == Promise!RollingBudget

\* The list of the app, its transactions and the workers' retries implement
\* the budget: every commit is a release the budget allows.
KeepsBudget == Promise!Budget

\* A request is made only once its reservation is in the registry file, so a
\* restart, whatever happened to the answer, does not make it again.
ReservedBeforeSent ==
  \A r \in inflight : /\ registry[r.worker].history[r.member] # Never
                      /\ registry[r.worker].gate.cycle >= r.cycle

\* By the worker's own clock, which may be wrong and go back, its attempts for
\* one member are a window apart.
AttemptsApart ==
  \A a, b \in attempts :
    a.worker = b.worker /\ a.member = b.member /\ a # b
      => a.at + Window <= b.at \/ b.at + Window <= a.at

\* And it never makes more than Limit of them in a window, those included that it
\* made by a clock that was ahead of the one it reads now.
AttemptsBudget ==
  \A a \in attempts :
    Cardinality({b \in attempts : /\ b.worker = a.worker
                                  /\ b.at <= a.at
                                  /\ a.at < b.at + Window}) <= Limit

\* No member is sent two welcome tickets, with two registries that both take
\* the member for new, lost answers and repeated requests.
WelcomedOnce ==
  \A s, r \in sent : s.plan = "welcome" /\ r.plan = "welcome" /\ s.member = r.member => s = r

\* Onboarding is marked complete only for a member that has a ticket.
OnboardedHasTicket ==
  \A w \in Worker, m \in Member : registry[w].users[m] = "completed" => ticket[m] # "none"

\* A cycle is recorded as completed only when the fate of every permit request
\* it made is known: none is left at the server.
CompletedIsDeterminate ==
  \A r \in inflight : registry[r.worker].completed # r.cycle

\* The worker accepts every receipt the app writes.
ReceiptsAccepted == \A w \in Worker : ~worker[w].refused
=============================================================================
