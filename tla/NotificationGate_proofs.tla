----------------------- MODULE NotificationGate_proofs -----------------------
(***************************************************************************)
(* Proofs about the notification gate, for every set of workers and        *)
(* members, every limit and window, and every clock of the workers.        *)
(***************************************************************************)
EXTENDS NotificationGate, FiniteSetTheorems, TLAPS

-----------------------------------------------------------------------------
(***************************************************************************)
(* Types.                                                                  *)
(***************************************************************************)
\* What a request leads to is one of the plans.
LEMMA PlansType ==
  ASSUME NEW asked \in BOOLEAN, NEW t \in Ticket
  PROVE  Plans(asked, t) \subseteq Plan
  BY DEF Plans, Ticket, Plan

\* A permitted request leaves the ticket in a stage of its own.
LEMMA AppliedType ==
  ASSUME NEW t \in Ticket, NEW plan \in Plan
  PROVE  Applied(t, plan) \in Ticket
  BY DEF Applied, Ticket

\* Every receipt the app builds is an answer a worker can hold.
LEMMA ReceiptType ==
  ASSUME NEW result \in {"planned", "deferred", "created", "updated"}, NEW plan \in Plan,
         NEW asked \in BOOLEAN, NEW required \in BOOLEAN, NEW reserved \in BOOLEAN
  PROVE  [kind |-> "receipt", receipt |-> Receipt(result, plan, asked, required, reserved)]
           \in Answers
  BY DEF Receipt, Answers

\* A registry that was never written is a registry.
LEMMA FreshType == Fresh \in Registry
  BY DEF Fresh, Registry, NoGate, Never, Time, Onboarding

\* So is one whose baseline is complete.
LEMMA BaselinedType == Baselined \in Registry
  BY FreshType DEF Baselined, Registry

\* A reservation keeps the registry well formed.
LEMMA ReserveType ==
  ASSUME NEW reg \in Registry, NEW m \in Member, NEW c \in Nat, NEW t \in Time
  PROVE  Reserve(reg, m, c, t) \in Registry
  BY DEF Reserve, Registry

\* Observing accounts keeps the registry well formed.
LEMMA ObserveType ==
  ASSUME NEW reg \in Registry, NEW accounts \in SUBSET Member
  PROVE  Observe(reg, accounts) \in Registry
  BY DEF Observe, Registry, Onboarding

\* Whatever the receipt, confirming it keeps the registry well formed.
LEMMA ConfirmedType ==
  ASSUME NEW reg \in Registry, NEW m, NEW receipt
  PROVE  Confirmed(reg, m, receipt) \in Registry
  BY DEF Confirmed, Registry, Onboarding

\* The gate's status after an answer is one the registry knows.
LEMMA SettledType ==
  ASSUME NEW reg \in Registry,
         NEW status \in {"confirmed", "server-budget-exhausted", "no-longer-required"}
  PROVE  Settled(reg, status) \in Registry
  BY DEF Settled, Registry

\* What remains of the budget is between nothing and the limit.
LEMMA RemainingType ==
  ASSUME NEW reg \in Registry, NEW t \in Time
  PROVE  Remaining(reg, t) \in 0..Limit
<1>1. InWindow(reg, t) \subseteq Member
  BY DEF InWindow, Reserved
<1>2. Cardinality(InWindow(reg, t)) \in Nat
  BY <1>1, GateAssumption, FS_Subset, FS_CardinalityType
<1> QED BY <1>2, GateAssumption DEF Remaining

\* What a cycle saves at its end is a registry.
LEMMA ClosedType ==
  ASSUME NEW process \in Process
  PROVE  Closed(process) \in Registry
  BY DEF Closed, Process, Registry

\* An idle worker is well formed.
LEMMA IdleType == Idle \in Process
  BY FreshType, GateAssumption DEF Idle, Process, NoAnswer, Answers, Never, Time

\* The first states are well formed.
LEMMA TypeInit == Init => TypeOK
<1> SUFFICES ASSUME Init PROVE TypeOK
  OBVIOUS
<1>1. storage \subseteq Reservation
  BY DEF Init, Slot, Reservation, Never, Time, Plan
<1>2. registry \in [Worker -> Registry]
  BY FreshType, BaselinedType DEF Init
<1>3. worker \in [Worker -> Process] /\ \A w \in Worker : worker[w].step = "idle"
  BY IdleType DEF Init, Idle
<1>4. now \in 0..MaxTime
  BY GateAssumption DEF Init
<1> QED BY <1>1, <1>2, <1>3, <1>4 DEF Init, TypeOK

\* StartCycle keeps the types.
LEMMA TypeStartCycle ==
  ASSUME TypeOK, NEW w \in Worker, StartCycle(w)
  PROVE  TypeOK'
<1>1. PICK accounts \in SUBSET Member :
        Becomes(w, [Idle EXCEPT !.step = "suppress", !.cycle = cycles',
                                !.mem = Observe(registry[w], accounts), !.todo = accounts])
  BY DEF StartCycle
<1>2. cycles' \in Nat
  BY DEF StartCycle, TypeOK
<1>3. Observe(registry[w], accounts) \in Registry
  BY ObserveType DEF TypeOK
<1>4. [Idle EXCEPT !.step = "suppress", !.cycle = cycles',
                   !.mem = Observe(registry[w], accounts), !.todo = accounts] \in Process
  BY <1>2, <1>3, IdleType DEF Process
<1>5. worker' \in [Worker -> Process]
  BY <1>1, <1>4 DEF TypeOK, Becomes
<1>6. \A v \in Worker : worker'[v].step \in {"post", "wait", "answered"}
                          => worker'[v].member \in Member
  BY <1>1 DEF TypeOK, Becomes, Idle
<1> QED BY <1>2, <1>5, <1>6 DEF TypeOK, StartCycle

\* Suppress keeps the types.
LEMMA TypeSuppress ==
  ASSUME TypeOK, NEW w \in Worker, NEW m \in Member, Suppress(w, m)
  PROVE  TypeOK'
<1> DEFINE process == [worker[w] EXCEPT !.todo = @ \ {m}]
<1>1. process \in Process /\ process.step = "suppress"
  BY DEF TypeOK, Process, Suppress
<1>2. \E next \in Process : next.step = "suppress" /\ Becomes(w, next)
  <2>1. CASE Becomes(w, process)
    BY <1>1, <2>1
  <2>2. CASE Becomes(w, [process EXCEPT !.errors = TRUE])
    <3>1. [process EXCEPT !.errors = TRUE] \in Process
      BY <1>1 DEF Process
    <3> QED BY <1>1, <2>2, <3>1 DEF Process
  <2>3. CASE Becomes(w, [process EXCEPT !.errors = TRUE, !.refused = TRUE])
    <3>1. [process EXCEPT !.errors = TRUE, !.refused = TRUE] \in Process
      BY <1>1 DEF Process
    <3> QED BY <1>1, <2>3, <3>1 DEF Process
  <2>4. ASSUME NEW plan \in Plan, NEW receipt,
               Becomes(w, [process EXCEPT
                    !.mem = Confirmed(@, m, receipt),
                    !.found = IF receipt.required THEN @ \cup {[member |-> m, plan |-> plan]}
                              ELSE @])
        PROVE  \E next \in Process : next.step = "suppress" /\ Becomes(w, next)
    <3> DEFINE reg == Confirmed(process.mem, m, receipt)
               found == IF receipt.required THEN process.found \cup {[member |-> m, plan |-> plan]}
                        ELSE process.found
               next == [process EXCEPT !.mem = reg, !.found = found]
    <3>1. reg \in Registry
      <4>1. process.mem \in Registry
        BY <1>1 DEF Process
      <4> QED BY <4>1, ConfirmedType
    <3>2. found \in SUBSET [member : Member, plan : Plan]
      BY <1>1 DEF Process
    <3> HIDE DEF process, reg, found
    <3>3. next \in Process /\ next.step = "suppress"
      BY <1>1, <3>1, <3>2 DEF Process
    <3> QED BY <2>4, <3>3 DEF reg, found
  <2> QED
    <3>1. Asked(w, m) \in BOOLEAN /\ ticket[m] \in Ticket
      BY DEF Asked, TypeOK
    <3>2. Plans(Asked(w, m), ticket[m]) \subseteq Plan
      BY <3>1, PlansType
    <3> QED BY <2>1, <2>2, <2>3, <2>4, <3>2 DEF Suppress
<1>3. /\ worker' \in [Worker -> Process]
      /\ \A v \in Worker : worker'[v].step \in {"post", "wait", "answered"}
                             => worker'[v].member \in Member
  BY <1>2 DEF TypeOK, Becomes
<1> QED BY <1>3 DEF TypeOK, Suppress

\* The end of a cycle, and a crash, leave an idle worker.
LEMMA TypeBecomesIdle ==
  ASSUME TypeOK, NEW w \in Worker, Becomes(w, Idle)
  PROVE  /\ worker' \in [Worker -> Process]
         /\ \A v \in Worker : worker'[v].step \in {"post", "wait", "answered"}
                                => worker'[v].member \in Member
  BY IdleType DEF TypeOK, Becomes, Idle

\* The end of a cycle keeps the types.
LEMMA TypeFinish ==
  ASSUME TypeOK, NEW w \in Worker, NEW process \in Process, Finish(w, process)
  PROVE  /\ registry' \in [Worker -> Registry]
         /\ worker' \in [Worker -> Process]
         /\ \A v \in Worker : worker'[v].step \in {"post", "wait", "answered"}
                                => worker'[v].member \in Member
  BY ClosedType, TypeBecomesIdle DEF TypeOK, Finish, Save

\* A process that holds a member whenever it holds a request keeps the types.
LEMMA TypeBecomes ==
  ASSUME TypeOK, NEW w \in Worker, NEW process \in Process, Becomes(w, process),
         process.step \in {"post", "wait", "answered"} => process.member \in Member
  PROVE  /\ worker' \in [Worker -> Process]
         /\ \A v \in Worker : worker'[v].step \in {"post", "wait", "answered"}
                                => worker'[v].member \in Member
  BY DEF TypeOK, Becomes

\* OpenPermits keeps the types.
LEMMA TypeOpenPermits ==
  ASSUME TypeOK, NEW w \in Worker, OpenPermits(w)
  PROVE  TypeOK'
<1> DEFINE process == worker[w]
<1>1. process \in Process
  BY DEF TypeOK
<1>2. PICK t \in Reading[now] :
       IF FromTheFuture(process.mem, t)
       THEN Becomes(w, Idle) /\ UNCHANGED registry
       ELSE LET free == {c \in process.found : MemberAvailable(process.mem, c.member, t)}
            IN IF process.errors \/ free = {} \/ Remaining(process.mem, t) = 0
               THEN Finish(w, process)
               ELSE /\ Becomes(w, [process EXCEPT !.step = "choose", !.found = free, !.at = t,
                                                  !.left = Remaining(process.mem, t)])
                    /\ UNCHANGED registry
  BY DEF OpenPermits
<1>3. t \in Time
  BY GateAssumption DEF TypeOK, Time
<1> DEFINE free == {c \in process.found : MemberAvailable(process.mem, c.member, t)}
           next == [process EXCEPT !.step = "choose", !.found = free, !.at = t,
                                   !.left = Remaining(process.mem, t)]
<1>4. next \in Process /\ next.step = "choose"
  <2>1. Remaining(process.mem, t) \in 0..Limit
    BY <1>1, <1>3, RemainingType DEF Process
  <2>2. free \in SUBSET [member : Member, plan : Plan]
    BY <1>1 DEF Process
  <2> HIDE DEF process, free
  <2> QED BY <1>1, <1>3, <2>1, <2>2 DEF Process
<1>5. /\ registry' \in [Worker -> Registry]
      /\ worker' \in [Worker -> Process]
      /\ \A v \in Worker : worker'[v].step \in {"post", "wait", "answered"}
                             => worker'[v].member \in Member
  <2>1. CASE Becomes(w, Idle) /\ UNCHANGED registry
    BY <2>1, TypeBecomesIdle DEF TypeOK
  <2>2. CASE Finish(w, process)
    BY <1>1, <2>2, TypeFinish
  <2>3. CASE Becomes(w, next) /\ UNCHANGED registry
    <3> HIDE DEF next
    <3> QED BY <1>4, <2>3, TypeBecomes DEF TypeOK
  <2> QED BY <1>2, <2>1, <2>2, <2>3
<1> QED BY <1>5 DEF TypeOK, OpenPermits

\* DryRun keeps the types.
LEMMA TypeDryRun ==
  ASSUME TypeOK, NEW w \in Worker, DryRun(w)
  PROVE  TypeOK'
<1>1. worker[w] \in Process
  BY DEF TypeOK
<1>2. /\ registry' \in [Worker -> Registry]
      /\ worker' \in [Worker -> Process]
      /\ \A v \in Worker : worker'[v].step \in {"post", "wait", "answered"}
                             => worker'[v].member \in Member
  BY <1>1, TypeFinish DEF DryRun
<1> QED BY <1>2 DEF TypeOK, DryRun

\* NoneLeft keeps the types.
LEMMA TypeNoneLeft ==
  ASSUME TypeOK, NEW w \in Worker, NoneLeft(w)
  PROVE  TypeOK'
<1>1. worker[w] \in Process
  BY DEF TypeOK
<1>2. /\ registry' \in [Worker -> Registry]
      /\ worker' \in [Worker -> Process]
      /\ \A v \in Worker : worker'[v].step \in {"post", "wait", "answered"}
                             => worker'[v].member \in Member
  BY <1>1, TypeFinish DEF NoneLeft
<1> QED BY <1>2 DEF TypeOK, NoneLeft

\* Timeout keeps the types.
LEMMA TypeTimeout ==
  ASSUME TypeOK, NEW w \in Worker, Timeout(w)
  PROVE  TypeOK'
<1>1. [worker[w] EXCEPT !.errors = TRUE] \in Process
  BY DEF TypeOK, Process
<1>2. /\ registry' \in [Worker -> Registry]
      /\ worker' \in [Worker -> Process]
      /\ \A v \in Worker : worker'[v].step \in {"post", "wait", "answered"}
                             => worker'[v].member \in Member
  BY <1>1, TypeFinish DEF Timeout, Ambiguous
<1> QED BY <1>2 DEF TypeOK, Timeout

\* Crash keeps the types.
LEMMA TypeCrash ==
  ASSUME TypeOK, NEW w \in Worker, Crash(w)
  PROVE  TypeOK'
  BY TypeBecomesIdle DEF TypeOK, Crash

\* Choose keeps the types.
LEMMA TypeChoose ==
  ASSUME TypeOK, NEW w \in Worker, Choose(w)
  PROVE  TypeOK'
<1> DEFINE process == worker[w]
<1>1. process \in Process /\ process.left > 0 /\ process.left \in 0..Limit
  BY DEF TypeOK, Process, Choose
<1>2. PICK c \in process.found :
        LET reg == Reserve(process.mem, c.member, process.cycle, process.at) IN
        /\ SavedFirst(w, reg)
        /\ attempts' = attempts \cup {[worker |-> w, member |-> c.member, cycle |-> process.cycle,
                                       at |-> process.at]}
        /\ Becomes(w, [process EXCEPT !.step = "post", !.mem = reg, !.found = @ \ {c},
                                      !.left = @ - 1, !.member = c.member, !.retries = 0])
  BY DEF Choose
<1> DEFINE reg == Reserve(process.mem, c.member, process.cycle, process.at)
           next == [process EXCEPT !.step = "post", !.mem = reg, !.found = @ \ {c},
                                   !.left = @ - 1, !.member = c.member, !.retries = 0]
<1>3. c.member \in Member /\ process.cycle \in Nat /\ process.at \in Time /\ process.mem \in Registry
  BY <1>1, <1>2 DEF Process
<1>4. reg \in Registry
  BY <1>3, ReserveType
<1>5. next \in Process /\ next.step = "post" /\ next.member \in Member
  <2>1. process.left - 1 \in 0..Limit
    BY <1>1, GateAssumption
  <2> HIDE DEF process, reg
  <2> QED BY <1>1, <1>3, <1>4, <2>1 DEF Process
<1>6. /\ worker' \in [Worker -> Process]
      /\ \A v \in Worker : worker'[v].step \in {"post", "wait", "answered"}
                             => worker'[v].member \in Member
  <2> HIDE DEF next
  <2>1. Becomes(w, next)
    BY <1>2 DEF next
  <2> QED BY <1>5, <2>1, TypeBecomes
<1>7. registry' \in [Worker -> Registry]
  BY <1>2, <1>4 DEF TypeOK, SavedFirst, Save
<1>8. attempts' \subseteq Attempt
  BY <1>2, <1>3 DEF TypeOK, Attempt
<1> QED BY <1>6, <1>7, <1>8 DEF TypeOK, Choose

\* Post keeps the types.
LEMMA TypePost ==
  ASSUME TypeOK, NEW w \in Worker, Post(w)
  PROVE  TypeOK'
<1> DEFINE process == worker[w]
           request == [worker |-> w, member |-> process.member,
                       cycle |-> process.cycle, asked |-> Asked(w, process.member),
                       step |-> "sent", at |-> Never, base |-> {}, ticket |-> "none"]
           next == [process EXCEPT !.step = "wait"]
<1>1. process \in Process /\ process.member \in Member /\ process.cycle \in Nat
  BY DEF TypeOK, Process, Post
<1>2. request \in Request
  BY <1>1 DEF Request, Asked, Ticket, Time, Never
<1>3. next \in Process /\ next.member \in Member
  BY <1>1 DEF Process
<1>4. /\ worker' \in [Worker -> Process]
      /\ \A v \in Worker : worker'[v].step \in {"post", "wait", "answered"}
                             => worker'[v].member \in Member
  <2> HIDE DEF next
  <2>1. Becomes(w, next)
    BY DEF Post, next
  <2> QED BY <1>3, <2>1, TypeBecomes
<1>5. inflight' \subseteq Request
  <2> HIDE DEF request
  <2>1. inflight' = inflight \cup {request}
    BY DEF Post, request
  <2> QED BY <1>2, <2>1 DEF TypeOK
<1> QED BY <1>4, <1>5 DEF TypeOK, Post

\* TakeReceipt keeps the types.
LEMMA TypeTakeReceipt ==
  ASSUME TypeOK, NEW w \in Worker, TakeReceipt(w)
  PROVE  TypeOK'
<1> DEFINE process == worker[w]
           receipt == process.answer.receipt
           status == IF receipt.reserved THEN "confirmed"
                     ELSE IF receipt.result = "deferred" THEN "server-budget-exhausted"
                     ELSE "no-longer-required"
           reg == Settled(Confirmed(process.mem, process.member, receipt), status)
           settled == [process EXCEPT !.step = "choose", !.mem = reg, !.answer = NoAnswer]
<1>1. process \in Process /\ process.mem \in Registry
  BY DEF TypeOK, Process
<1>2. reg \in Registry
  BY <1>1, ConfirmedType, SettledType
<1>3. settled \in Process /\ settled.step = "choose"
  <2> HIDE DEF process, reg
  <2> QED BY <1>1, <1>2 DEF Process, NoAnswer, Answers
<1>4. [process EXCEPT !.errors = TRUE] \in Process
  BY <1>1 DEF Process
<1>5. /\ registry' \in [Worker -> Registry]
      /\ worker' \in [Worker -> Process]
      /\ \A v \in Worker : worker'[v].step \in {"post", "wait", "answered"}
                             => worker'[v].member \in Member
  <2> HIDE DEF settled, reg
  <2>1. CASE Finish(w, [process EXCEPT !.errors = TRUE])
    BY <1>4, <2>1, TypeFinish
  <2>2. CASE Finish(w, settled)
    BY <1>3, <2>2, TypeFinish
  <2>3. CASE Save(w, reg) /\ Becomes(w, settled)
    BY <1>2, <1>3, <2>3, TypeBecomes DEF TypeOK, Save
  <2> QED BY <2>1, <2>2, <2>3 DEF TakeReceipt, settled, reg
<1> QED BY <1>5 DEF TypeOK, TakeReceipt

\* TakeConflict keeps the types.
LEMMA TypeTakeConflict ==
  ASSUME TypeOK, NEW w \in Worker, TakeConflict(w)
  PROVE  TypeOK'
<1> DEFINE process == worker[w]
           next == [process EXCEPT !.step = "post", !.retries = @ + 1, !.answer = NoAnswer]
<1>1. process \in Process
  BY DEF TypeOK
<1>2. [process EXCEPT !.errors = TRUE] \in Process
  BY <1>1 DEF Process
<1>3. /\ registry' \in [Worker -> Registry]
      /\ worker' \in [Worker -> Process]
      /\ \A v \in Worker : worker'[v].step \in {"post", "wait", "answered"}
                             => worker'[v].member \in Member
  <2>1. CASE Finish(w, [process EXCEPT !.errors = TRUE])
    BY <1>2, <2>1, TypeFinish
  <2>2. CASE Becomes(w, next) /\ UNCHANGED registry
    <3>1. next \in Process /\ next.member = process.member
      <4>1. process.retries + 1 \in Nat
        BY <1>1 DEF Process
      <4>2. NoAnswer \in Answers
        BY DEF NoAnswer, Answers
      <4> HIDE DEF process
      <4> QED BY <1>1, <4>1, <4>2 DEF Process
    <3>2. process.member \in Member
      BY DEF TypeOK, TakeConflict
    <3> HIDE DEF next
    <3> QED BY <2>2, <3>1, <3>2, TypeBecomes DEF TypeOK
  <2> QED BY <2>1, <2>2 DEF TakeConflict
<1> QED BY <1>3 DEF TypeOK, TakeConflict

\* An answer keeps the worker's member, and the request is gone.
LEMMA TypeAnswer ==
  ASSUME TypeOK, NEW r \in inflight, NEW answer \in Answers, Answer(r, answer)
  PROVE  /\ inflight' \subseteq Request
         /\ worker' \in [Worker -> Process]
         /\ \A v \in Worker : worker'[v].step \in {"post", "wait", "answered"}
                                => worker'[v].member \in Member
<1> DEFINE w == r.worker
           process == worker[w]
           taken == [process EXCEPT !.step = "answered", !.answer = answer]
<1>1. w \in Worker
  BY DEF TypeOK, Request
<1>2. process \in Process
  BY <1>1 DEF TypeOK
<1>3. taken \in Process /\ taken.member = process.member
  <2> HIDE DEF process
  <2> QED BY <1>2 DEF Process
<1>4. process.step = "wait" => taken.member \in Member
  BY <1>1, <1>3 DEF TypeOK
<1>5. CASE process.step = "wait" /\ process.cycle = r.cycle /\ process.member = r.member
  <2> HIDE DEF taken
  <2>1. Becomes(w, taken)
    BY <1>5 DEF Answer, Becomes, taken
  <2> QED BY <1>1, <1>3, <1>4, <1>5, <2>1, TypeBecomes DEF TypeOK, Answer
<1>6. CASE ~(process.step = "wait" /\ process.cycle = r.cycle /\ process.member = r.member)
  <2>1. worker' = worker
    BY <1>1, <1>6 DEF Answer, TypeOK
  <2> QED BY <2>1 DEF TypeOK, Answer
<1> QED BY <1>5, <1>6

\* Begin keeps the types.
LEMMA TypeBegin ==
  ASSUME TypeOK, NEW r \in inflight, Begin(r)
  PROVE  TypeOK'
<1> DEFINE opened == [r EXCEPT !.step = "open", !.at = now, !.base = storage,
                               !.ticket = ticket[r.member]]
<1>1. r \in Request /\ r.member \in Member
  BY DEF TypeOK, Request
<1>2. now \in Time /\ storage \in SUBSET Reservation /\ ticket[r.member] \in Ticket
  BY <1>1, GateAssumption DEF TypeOK, Time
<1>3. opened \in Request
  BY <1>1, <1>2 DEF Request
<1>4. inflight' = (inflight \ {r}) \cup {opened}
  BY DEF Begin
<1> HIDE DEF opened
<1>5. inflight' \subseteq Request
  BY <1>3, <1>4 DEF TypeOK
<1> QED BY <1>5 DEF TypeOK, Begin

\* Decline keeps the types.
LEMMA TypeDecline ==
  ASSUME TypeOK, NEW r \in inflight, Decline(r)
  PROVE  TypeOK'
<1>1. r.asked \in BOOLEAN /\ r.ticket \in Ticket
  BY DEF TypeOK, Request
<1>2. \E answer \in Answers : Answer(r, answer)
  BY <1>1, PlansType, ReceiptType DEF Decline
<1>3. /\ inflight' \subseteq Request
      /\ worker' \in [Worker -> Process]
      /\ \A v \in Worker : worker'[v].step \in {"post", "wait", "answered"}
                             => worker'[v].member \in Member
  BY <1>2, TypeAnswer
<1> QED BY <1>3 DEF TypeOK, Decline

\* Commit keeps the types.
LEMMA TypeCommit ==
  ASSUME TypeOK, NEW r \in inflight, Commit(r), IsFiniteSet(sent)
  PROVE  TypeOK'
<1>1. /\ r \in Request /\ r.asked \in BOOLEAN /\ r.ticket \in Ticket
      /\ r.member \in Member /\ r.at \in Time /\ r.cycle \in Nat
  BY DEF TypeOK, Request
<1>2. PICK plan \in Plans(r.asked, r.ticket) :
       LET reservation == [no |-> Cardinality(sent) + 1, at |-> r.at, member |-> r.member,
                           cycle |-> r.cycle, plan |-> plan]
       IN /\ storage' = Extended(Active(r.base, r.at), reservation)
          /\ sent' = sent \cup {reservation}
          /\ ticket' = [ticket EXCEPT ![r.member] = Applied(@, plan)]
          /\ Answer(r, [kind |-> "receipt", receipt |-> DoneReceipt(r.ticket, plan, r.asked)])
  BY DEF Commit
<1> DEFINE reservation == [no |-> Cardinality(sent) + 1, at |-> r.at, member |-> r.member,
                           cycle |-> r.cycle, plan |-> plan]
<1>3. plan \in Plan
  BY <1>1, <1>2, PlansType
<1>4. reservation \in Reservation
  <2>1. Cardinality(sent) + 1 \in Nat \ {0}
    BY FS_CardinalityType
  <2> QED BY <1>1, <1>3, <2>1 DEF Reservation
<1>5. sent' \subseteq Reservation /\ storage' \subseteq sent'
  BY <1>2, <1>4 DEF TypeOK, Extended, Active, Commit, Undisturbed
<1>6. ticket' \in [Member -> Ticket]
  <2>1. Applied(ticket[r.member], plan) \in Ticket
    BY <1>1, <1>3, AppliedType DEF TypeOK
  <2> QED BY <1>2, <2>1 DEF TypeOK
<1>7. [kind |-> "receipt", receipt |-> DoneReceipt(r.ticket, plan, r.asked)] \in Answers
  BY <1>1, <1>3, ReceiptType DEF DoneReceipt
<1>8. /\ inflight' \subseteq Request
      /\ worker' \in [Worker -> Process]
      /\ \A v \in Worker : worker'[v].step \in {"post", "wait", "answered"}
                             => worker'[v].member \in Member
  BY <1>2, <1>7, TypeAnswer
<1> QED BY <1>5, <1>6, <1>8 DEF TypeOK, Commit

\* Conflict keeps the types.
LEMMA TypeConflict ==
  ASSUME TypeOK, NEW r \in inflight, Conflict(r)
  PROVE  TypeOK'
<1>1. [kind |-> "conflict"] \in Answers
  BY DEF Answers
<1>2. /\ inflight' \subseteq Request
      /\ worker' \in [Worker -> Process]
      /\ \A v \in Worker : worker'[v].step \in {"post", "wait", "answered"}
                             => worker'[v].member \in Member
  BY <1>1, TypeAnswer DEF Conflict
<1> QED BY <1>2 DEF TypeOK, Conflict

\* Lose keeps the types.
LEMMA TypeLose ==
  ASSUME TypeOK, NEW r \in inflight, Lose(r)
  PROVE  TypeOK'
  BY DEF TypeOK, Lose

\* MoveTicket keeps the types.
LEMMA TypeMoveTicket ==
  ASSUME TypeOK, NEW m \in Member, MoveTicket(m)
  PROVE  TypeOK'
<1>1. ticket' \in [Member -> Ticket]
  BY DEF TypeOK, MoveTicket, Ticket
<1> QED BY <1>1 DEF TypeOK, MoveTicket

\* Tick keeps the types.
LEMMA TypeTick ==
  ASSUME TypeOK, Tick
  PROVE  TypeOK'
  BY GateAssumption DEF TypeOK, Tick

-----------------------------------------------------------------------------
(***************************************************************************)
(* The rolling budget.                                                     *)
(***************************************************************************)
\* Notifications are finitely many and numbered, and none is dated in the future.
Numbered ==
  /\ IsFiniteSet(sent)
  /\ \A s \in sent : s.at <= now /\ s.no <= Cardinality(sent)

\* What the app's list has forgotten left the window of a notification it kept.
Forgotten ==
  \A s \in sent \ storage : \E kept \in storage : s.at + Window <= kept.at

\* A transaction is dated after all it read, and no later than now.
Snapshot ==
  \A r \in inflight : r.step = "open" => /\ r.at <= now
                                         /\ \A s \in r.base : s.at <= r.at

BudgetInv == TypeOK /\ Numbered /\ Forgotten /\ Snapshot

\* The first states satisfy the invariant: an empty list, or the old single slot.
LEMMA BudgetInvInit == Init => BudgetInv
<1> SUFFICES ASSUME Init PROVE BudgetInv
  OBVIOUS
<1>1. CASE storage = {}
  BY <1>1, TypeInit, FS_EmptySet DEF Init, BudgetInv, Numbered, Forgotten, Snapshot
<1>2. ASSUME NEW m \in Member, storage = {Slot(m)}
      PROVE  BudgetInv
  <2>1. IsFiniteSet(sent) /\ Cardinality(sent) = 1
    BY <1>2, FS_Singleton DEF Init
  <2> QED BY <1>2, <2>1, TypeInit DEF Init, BudgetInv, Numbered, Forgotten, Snapshot, Slot, Never
<1> QED BY <1>1, <1>2 DEF Init

\* A step that leaves the app's state and the requests it reads alone.
LEMMA BudgetInvQuiet ==
  ASSUME BudgetInv, TypeOK', UNCHANGED <<now, sent, storage>>,
         \A r \in inflight' : r.step = "open" => r \in inflight
  PROVE  BudgetInv'
  BY DEF BudgetInv, Numbered, Forgotten, Snapshot

\* A transaction that opens reads a list dated no later than its clock.
LEMMA BudgetInvBegin ==
  ASSUME BudgetInv, NEW r \in inflight, Begin(r)
  PROVE  BudgetInv'
<1> DEFINE opened == [r EXCEPT !.step = "open", !.at = now, !.base = storage,
                               !.ticket = ticket[r.member]]
<1>1. TypeOK'
  BY TypeBegin DEF BudgetInv
<1>2. opened.at = now /\ opened.base = storage
  BY DEF BudgetInv, TypeOK, Request
<1>3. inflight' = (inflight \ {r}) \cup {opened}
  BY DEF Begin
<1>4. now \in Nat
  BY GateAssumption DEF BudgetInv, TypeOK
<1> HIDE DEF opened
<1>5. Snapshot'
  BY <1>2, <1>3, <1>4 DEF BudgetInv, TypeOK, Begin, Snapshot, Numbered
<1> QED BY <1>1, <1>5 DEF BudgetInv, Begin, Numbered, Forgotten

Promised == INSTANCE NotificationBudget_proofs WITH released <- sent

\* The budget's own instance of FiniteSets counts as this module's does.
LEMMA SameCardinality == \A S : Promised!Cardinality(S) = Cardinality(S)
  BY DEF Promised!Cardinality, Cardinality, Promised!ExistsBijection, ExistsBijection,
         Promised!Bijection, Bijection, Promised!Injection, Injection,
         Promised!Surjection, Surjection

\* It also calls the same sets finite.
LEMMA SameFinite == \A S : Promised!IsFiniteSet(S) <=> IsFiniteSet(S)
  BY DEF Promised!IsFiniteSet, IsFiniteSet

\* What the list holds of the window at a commit is all there is.
LEMMA ActiveIsRecent ==
  ASSUME BudgetInv, NEW r \in inflight, r.step = "open", storage = r.base
  PROVE  /\ Active(storage, r.at) = Promised!Recent(r.at)
         /\ \A s \in sent : s.at <= r.at
<1>1. r.at \in Nat /\ \A s \in sent : s.at \in Nat
  BY DEF BudgetInv, TypeOK, Request, Reservation, Time
<1>2. \A s \in storage : s \in sent /\ s.at <= r.at
  BY DEF BudgetInv, Snapshot, TypeOK
<1>3. \A s \in sent \ storage : s.at + Window <= r.at
  BY <1>1, <1>2, GateAssumption DEF BudgetInv, Forgotten
<1>4. \A s \in sent : s.at <= r.at
  BY <1>1, <1>2, <1>3, GateAssumption
<1>5. \A s \in sent : r.at < s.at + Window => s \in storage
  BY <1>1, <1>3, GateAssumption
<1> QED BY <1>2, <1>4, <1>5 DEF Active, Promised!Recent

\* A committed transaction is a release of the budget, and keeps the invariant.
LEMMA CommitIsRelease ==
  ASSUME BudgetInv, NEW r \in inflight, Commit(r)
  PROVE  /\ BudgetInv'
         /\ \E n \in sent' : Promised!Release(n)
<1>1. PICK plan \in Plans(r.asked, r.ticket) :
       LET reservation == [no |-> Cardinality(sent) + 1, at |-> r.at, member |-> r.member,
                           cycle |-> r.cycle, plan |-> plan]
       IN /\ storage' = Extended(Active(r.base, r.at), reservation)
          /\ sent' = sent \cup {reservation}
  BY DEF Commit
<1> DEFINE n == [no |-> Cardinality(sent) + 1, at |-> r.at, member |-> r.member,
                 cycle |-> r.cycle, plan |-> plan]
<1>2. /\ IsFiniteSet(sent) /\ Cardinality(sent) \in Nat
      /\ \A s \in sent : s.at \in Nat /\ s.no \in Nat /\ s.no <= Cardinality(sent)
      /\ n.at = r.at /\ n.no = Cardinality(sent) + 1 /\ r.at \in Nat
      /\ r.step = "open" /\ storage = r.base /\ now \in Nat /\ r.at <= now
  BY FS_CardinalityType, GateAssumption
     DEF BudgetInv, Numbered, Snapshot, TypeOK, Reservation, Request, Time, Commit, Undisturbed
<1>3. /\ storage' = Active(storage, r.at) \cup {n}
      /\ sent' = sent \cup {n}
      /\ now' = now
      /\ Cardinality(Active(storage, r.at)) < Limit
  BY <1>1, <1>2 DEF Extended, Commit
<1> HIDE DEF n
<1>4. n \notin sent
  BY <1>2
<1>5. /\ Active(storage, r.at) = Promised!Recent(r.at)
      /\ \A s \in sent : s.at <= r.at
  BY <1>2, ActiveIsRecent
<1>6. Promised!Release(n)
  BY <1>2, <1>3, <1>4, <1>5, SameCardinality DEF Promised!Release
<1>7. TypeOK'
  BY TypeCommit DEF BudgetInv, Numbered
<1>8. Numbered'
  <2>1. IsFiniteSet(sent') /\ Cardinality(sent') = Cardinality(sent) + 1
    BY <1>2, <1>3, <1>4, FS_AddElement
  <2>2. \A s \in sent' : s.at <= now /\ s.no <= Cardinality(sent) + 1
    BY <1>2, <1>3 DEF BudgetInv, Numbered
  <2> QED BY <1>3, <2>1, <2>2 DEF Numbered
<1>9. Forgotten'
  <2> SUFFICES ASSUME NEW s \in sent', s \notin storage'
               PROVE  s.at + Window <= n.at
    BY <1>3 DEF Forgotten
  <2>1. s \in sent /\ s \notin Active(storage, r.at)
    BY <1>3
  <2>2. ~(r.at < s.at + Window)
    BY <1>5, <2>1 DEF Promised!Recent
  <2> QED BY <1>2, <2>1, <2>2, GateAssumption
<1>10. Snapshot'
  BY DEF BudgetInv, Snapshot, Commit, Answer
<1> QED BY <1>3, <1>6, <1>7, <1>8, <1>9, <1>10 DEF BudgetInv

\* Every step keeps the invariant; only Commit touches what it speaks of.
LEMMA BudgetInvStep == BudgetInv /\ [Next]_vars => BudgetInv'
<1> SUFFICES ASSUME BudgetInv, [Next]_vars
             PROVE  BudgetInv'
  OBVIOUS
<1> USE DEF BudgetInv
<1>1. ASSUME NEW w \in Worker, Cycle(w)
      PROVE  BudgetInv'
  <2>1. TypeOK'
    BY <1>1, TypeStartCycle, TypeSuppress, TypeOpenPermits, TypeDryRun, TypeChoose, TypeNoneLeft,
       TypePost, TypeTakeReceipt, TypeTakeConflict, TypeTimeout, TypeCrash DEF Cycle
  <2>2. UNCHANGED <<now, sent, storage>>
    BY <1>1 DEF Cycle, StartCycle, Suppress, OpenPermits, DryRun, Choose, NoneLeft, Post,
                TakeReceipt, TakeConflict, Timeout, Crash
  <2>3. \A r \in inflight' : r.step = "open" => r \in inflight
    <3>1. CASE Post(w)
      BY <3>1 DEF Post
    <3>2. CASE ~Post(w)
      BY <1>1, <3>2 DEF Cycle, StartCycle, Suppress, OpenPermits, DryRun, Choose, NoneLeft,
                        TakeReceipt, TakeConflict, Timeout, Crash
    <3> QED BY <3>1, <3>2
  <2> QED BY <2>1, <2>2, <2>3, BudgetInvQuiet
<1>2. ASSUME NEW r \in inflight, Handle(r)
      PROVE  BudgetInv'
  <2>1. CASE Begin(r)
    BY <2>1, BudgetInvBegin
  <2>2. CASE Commit(r)
    BY <2>2, CommitIsRelease
  <2>3. CASE Decline(r)
    BY <2>3, TypeDecline, BudgetInvQuiet DEF Decline, Answer
  <2>4. CASE Conflict(r)
    BY <2>4, TypeConflict, BudgetInvQuiet DEF Conflict, Answer
  <2>5. CASE Lose(r)
    BY <2>5, TypeLose, BudgetInvQuiet DEF Lose
  <2> QED BY <1>2, <2>1, <2>2, <2>3, <2>4, <2>5 DEF Handle
<1>3. ASSUME NEW m \in Member, MoveTicket(m)
      PROVE  BudgetInv'
  BY <1>3, TypeMoveTicket, BudgetInvQuiet DEF MoveTicket
<1>4. CASE Tick
  <2>1. now \in Nat /\ now' = now + 1 /\ UNCHANGED <<sent, storage, inflight>>
    BY <1>4, GateAssumption DEF TypeOK, Tick
  <2>2. TypeOK'
    BY <1>4, TypeTick
  <2>3. /\ \A s \in sent : s.at \in Nat
        /\ \A r \in inflight : r.at \in Nat
    BY DEF TypeOK, Reservation, Request, Time
  <2> QED BY <2>1, <2>2, <2>3 DEF Numbered, Forgotten, Snapshot
<1>5. CASE UNCHANGED vars
  BY <1>5 DEF vars, TypeOK, Numbered, Forgotten, Snapshot
<1> QED BY <1>1, <1>2, <1>3, <1>4, <1>5 DEF Next

\* The invariant holds in every behaviour of the gate.
LEMMA BudgetInvHolds == Spec => []BudgetInv
  BY BudgetInvInit, BudgetInvStep, PTL DEF Spec

\* The gate's state stays well formed.
THEOREM GateTypeOK == Spec => []TypeOK
<1>1. BudgetInv => TypeOK
  BY DEF BudgetInv
<1> QED BY <1>1, BudgetInvHolds, PTL

\* A first state of the gate is one of the budget: an empty list, or the one
\* reservation of the earlier single slot.
LEMMA InitIsStart == Init => Promised!Start
<1> SUFFICES ASSUME Init PROVE Promised!Start
  OBVIOUS
<1>1. CASE sent = {}
  BY <1>1, FS_EmptySet, SameCardinality, SameFinite DEF Init, Promised!Start
<1>2. ASSUME NEW m \in Member, sent = {Slot(m)}
      PROVE  Promised!Start
  <2>1. IsFiniteSet(sent) /\ Cardinality(sent) = 1
    BY <1>2, FS_Singleton
  <2> QED BY <1>2, <2>1, SameCardinality, SameFinite DEF Init, Promised!Start, Slot, Never
<1> QED BY <1>1, <1>2 DEF Init

\* A step of the gate is a release, the passing of time, or nothing to the budget.
LEMMA StepIsStep == BudgetInv /\ [Next]_vars => [Promised!Step]_(Promised!budgetVars)
<1> SUFFICES ASSUME BudgetInv, Next
             PROVE  [Promised!Step]_(Promised!budgetVars)
  BY DEF vars, Promised!budgetVars
<1>1. ASSUME NEW w \in Worker, Cycle(w)
      PROVE  UNCHANGED <<now, sent>>
  BY <1>1 DEF Cycle, StartCycle, Suppress, OpenPermits, DryRun, Choose, NoneLeft, Post,
              TakeReceipt, TakeConflict, Timeout, Crash
<1>2. ASSUME NEW r \in inflight, Handle(r), ~Commit(r)
      PROVE  UNCHANGED <<now, sent>>
  BY <1>2 DEF Handle, Begin, Decline, Conflict, Lose
<1>3. ASSUME NEW r \in inflight, Commit(r)
      PROVE  Promised!Step
  BY <1>3, CommitIsRelease DEF Promised!Step
<1>4. ASSUME NEW m \in Member, MoveTicket(m)
      PROVE  UNCHANGED <<now, sent>>
  BY <1>4 DEF MoveTicket
<1>5. CASE Tick
  BY <1>5 DEF Tick, Promised!Step, Promised!Pass
<1> QED BY <1>1, <1>2, <1>3, <1>4, <1>5 DEF Next, Promised!budgetVars

\* The instance of the proofs module says what the specification's says.
LEMMA SamePromise ==
  /\ Promise!Start <=> Promised!Start
  /\ [Promise!Step]_(Promise!budgetVars) <=> [Promised!Step]_(Promised!budgetVars)
  /\ RollingBudget <=> Promised!RollingBudget
  BY DEF RollingBudget, Promise!Start, Promised!Start, Promise!Step, Promised!Step,
         Promise!budgetVars, Promised!budgetVars, Promise!RollingBudget, Promised!RollingBudget,
         Promise!Release, Promised!Release, Promise!Recent, Promised!Recent,
         Promise!Pass, Promised!Pass,
         Promise!Cardinality, Promised!Cardinality, Promise!IsFiniteSet, Promised!IsFiniteSet

\* The app's list and its transactions implement the budget.
THEOREM GateKeepsBudget == Spec => KeepsBudget
<1>1. Init => Promise!Start
  BY InitIsStart, SamePromise
<1>2. BudgetInv /\ [Next]_vars => [Promise!Step]_(Promise!budgetVars)
  BY StepIsStep, SamePromise
<1> QED BY <1>1, <1>2, BudgetInvHolds, PTL DEF Spec, KeepsBudget, Promise!Budget

\* At most Limit notifications are released in any window, whatever the
\* workers, the network and the clocks do.
THEOREM GateRollingBudget == Spec => []RollingBudget
<1>1. Spec => Promised!Budget
  BY InitIsStart, StepIsStep, BudgetInvHolds, PTL DEF Spec, Promised!Budget
<1>2. Promised!Budget => []Promised!RollingBudget
  <2>1. Promised!Proper
    BY GateAssumption DEF Promised!Proper
  <2> QED BY <2>1, Promised!BudgetHolds
<1> QED BY <1>1, <1>2, SamePromise, PTL

-----------------------------------------------------------------------------
(***************************************************************************)
(* Reservations come first.                                                *)
(***************************************************************************)
\* Two registries with the same reservations.
Agreeing(a, b) == a.history = b.history /\ a.gate.cycle = b.gate.cycle

\* A process and its file: while a cycle runs, the copy has the file's
\* reservations, and a process that makes a request has reserved it in its cycle.
Fits(process, reg, c) ==
  /\ process.cycle <= c
  /\ reg.gate.cycle <= c
  /\ process.step # "idle" => /\ Agreeing(process.mem, reg)
                              /\ reg.gate.cycle <= process.cycle
  /\ process.step \in {"choose", "post", "wait", "answered"} => process.at # Never
  /\ process.step \in {"post", "wait", "answered"} =>
       /\ reg.history[process.member] # Never
       /\ reg.gate.cycle >= process.cycle

ReserveInv ==
  /\ BudgetInv
  /\ \A w \in Worker : Fits(worker[w], registry[w], cycles)
  /\ ReservedBeforeSent

\* Nothing but a reservation changes what is reserved.
LEMMA ReservationsKept ==
  ASSUME NEW reg \in Registry
  PROVE  /\ \A accounts \in SUBSET Member : Agreeing(Observe(reg, accounts), reg)
         /\ \A m, receipt : Agreeing(Confirmed(reg, m, receipt), reg)
         /\ \A status : Agreeing(Settled(reg, status), reg)
<1>1. ASSUME NEW accounts \in SUBSET Member
      PROVE  Agreeing(Observe(reg, accounts), reg)
  BY DEF Agreeing, Observe, Registry
<1>2. ASSUME NEW m, NEW receipt
      PROVE  Agreeing(Confirmed(reg, m, receipt), reg)
  BY DEF Agreeing, Confirmed, Registry
<1>3. ASSUME NEW status
      PROVE  Agreeing(Settled(reg, status), reg)
  BY DEF Agreeing, Settled, Registry
<1> QED BY <1>1, <1>2, <1>3

\* The end of a cycle reserves nothing.
LEMMA ClosedKept ==
  ASSUME NEW process \in Process
  PROVE  Agreeing(Closed(process), process.mem)
  BY DEF Agreeing, Closed, Process, Registry

\* A step of one worker that reserves no less than before.
LEMMA WorkerStep ==
  ASSUME ReserveInv, BudgetInv', cycles' \in Nat, cycles <= cycles',
         NEW w \in Worker, NEW process, NEW reg,
         Becomes(w, process), Save(w, reg), Fits(process, reg, cycles'),
         \A m \in Member : registry[w].history[m] # Never => reg.history[m] # Never,
         registry[w].gate.cycle <= reg.gate.cycle,
         reg \in Registry,
         \A r \in inflight' : \/ r \in inflight
                              \/ /\ r.worker = w
                                 /\ reg.history[r.member] # Never
                                 /\ reg.gate.cycle >= r.cycle
  PROVE  ReserveInv'
<1>1. /\ worker \in [Worker -> Process] /\ registry \in [Worker -> Registry]
      /\ cycles \in Nat /\ inflight \subseteq Request
  BY DEF ReserveInv, BudgetInv, TypeOK
<1>2. /\ worker'[w] = process /\ registry'[w] = reg
      /\ \A v \in Worker \ {w} : worker'[v] = worker[v] /\ registry'[v] = registry[v]
  BY <1>1 DEF Becomes, Save
<1>3. \A v \in Worker : worker[v].cycle \in Nat /\ registry[v].gate.cycle \in Nat
  BY <1>1 DEF Process, Registry
<1>4. ASSUME NEW v \in Worker
      PROVE  Fits(worker'[v], registry'[v], cycles')
  <2>1. CASE v = w
    BY <2>1, <1>2
  <2>2. CASE v # w
    <3>1. Fits(worker[v], registry[v], cycles)
      BY DEF ReserveInv
    <3> QED BY <3>1, <2>2, <1>1, <1>2, <1>3 DEF Fits
  <2> QED BY <2>1, <2>2
<1>5. ASSUME NEW r \in inflight'
      PROVE  /\ registry'[r.worker].history[r.member] # Never
             /\ registry'[r.worker].gate.cycle >= r.cycle
  <2>1. CASE r \in inflight
    <3>1. /\ r.worker \in Worker /\ r.member \in Member /\ r.cycle \in Nat
          /\ registry[r.worker].history[r.member] # Never
          /\ registry[r.worker].gate.cycle >= r.cycle
      BY <1>1, <2>1 DEF ReserveInv, ReservedBeforeSent, Request
    <3>2. CASE r.worker = w
      <4>1. reg.gate.cycle \in Nat /\ registry[w].gate.cycle \in Nat
        BY <1>3 DEF Registry
      <4> QED BY <3>1, <3>2, <4>1, <1>2
    <3>3. CASE r.worker # w
      BY <3>1, <3>3, <1>2
    <3> QED BY <3>2, <3>3
  <2>2. CASE r \notin inflight
    BY <2>2, <1>2
  <2> QED BY <2>1, <2>2
<1> QED BY <1>4, <1>5 DEF ReserveInv, ReservedBeforeSent

\* A step of one worker that reserves nothing.
LEMMA WorkerKeeps ==
  ASSUME ReserveInv, BudgetInv', cycles' \in Nat, cycles <= cycles',
         NEW w \in Worker, NEW process, NEW reg,
         Becomes(w, process), Save(w, reg), Fits(process, reg, cycles'),
         Agreeing(reg, registry[w]), reg \in Registry, UNCHANGED inflight
  PROVE  ReserveInv'
<1>1. registry[w].gate.cycle \in Nat
  BY DEF ReserveInv, BudgetInv, TypeOK, Registry
<1>2. /\ \A m \in Member : registry[w].history[m] # Never => reg.history[m] # Never
      /\ registry[w].gate.cycle <= reg.gate.cycle
  BY <1>1 DEF Agreeing
<1> QED BY <1>2, WorkerStep

\* A cycle that ends, normally or not.
LEMMA FinishKeeps ==
  ASSUME ReserveInv, BudgetInv', UNCHANGED <<cycles, inflight>>,
         NEW w \in Worker, NEW process \in Process, Finish(w, process),
         Agreeing(process.mem, registry[w])
  PROVE  ReserveInv'
<1>1. Agreeing(Closed(process), registry[w]) /\ Closed(process) \in Registry
  BY ClosedKept, ClosedType DEF Agreeing
<1>2. Fits(worker[w], registry[w], cycles) /\ cycles \in Nat
  BY DEF ReserveInv, BudgetInv, TypeOK
<1>3. Fits(Idle, Closed(process), cycles)
  BY <1>1, <1>2 DEF Fits, Agreeing, Idle
<1> QED BY <1>1, <1>2, <1>3, WorkerKeeps DEF Finish

\* A step that leaves the file alone.
LEMMA FileKept ==
  ASSUME ReserveInv, BudgetInv', cycles' \in Nat, cycles <= cycles',
         NEW w \in Worker, NEW process,
         Becomes(w, process), UNCHANGED <<registry, inflight>>,
         Fits(process, registry[w], cycles')
  PROVE  ReserveInv'
<1>1. Save(w, registry[w]) /\ registry[w] \in Registry
  BY DEF ReserveInv, BudgetInv, TypeOK, Save
<1> QED BY <1>1, WorkerKeeps DEF Agreeing

\* At first no worker has asked for anything.
LEMMA ReserveInvInit == Init => ReserveInv
<1> SUFFICES ASSUME Init PROVE ReserveInv
  OBVIOUS
<1>1. ASSUME NEW w \in Worker
      PROVE  Fits(worker[w], registry[w], cycles)
  <2>1. worker[w] = Idle /\ cycles = 0 /\ registry[w] \in {Fresh, Baselined}
    BY DEF Init
  <2>2. Fresh.gate.cycle = 0 /\ Baselined.gate.cycle = 0
    BY DEF Fresh, Baselined, NoGate
  <2>3. Idle.step = "idle" /\ Idle.cycle = 0
    BY DEF Idle
  <2> QED BY <2>1, <2>2, <2>3 DEF Fits
<1> QED BY <1>1, BudgetInvInit DEF Init, ReserveInv, ReservedBeforeSent

\* A cycle starts from the file's reservations, under a number of its own.
LEMMA ReserveStartCycle ==
  ASSUME ReserveInv, BudgetInv', NEW w \in Worker, StartCycle(w)
  PROVE  ReserveInv'
<1>1. PICK accounts \in SUBSET Member :
        Becomes(w, [Idle EXCEPT !.step = "suppress", !.cycle = cycles',
                                !.mem = Observe(registry[w], accounts), !.todo = accounts])
  BY DEF StartCycle
<1> DEFINE process == [Idle EXCEPT !.step = "suppress", !.cycle = cycles',
                                   !.mem = Observe(registry[w], accounts), !.todo = accounts]
<1>2. cycles' = cycles + 1 /\ cycles \in Nat /\ registry[w].gate.cycle \in Nat
  BY DEF ReserveInv, BudgetInv, TypeOK, Registry, StartCycle
<1>3. Agreeing(Observe(registry[w], accounts), registry[w])
  BY ReservationsKept DEF ReserveInv, BudgetInv, TypeOK
<1>4. Fits(worker[w], registry[w], cycles)
  BY DEF ReserveInv
<1>5. process.step = "suppress" /\ process.cycle = cycles' /\ process.mem = Observe(registry[w], accounts)
  BY DEF Idle
<1>6. Fits(process, registry[w], cycles')
  <2> HIDE DEF process
  <2> QED BY <1>2, <1>3, <1>4, <1>5 DEF Fits
<1> QED BY <1>1, <1>2, <1>6, FileKept DEF StartCycle

\* The suppress pass changes onboarding, never a reservation.
LEMMA ReserveSuppress ==
  ASSUME ReserveInv, BudgetInv', NEW w \in Worker, NEW m \in Member, Suppress(w, m)
  PROVE  ReserveInv'
<1> DEFINE process == [worker[w] EXCEPT !.todo = @ \ {m}]
<1>1. /\ worker[w] \in Process /\ worker[w].step = "suppress" /\ cycles \in Nat
      /\ Fits(worker[w], registry[w], cycles)
  BY DEF ReserveInv, BudgetInv, TypeOK, Suppress
<1>2. /\ process.step = "suppress" /\ process.cycle = worker[w].cycle
      /\ process.mem = worker[w].mem /\ process.mem \in Registry
  BY <1>1 DEF Process
<1>3. process \in Process
  BY <1>1 DEF Process
<1>4. \E next : /\ Becomes(w, next)
                /\ next.step = "suppress" /\ next.cycle = process.cycle
                /\ Agreeing(next.mem, process.mem)
  <2>1. ASSUME NEW plan, NEW receipt,
               Becomes(w, [process EXCEPT
                    !.mem = Confirmed(@, m, receipt),
                    !.found = IF receipt.required THEN @ \cup {[member |-> m, plan |-> plan]}
                              ELSE @])
        PROVE  \E next : /\ Becomes(w, next)
                         /\ next.step = "suppress" /\ next.cycle = process.cycle
                         /\ Agreeing(next.mem, process.mem)
    <3> DEFINE next == [process EXCEPT
                    !.mem = Confirmed(@, m, receipt),
                    !.found = IF receipt.required THEN @ \cup {[member |-> m, plan |-> plan]}
                              ELSE @]
    <3>1. Becomes(w, next)
      BY <2>1
    <3>2. /\ next.step = "suppress" /\ next.cycle = process.cycle
          /\ next.mem = Confirmed(process.mem, m, receipt)
      <4> HIDE DEF process
      <4> QED BY <1>2, <1>3 DEF Process
    <3>3. Agreeing(Confirmed(process.mem, m, receipt), process.mem)
      BY <1>2, ReservationsKept
    <3> HIDE DEF next, process
    <3> QED BY <3>1, <3>2, <3>3
  <2>2. CASE Becomes(w, process)
    BY <1>2, <2>2 DEF Agreeing
  <2>3. CASE Becomes(w, [process EXCEPT !.errors = TRUE])
    <3> DEFINE next == [process EXCEPT !.errors = TRUE]
    <3>1. next.step = "suppress" /\ next.cycle = process.cycle /\ next.mem = process.mem
      <4> HIDE DEF process
      <4> QED BY <1>2, <1>3 DEF Process
    <3> HIDE DEF next, process
    <3> QED BY <2>3, <3>1 DEF Agreeing, next
  <2>4. CASE Becomes(w, [process EXCEPT !.errors = TRUE, !.refused = TRUE])
    <3> DEFINE next == [process EXCEPT !.errors = TRUE, !.refused = TRUE]
    <3>1. next.step = "suppress" /\ next.cycle = process.cycle /\ next.mem = process.mem
      <4> HIDE DEF process
      <4> QED BY <1>2, <1>3 DEF Process
    <3> HIDE DEF next, process
    <3> QED BY <2>4, <3>1 DEF Agreeing, next
  <2> QED BY <2>1, <2>2, <2>3, <2>4 DEF Suppress
<1>5. PICK next : /\ Becomes(w, next)
                  /\ next.step = "suppress" /\ next.cycle = process.cycle
                  /\ Agreeing(next.mem, process.mem)
  BY <1>4
<1>6. Fits(next, registry[w], cycles)
  BY <1>1, <1>2, <1>5 DEF Fits, Agreeing
<1>7. cycles' = cycles /\ UNCHANGED <<registry, inflight>>
  BY DEF Suppress
<1> HIDE DEF process
<1> QED BY <1>1, <1>5, <1>6, <1>7, FileKept

\* Opening the permits fixes the time the reservations will carry.
LEMMA ReserveOpenPermits ==
  ASSUME ReserveInv, BudgetInv', NEW w \in Worker, OpenPermits(w)
  PROVE  ReserveInv'
<1> DEFINE process == worker[w]
<1>1. /\ process \in Process /\ process.step = "suppress" /\ cycles \in Nat
      /\ now \in 0..MaxTime /\ Fits(process, registry[w], cycles)
  BY DEF ReserveInv, BudgetInv, TypeOK, OpenPermits
<1>2. PICK t \in Reading[now] :
       IF FromTheFuture(process.mem, t)
       THEN Becomes(w, Idle) /\ UNCHANGED registry
       ELSE LET free == {c \in process.found : MemberAvailable(process.mem, c.member, t)}
            IN IF process.errors \/ free = {} \/ Remaining(process.mem, t) = 0
               THEN Finish(w, process)
               ELSE /\ Becomes(w, [process EXCEPT !.step = "choose", !.found = free, !.at = t,
                                                  !.left = Remaining(process.mem, t)])
                    /\ UNCHANGED registry
  BY DEF OpenPermits
<1> DEFINE free == {c \in process.found : MemberAvailable(process.mem, c.member, t)}
           next == [process EXCEPT !.step = "choose", !.found = free, !.at = t,
                                   !.left = Remaining(process.mem, t)]
<1>3. t # Never
  BY <1>1, GateAssumption DEF Never
<1>4. CASE Becomes(w, Idle) /\ UNCHANGED registry
  <2>1. Fits(Idle, registry[w], cycles)
    BY <1>1 DEF Fits, Idle
  <2> QED BY <1>1, <1>4, <2>1, FileKept DEF OpenPermits
<1>5. CASE Finish(w, process)
  <2>1. Agreeing(process.mem, registry[w])
    BY <1>1 DEF Fits
  <2> QED BY <1>1, <1>5, <2>1, FinishKeeps DEF OpenPermits
<1>6. CASE Becomes(w, next) /\ UNCHANGED registry
  <2>1. /\ next.step = "choose" /\ next.at = t
        /\ next.cycle = process.cycle /\ next.mem = process.mem
    BY <1>1 DEF Process
  <2> HIDE DEF next
  <2>2. Fits(next, registry[w], cycles)
    BY <1>1, <1>3, <2>1 DEF Fits
  <2> QED BY <1>1, <1>6, <2>2, FileKept DEF OpenPermits
<1> QED BY <1>2, <1>4, <1>5, <1>6

\* The chosen member is reserved in the file before the request exists.
LEMMA ReserveChoose ==
  ASSUME ReserveInv, BudgetInv', NEW w \in Worker, Choose(w)
  PROVE  ReserveInv'
<1> DEFINE process == worker[w]
<1>1. /\ process \in Process /\ process.step = "choose" /\ cycles \in Nat
      /\ process.mem \in Registry /\ process.cycle \in Nat /\ process.at \in Time
      /\ registry[w] \in Registry /\ Fits(process, registry[w], cycles)
  BY DEF ReserveInv, BudgetInv, TypeOK, Process, Choose
<1>2. PICK c \in process.found :
        LET reg == Reserve(process.mem, c.member, process.cycle, process.at) IN
        /\ SavedFirst(w, reg)
        /\ Becomes(w, [process EXCEPT !.step = "post", !.mem = reg, !.found = @ \ {c},
                                      !.left = @ - 1, !.member = c.member, !.retries = 0])
  BY DEF Choose
<1> DEFINE reg == Reserve(process.mem, c.member, process.cycle, process.at)
           next == [process EXCEPT !.step = "post", !.mem = reg, !.found = @ \ {c},
                                   !.left = @ - 1, !.member = c.member, !.retries = 0]
<1>3. c.member \in Member
  BY <1>1, <1>2 DEF Process
<1>4. /\ reg \in Registry /\ reg.gate.cycle = process.cycle
      /\ reg.history = [process.mem.history EXCEPT ![c.member] = process.at]
  BY <1>1, <1>3, ReserveType DEF Reserve, Registry
<1>5. /\ next.step = "post" /\ next.mem = reg /\ next.cycle = process.cycle
      /\ next.member = c.member /\ next.at = process.at
  <2> HIDE DEF process, reg
  <2> QED BY <1>1 DEF Process
<1>6. process.at # Never /\ process.mem.history = registry[w].history
  BY <1>1 DEF Fits, Agreeing
<1>7. process.mem.history \in [Member -> Time]
  BY <1>1 DEF Registry
<1>8. Save(w, reg) /\ Becomes(w, next)
  BY <1>2 DEF SavedFirst
<1> HIDE DEF next, reg
<1>9. \A m \in Member : registry[w].history[m] # Never => reg.history[m] # Never
  BY <1>3, <1>4, <1>6, <1>7
<1>10. registry[w].gate.cycle <= reg.gate.cycle
  BY <1>1, <1>4 DEF Fits
<1>11. Fits(next, reg, cycles)
  BY <1>1, <1>3, <1>4, <1>5, <1>6, <1>7 DEF Fits, Agreeing
<1>12. cycles' = cycles /\ inflight' = inflight
  BY DEF Choose
<1>13. cycles' \in Nat /\ cycles <= cycles' /\ Fits(next, reg, cycles')
  BY <1>1, <1>11, <1>12
<1>14. \A r \in inflight' : r \in inflight
  BY <1>12
<1> HIDE DEF process
<1> QED BY <1>4, <1>8, <1>9, <1>10, <1>13, <1>14, WorkerStep

\* A request leaves for the member its worker reserved.
LEMMA ReservePost ==
  ASSUME ReserveInv, BudgetInv', NEW w \in Worker, Post(w)
  PROVE  ReserveInv'
<1> DEFINE process == worker[w]
           next == [process EXCEPT !.step = "wait"]
           request == [worker |-> w, member |-> process.member,
                       cycle |-> process.cycle, asked |-> Asked(w, process.member),
                       step |-> "sent", at |-> Never, base |-> {}, ticket |-> "none"]
<1>1. /\ process \in Process /\ process.step = "post" /\ cycles \in Nat
      /\ registry[w] \in Registry /\ Fits(process, registry[w], cycles)
  BY DEF ReserveInv, BudgetInv, TypeOK, Post
<1>2. /\ next.step = "wait" /\ next.mem = process.mem /\ next.cycle = process.cycle
      /\ next.member = process.member /\ next.at = process.at
  BY <1>1 DEF Process
<1>3. request.worker = w /\ request.member = process.member /\ request.cycle = process.cycle
  OBVIOUS
<1>4. /\ Becomes(w, next) /\ inflight' = inflight \cup {request}
      /\ UNCHANGED <<cycles, registry>>
  BY DEF Post
<1>5. Save(w, registry[w]) /\ registry[w].gate.cycle \in Nat
  BY <1>1, <1>4 DEF Save, ReserveInv, BudgetInv, TypeOK, Registry
<1> HIDE DEF next, request
<1>6. Fits(next, registry[w], cycles)
  BY <1>1, <1>2 DEF Fits
<1>7. /\ registry[w].history[request.member] # Never
      /\ registry[w].gate.cycle >= request.cycle
  BY <1>1, <1>3 DEF Fits
<1>8. \A r \in inflight' : \/ r \in inflight
                           \/ /\ r.worker = w
                              /\ registry[w].history[r.member] # Never
                              /\ registry[w].gate.cycle >= r.cycle
  BY <1>3, <1>4, <1>7
<1> QED BY <1>1, <1>4, <1>5, <1>6, <1>8, WorkerStep

\* A cycle that ends with the copy it holds.
LEMMA ReserveFinish ==
  ASSUME ReserveInv, BudgetInv', NEW w \in Worker, UNCHANGED <<cycles, inflight>>,
         worker[w].step # "idle",
         Finish(w, worker[w]) \/ Finish(w, [worker[w] EXCEPT !.errors = TRUE])
  PROVE  ReserveInv'
<1> DEFINE failed == [worker[w] EXCEPT !.errors = TRUE]
<1>1. worker[w] \in Process /\ Agreeing(worker[w].mem, registry[w])
  BY DEF ReserveInv, BudgetInv, TypeOK, Fits
<1>2. failed \in Process /\ failed.mem = worker[w].mem
  BY <1>1 DEF Process
<1>3. CASE Finish(w, worker[w])
  BY <1>1, <1>3, FinishKeeps
<1>4. CASE Finish(w, failed)
  <2> HIDE DEF failed
  <2> QED BY <1>1, <1>2, <1>4, FinishKeeps
<1> QED BY <1>3, <1>4

\* An answer settles the gate and leaves the reservation in the file.
LEMMA ReserveTakeReceipt ==
  ASSUME ReserveInv, BudgetInv', NEW w \in Worker, TakeReceipt(w)
  PROVE  ReserveInv'
<1> DEFINE process == worker[w]
           receipt == process.answer.receipt
           status == IF receipt.reserved THEN "confirmed"
                     ELSE IF receipt.result = "deferred" THEN "server-budget-exhausted"
                     ELSE "no-longer-required"
           kept == Confirmed(process.mem, process.member, receipt)
           reg == Settled(kept, status)
           settled == [process EXCEPT !.step = "choose", !.mem = reg, !.answer = NoAnswer]
<1>1. /\ process \in Process /\ process.mem \in Registry /\ process.step = "answered"
      /\ cycles \in Nat /\ Fits(process, registry[w], cycles)
  BY DEF ReserveInv, BudgetInv, TypeOK, Process, TakeReceipt
<1>2. kept \in Registry /\ Agreeing(kept, process.mem)
  BY <1>1, ConfirmedType, ReservationsKept
<1>3. reg \in Registry /\ Agreeing(reg, kept)
  <2> HIDE DEF kept
  <2> QED BY <1>2, SettledType, ReservationsKept
<1>4. Agreeing(reg, registry[w])
  BY <1>1, <1>2, <1>3 DEF Agreeing, Fits
<1>5. /\ settled \in Process /\ settled.step = "choose" /\ settled.mem = reg
      /\ settled.cycle = process.cycle /\ settled.at = process.at
  <2> HIDE DEF process, reg
  <2> QED BY <1>1, <1>3 DEF Process, NoAnswer, Answers
<1>6. \/ Finish(w, [process EXCEPT !.errors = TRUE])
      \/ Finish(w, settled)
      \/ Save(w, reg) /\ Becomes(w, settled)
  BY DEF TakeReceipt
<1>7. cycles' = cycles /\ UNCHANGED <<cycles, inflight>>
  BY DEF TakeReceipt
<1> HIDE DEF settled, reg
<1>8. CASE Finish(w, [process EXCEPT !.errors = TRUE])
  BY <1>1, <1>7, <1>8, ReserveFinish
<1>9. CASE Finish(w, settled)
  BY <1>4, <1>5, <1>7, <1>9, FinishKeeps
<1>10. CASE Save(w, reg) /\ Becomes(w, settled)
  <2>1. Fits(settled, reg, cycles')
    BY <1>1, <1>4, <1>5, <1>7 DEF Fits, Agreeing
  <2>2. cycles' \in Nat /\ cycles <= cycles'
    BY <1>1, <1>7
  <2> QED BY <1>3, <1>4, <1>7, <1>10, <2>1, <2>2, WorkerKeeps
<1> QED BY <1>6, <1>8, <1>9, <1>10

\* A conflict repeats the request under the same reservation.
LEMMA ReserveTakeConflict ==
  ASSUME ReserveInv, BudgetInv', NEW w \in Worker, TakeConflict(w)
  PROVE  ReserveInv'
<1> DEFINE process == worker[w]
           next == [process EXCEPT !.step = "post", !.retries = @ + 1, !.answer = NoAnswer]
<1>1. /\ process \in Process /\ process.step = "answered" /\ cycles \in Nat
      /\ Fits(process, registry[w], cycles)
  BY DEF ReserveInv, BudgetInv, TypeOK, TakeConflict
<1>2. /\ next.step = "post" /\ next.mem = process.mem /\ next.cycle = process.cycle
      /\ next.at = process.at /\ next.member = process.member
  <2> HIDE DEF process
  <2> QED BY <1>1 DEF Process
<1>3. cycles' = cycles /\ UNCHANGED <<cycles, inflight>>
  BY DEF TakeConflict
<1>4. \/ Finish(w, [process EXCEPT !.errors = TRUE])
      \/ Becomes(w, next) /\ UNCHANGED registry
  BY DEF TakeConflict
<1> HIDE DEF next
<1>5. CASE Finish(w, [process EXCEPT !.errors = TRUE])
  BY <1>1, <1>3, <1>5, ReserveFinish
<1>6. CASE Becomes(w, next) /\ UNCHANGED registry
  <2>1. Fits(next, registry[w], cycles')
    BY <1>1, <1>2, <1>3 DEF Fits
  <2>2. cycles' \in Nat /\ cycles <= cycles' /\ UNCHANGED <<registry, inflight>>
    BY <1>1, <1>3, <1>6
  <2> QED BY <1>6, <2>1, <2>2, FileKept
<1> QED BY <1>4, <1>5, <1>6

\* A process that dies leaves its file behind.
LEMMA ReserveCrash ==
  ASSUME ReserveInv, BudgetInv', NEW w \in Worker, Crash(w)
  PROVE  ReserveInv'
<1>1. cycles' = cycles /\ cycles \in Nat /\ UNCHANGED <<registry, inflight>> /\ Becomes(w, Idle)
  BY DEF ReserveInv, BudgetInv, TypeOK, Crash
<1>2. Fits(worker[w], registry[w], cycles)
  BY DEF ReserveInv
<1>3. Fits(Idle, registry[w], cycles')
  BY <1>1, <1>2 DEF Fits, Idle
<1> QED BY <1>1, <1>3, FileKept

\* A step of the app that answers a request: the worker that waits takes note.
LEMMA ReserveAnswer ==
  ASSUME ReserveInv, BudgetInv', NEW r \in inflight, NEW answer, Answer(r, answer),
         UNCHANGED <<registry, cycles>>
  PROVE  ReserveInv'
<1> DEFINE w == r.worker
           process == worker[w]
           taken == [process EXCEPT !.step = "answered", !.answer = answer]
<1>1. /\ w \in Worker /\ worker \in [Worker -> Process] /\ process \in Process
      /\ \A v \in Worker : Fits(worker[v], registry[v], cycles)
  BY DEF ReserveInv, BudgetInv, TypeOK, Request
<1>2. \A v \in Worker \ {w} : worker'[v] = worker[v]
  BY <1>1 DEF Answer
<1>3. worker'[w] = IF process.step = "wait" /\ process.cycle = r.cycle /\ process.member = r.member
                   THEN taken ELSE process
  BY <1>1 DEF Answer
<1>4. /\ taken.step = "answered" /\ taken.mem = process.mem /\ taken.cycle = process.cycle
      /\ taken.at = process.at /\ taken.member = process.member
  <2> HIDE DEF process
  <2> QED BY <1>1 DEF Process
<1> HIDE DEF taken
<1>5. process.step = "wait" => Fits(taken, registry[w], cycles)
  BY <1>1, <1>4 DEF Fits
<1>6. \A v \in Worker : Fits(worker'[v], registry[v], cycles)
  BY <1>1, <1>2, <1>3, <1>5
<1>7. registry' = registry /\ cycles' = cycles /\ inflight' \subseteq inflight
  BY DEF Answer
<1> QED BY <1>6, <1>7 DEF ReserveInv, ReservedBeforeSent

\* The app opens the request it was sent.
LEMMA ReserveBegin ==
  ASSUME ReserveInv, BudgetInv', NEW r \in inflight, Begin(r)
  PROVE  ReserveInv'
<1> DEFINE opened == [r EXCEPT !.step = "open", !.at = now, !.base = storage,
                               !.ticket = ticket[r.member]]
<1>1. opened.worker = r.worker /\ opened.member = r.member /\ opened.cycle = r.cycle
  BY DEF ReserveInv, BudgetInv, TypeOK, Request
<1>2. inflight' = (inflight \ {r}) \cup {opened} /\ UNCHANGED <<worker, registry, cycles>>
  BY DEF Begin
<1> HIDE DEF opened
<1> QED BY <1>1, <1>2 DEF ReserveInv, ReservedBeforeSent

\* A step that touches neither a process nor a file, and makes no request.
LEMMA ReserveQuiet ==
  ASSUME ReserveInv, BudgetInv', UNCHANGED <<worker, registry, cycles>>, inflight' \subseteq inflight
  PROVE  ReserveInv'
  BY DEF ReserveInv, ReservedBeforeSent

\* Every step keeps the invariant: Choose writes the file, and only then Post asks.
LEMMA ReserveInvStep == ReserveInv /\ [Next]_vars => ReserveInv'
<1> SUFFICES ASSUME ReserveInv, [Next]_vars
             PROVE  ReserveInv'
  OBVIOUS
<1>1. BudgetInv'
  BY BudgetInvStep DEF ReserveInv
<1>2. ASSUME NEW w \in Worker, Cycle(w)
      PROVE  ReserveInv'
  <2>1. ASSUME DryRun(w) \/ NoneLeft(w) \/ Timeout(w)
        PROVE  ReserveInv'
    BY <1>1, <2>1, ReserveFinish DEF DryRun, NoneLeft, Timeout, Ambiguous
  <2> QED BY <1>1, <1>2, <2>1, ReserveStartCycle, ReserveSuppress, ReserveOpenPermits,
             ReserveChoose, ReservePost, ReserveTakeReceipt, ReserveTakeConflict, ReserveCrash
             DEF Cycle
<1>3. ASSUME NEW r \in inflight, Handle(r)
      PROVE  ReserveInv'
  <2>1. CASE Begin(r)
    BY <1>1, <2>1, ReserveBegin
  <2>2. CASE Decline(r)
    BY <1>1, <2>2, ReserveAnswer DEF Decline
  <2>3. CASE Commit(r)
    BY <1>1, <2>3, ReserveAnswer DEF Commit
  <2>4. CASE Conflict(r)
    BY <1>1, <2>4, ReserveAnswer DEF Conflict
  <2>5. CASE Lose(r)
    BY <1>1, <2>5, ReserveQuiet DEF Lose
  <2> QED BY <1>3, <2>1, <2>2, <2>3, <2>4, <2>5 DEF Handle
<1>4. ASSUME NEW m \in Member, MoveTicket(m)
      PROVE  ReserveInv'
  BY <1>1, <1>4, ReserveQuiet DEF MoveTicket
<1>5. CASE Tick
  BY <1>1, <1>5, ReserveQuiet DEF Tick
<1>6. CASE UNCHANGED vars
  BY <1>1, <1>6, ReserveQuiet DEF vars
<1> QED BY <1>2, <1>3, <1>4, <1>5, <1>6 DEF Next

\* A request for a notification is on its way only if the registry file of its
\* worker holds the reservation, so a worker that dies forgets none it used.
THEOREM GateReservedBeforeSent == Spec => []ReservedBeforeSent
<1>1. ReserveInv => ReservedBeforeSent
  BY DEF ReserveInv
<1> QED BY <1>1, ReserveInvInit, ReserveInvStep, PTL DEF Spec

-----------------------------------------------------------------------------
(***************************************************************************)
(* A worker keeps its own rules by its own clock, whatever that clock      *)
(* reads and however often it is restarted: its attempts for one member    *)
(* are a window apart, and at most Limit fall into any window.             *)
(***************************************************************************)
\* The steps of a cycle after its budget was counted.
Asking == {"choose", "post", "wait", "answered"}

\* The file remembers every attempt, or a later one for the same member.
Remembered ==
  \A a \in attempts : a.at # Never /\ a.at <= registry[a.worker].history[a.member]

AttemptInv == ReserveInv /\ Remembered /\ AttemptsApart /\ AttemptsBudget

-----------------------------------------------------------------------------
\* The attempts of a worker that count at a time of its clock.
Counted(w, t) == {b \in attempts : b.worker = w /\ b.at <= t /\ t < b.at + Window}

\* The types this module needs.
LEMMA AttemptTypes ==
  ASSUME AttemptInv
  PROVE  /\ worker \in [Worker -> Process] /\ registry \in [Worker -> Registry]
         /\ attempts \subseteq Attempt
         /\ \A w \in Worker : /\ registry[w].history \in [Member -> Nat]
                              /\ worker[w].mem.history \in [Member -> Nat]
                              /\ worker[w].at \in Nat /\ worker[w].cycle \in Nat
                              /\ worker[w].step # "idle" =>
                                   worker[w].mem.history = registry[w].history
         /\ \A a \in attempts : a.worker \in Worker /\ a.member \in Member /\ a.at \in Nat
<1>1. TypeOK /\ \A w \in Worker : Fits(worker[w], registry[w], cycles)
  BY DEF AttemptInv, ReserveInv, BudgetInv
<1>2. \A w \in Worker : /\ worker[w] \in Process /\ registry[w] \in Registry
  BY <1>1 DEF TypeOK
<1> QED BY <1>1, <1>2 DEF TypeOK, Fits, Agreeing, Process, Registry, Attempt, Time

\* What a worker counts in its file at a time is at least what it attempted in any
\* window that ends then or later: its clock may have been ahead.
LEMMA CountedInWindow ==
  ASSUME AttemptInv, NEW w \in Worker, worker[w].step \in Asking,
         NEW u \in Nat, worker[w].at <= u
  PROVE  LET t == worker[w].at IN
         /\ IsFiniteSet(Counted(w, u))
         /\ IsFiniteSet(InWindow(worker[w].mem, t))
         /\ Cardinality(Counted(w, u)) <= Cardinality(InWindow(worker[w].mem, t))
<1> DEFINE t == worker[w].at
           S == Counted(w, u)
           T == InWindow(worker[w].mem, t)
           f == [b \in S |-> b.member]
<1>1. /\ t \in Nat /\ worker[w].mem.history \in [Member -> Nat]
      /\ worker[w].mem.history = registry[w].history
  BY AttemptTypes DEF Asking
<1>2. IsFiniteSet(T)
  BY GateAssumption, FS_Subset DEF InWindow, Reserved
<1>3. ASSUME NEW b \in S
      PROVE  b.member \in T
  <2>1. /\ b \in attempts /\ b.worker = w /\ b.member \in Member /\ b.at \in Nat
        /\ u < b.at + Window
    BY AttemptTypes DEF Counted
  <2>2. b.at # Never /\ b.at <= worker[w].mem.history[b.member]
    BY <1>1, <2>1 DEF AttemptInv, Remembered
  <2>3. worker[w].mem.history[b.member] \in Nat
    BY <1>1, <2>1
  <2> QED BY <1>1, <2>1, <2>2, <2>3, GateAssumption DEF InWindow, Reserved, Never
<1>4. ASSUME NEW a \in S, NEW b \in S, a.member = b.member
      PROVE  a = b
  <2>1. /\ a \in attempts /\ b \in attempts /\ a.worker = b.worker
        /\ a.at \in Nat /\ b.at \in Nat
        /\ a.at <= u /\ b.at <= u /\ u < a.at + Window /\ u < b.at + Window
    BY AttemptTypes DEF Counted
  <2>2. ~(a.at + Window <= b.at \/ b.at + Window <= a.at)
    BY <1>1, <2>1, GateAssumption
  <2> QED BY <1>4, <2>1, <2>2 DEF AttemptInv, AttemptsApart
<1>5. f \in Injection(S, T)
  BY <1>3, <1>4 DEF Injection, IsInjective
<1> HIDE DEF S, T, f
<1>6. IsFiniteSet(S) /\ Cardinality(S) <= Cardinality(T)
  BY <1>2, <1>5, FS_Injection
<1> QED BY <1>2, <1>6 DEF S, T

-----------------------------------------------------------------------------
\* What Choose does to the file and the attempts.
LEMMA Chosen ==
  ASSUME AttemptInv, NEW w \in Worker, Choose(w)
  PROVE  LET t == worker[w].at IN
         /\ worker[w].step = "choose"
         /\ Cardinality(InWindow(worker[w].mem, t)) < Limit
         /\ worker'[w].at = t
         /\ \A v \in Worker \ {w} : worker'[v] = worker[v] /\ registry'[v] = registry[v]
         /\ \E m \in Member :
              /\ registry[w].history[m] = Never \/ registry[w].history[m] + Window <= t
              /\ registry'[w].history = [registry[w].history EXCEPT ![m] = t]
              /\ attempts' = attempts \cup {[worker |-> w, member |-> m,
                                             cycle |-> worker[w].cycle, at |-> t]}
<1> DEFINE process == worker[w]
           t == process.at
<1>1. /\ process \in Process /\ process.step = "choose" /\ process.mem \in Registry
      /\ worker \in [Worker -> Process] /\ registry \in [Worker -> Registry]
      /\ process.cycle \in Nat /\ t \in Nat
      /\ process.mem.history = registry[w].history
  BY AttemptTypes DEF Choose, Process
<1>2. PICK c \in process.found :
        LET reg == Reserve(process.mem, c.member, process.cycle, process.at) IN
        /\ Remaining(process.mem, process.at) > 0
        /\ MemberAvailable(process.mem, c.member, process.at)
        /\ SavedFirst(w, reg)
        /\ attempts' = attempts \cup {[worker |-> w, member |-> c.member, cycle |-> process.cycle,
                                       at |-> process.at]}
        /\ Becomes(w, [process EXCEPT !.step = "post", !.mem = reg, !.found = @ \ {c},
                                      !.left = @ - 1, !.member = c.member, !.retries = 0])
  BY DEF Choose
<1> DEFINE reg == Reserve(process.mem, c.member, process.cycle, process.at)
           next == [process EXCEPT !.step = "post", !.mem = reg, !.found = @ \ {c},
                                   !.left = @ - 1, !.member = c.member, !.retries = 0]
<1>3. c.member \in Member
  BY <1>1, <1>2 DEF Process
<1>4. Cardinality(InWindow(process.mem, t)) < Limit
  <2>1. IsFiniteSet(InWindow(process.mem, t))
    BY GateAssumption, FS_Subset DEF InWindow, Reserved
  <2>2. Cardinality(InWindow(process.mem, t)) \in Nat
    BY <2>1, FS_CardinalityType
  <2> QED BY <1>2, <2>2, GateAssumption DEF Remaining
<1>5. reg.history = [process.mem.history EXCEPT ![c.member] = t]
  BY <1>1 DEF Reserve, Registry
<1>6. next.at = t
  <2> HIDE DEF reg
  <2> QED BY <1>1 DEF Process
<1>7. Save(w, reg) /\ Becomes(w, next)
  BY <1>2 DEF SavedFirst
<1> HIDE DEF next, reg
<1>8. /\ worker'[w].at = t /\ registry'[w] = reg
      /\ \A v \in Worker \ {w} : worker'[v] = worker[v] /\ registry'[v] = registry[v]
  BY <1>1, <1>6, <1>7 DEF Save, Becomes
<1>9. process.mem.history[c.member] = Never \/ process.mem.history[c.member] + Window <= t
  BY <1>2 DEF MemberAvailable
<1> QED BY <1>1, <1>2, <1>3, <1>4, <1>5, <1>8, <1>9

\* An attempt keeps every rule: the file said how many there were, and when the
\* last for this member was.
LEMMA ChooseKeeps ==
  ASSUME AttemptInv, ReserveInv', NEW w \in Worker, Choose(w)
  PROVE  AttemptInv'
<1> DEFINE t == worker[w].at
<1>1. /\ worker[w].step = "choose"
      /\ Cardinality(InWindow(worker[w].mem, t)) < Limit
      /\ worker'[w].at = t
      /\ \A v \in Worker \ {w} : worker'[v] = worker[v] /\ registry'[v] = registry[v]
  BY Chosen
<1>2. PICK m \in Member :
         /\ registry[w].history[m] = Never \/ registry[w].history[m] + Window <= t
         /\ registry'[w].history = [registry[w].history EXCEPT ![m] = t]
         /\ attempts' = attempts \cup {[worker |-> w, member |-> m,
                                        cycle |-> worker[w].cycle, at |-> t]}
  BY Chosen
<1> DEFINE n == [worker |-> w, member |-> m, cycle |-> worker[w].cycle, at |-> t]
<1>3. /\ n.worker = w /\ n.member = m /\ n.at = t
      /\ attempts' = attempts \cup {n}
  BY <1>2
<1>4. /\ t \in Nat /\ registry[w].history \in [Member -> Nat]
      /\ \A a \in attempts : a.worker \in Worker /\ a.member \in Member /\ a.at \in Nat
      /\ \A v \in Worker : registry[v].history \in [Member -> Nat]
  BY AttemptTypes
<1>5. t # Never
  BY <1>1 DEF AttemptInv, ReserveInv, Fits
<1>6. \A a \in attempts : a.at # Never /\ a.at <= registry[a.worker].history[a.member]
  BY DEF AttemptInv, Remembered
<1>7. ASSUME NEW a \in attempts, a.worker = w, a.member = m
      PROVE  a.at + Window <= t
  <2>1. a.at # Never /\ a.at <= registry[w].history[m] /\ a.at \in Nat
    BY <1>4, <1>6, <1>7
  <2>2. registry[w].history[m] \in Nat /\ registry[w].history[m] # Never
    BY <1>4, <2>1 DEF Never
  <2> QED BY <1>2, <1>4, <2>1, <2>2, GateAssumption DEF t
<1> HIDE DEF n, t
<1>8. Remembered'
  <2> SUFFICES ASSUME NEW a \in attempts'
               PROVE  a.at # Never /\ a.at <= registry'[a.worker].history[a.member]
    BY DEF Remembered
  <2>1. CASE a = n
    BY <1>2, <1>3, <1>4, <1>5, <2>1
  <2>2. CASE a \in attempts /\ a.worker = w /\ a.member = m
    <3>1. a.at <= t
      BY <1>4, <1>7, <2>2, GateAssumption
    <3> QED BY <1>2, <1>4, <1>6, <2>2, <3>1
  <2>3. CASE a \in attempts /\ a.worker = w /\ a.member # m
    BY <1>2, <1>4, <1>6, <2>3
  <2>4. CASE a \in attempts /\ a.worker # w
    BY <1>1, <1>4, <1>6, <2>4
  <2> QED BY <1>3, <2>1, <2>2, <2>3, <2>4
<1>9. AttemptsApart'
  BY <1>3, <1>7 DEF AttemptInv, AttemptsApart
<1>10. AttemptsBudget'
  <2> DEFINE Same(a) == {b \in attempts : /\ b.worker = a.worker
                                          /\ b.at <= a.at
                                          /\ a.at < b.at + Window}
             After(a) == {b \in attempts' : /\ b.worker = a.worker
                                            /\ b.at <= a.at
                                            /\ a.at < b.at + Window}
  <2> SUFFICES ASSUME NEW a \in attempts'
               PROVE  Cardinality(After(a)) <= Limit
    BY DEF AttemptsBudget
  <2>1. CASE a.worker = w /\ t <= a.at
    <3>1. PICK u \in Nat : u = a.at /\ t <= u
      BY <1>3, <1>4, <2>1
    <3> DEFINE C == Counted(w, u)
    <3>2. After(a) \subseteq C \cup {n}
      BY <1>3, <2>1, <3>1 DEF Counted
    <3>3. /\ IsFiniteSet(C) /\ IsFiniteSet(InWindow(worker[w].mem, t))
          /\ Cardinality(C) <= Cardinality(InWindow(worker[w].mem, t))
      BY <1>1, <3>1, CountedInWindow DEF Asking, t
    <3> HIDE DEF C
    <3>4. /\ IsFiniteSet(C \cup {n})
          /\ Cardinality(C \cup {n}) = IF n \in C THEN Cardinality(C) ELSE Cardinality(C) + 1
      BY <3>3, FS_AddElement
    <3>5. /\ Cardinality(C) \in Nat /\ Cardinality(InWindow(worker[w].mem, t)) \in Nat
          /\ Cardinality(InWindow(worker[w].mem, t)) < Limit
      BY <1>1, <3>3, FS_CardinalityType DEF t
    <3>6. Cardinality(C \cup {n}) <= Limit
      BY <3>3, <3>4, <3>5, GateAssumption
    <3> HIDE DEF After
    <3>7. PICK S : S = C \cup {n}
      OBVIOUS
    <3>8. Cardinality(After(a)) <= Cardinality(S) /\ Cardinality(After(a)) \in Nat
          /\ Cardinality(S) \in Nat /\ Cardinality(S) <= Limit
      BY <3>2, <3>4, <3>6, <3>7, FS_Subset, FS_CardinalityType
    <3> QED BY <3>8, GateAssumption
  <2>2. CASE a.worker # w \/ ~(t <= a.at)
    <3>1. a \in attempts /\ (a.worker = w => a.at < t)
      BY <1>3, <1>4, <2>2
    <3>2. After(a) = Same(a)
      BY <1>3, <1>4, <3>1
    <3> QED BY <3>1, <3>2 DEF AttemptInv, AttemptsBudget
  <2> QED BY <2>1, <2>2
<1> QED BY <1>8, <1>9, <1>10 DEF AttemptInv

-----------------------------------------------------------------------------
\* A step that attempts nothing and keeps what the files have reserved.
Harmless ==
  /\ attempts' = attempts
  /\ \A w \in Worker : registry'[w].history = registry[w].history

\* Such a step keeps the rules.
LEMMA HarmlessKeeps ==
  ASSUME AttemptInv, ReserveInv', Harmless
  PROVE  AttemptInv'
<1>1. Remembered'
  BY AttemptTypes DEF AttemptInv, Remembered, Harmless
<1>2. AttemptsApart' /\ AttemptsBudget'
  BY DEF AttemptInv, AttemptsApart, AttemptsBudget, Harmless
<1> QED BY <1>1, <1>2 DEF AttemptInv

\* A step that writes the file of one worker, with the reservations it had.
LEMMA OneFileKept ==
  ASSUME AttemptInv, NEW w \in Worker, attempts' = attempts,
         NEW reg, Save(w, reg), reg.history = registry[w].history
  PROVE  Harmless
<1>1. registry \in [Worker -> Registry]
  BY AttemptTypes
<1>2. registry'[w] = reg /\ \A v \in Worker \ {w} : registry'[v] = registry[v]
  BY <1>1 DEF Save
<1>3. ASSUME NEW v \in Worker
      PROVE  registry'[v].history = registry[v].history
  BY <1>2
<1> QED BY <1>3 DEF Harmless

\* A step that writes no file.
LEMMA NoFile == ASSUME attempts' = attempts, registry' = registry PROVE Harmless
BY DEF Harmless

\* The end of a cycle is one.
LEMMA EndOfCycle ==
  ASSUME AttemptInv, NEW w \in Worker, NEW process \in Process, Finish(w, process),
         process.mem.history = registry[w].history, attempts' = attempts
  PROVE  Harmless
<1>1. Closed(process).history = registry[w].history
  BY ClosedKept DEF Agreeing
<1>2. PICK reg : reg = Closed(process)
  OBVIOUS
<1>3. Save(w, reg) /\ reg.history = registry[w].history
  BY <1>1, <1>2 DEF Finish
<1> QED BY <1>3, OneFileKept

\* A worker in a cycle: what the steps below need of it.
LEMMA InCycle ==
  ASSUME AttemptInv, NEW w \in Worker, worker[w].step # "idle"
  PROVE  /\ worker[w] \in Process /\ worker[w].mem \in Registry
         /\ worker[w].mem.history = registry[w].history
  BY AttemptTypes DEF Process

\* The steps that end a cycle with the copy it holds.
LEMMA EndsQuietly ==
  ASSUME AttemptInv, NEW w \in Worker, DryRun(w) \/ NoneLeft(w) \/ Timeout(w)
  PROVE  Harmless
<1> DEFINE failed == [worker[w] EXCEPT !.errors = TRUE]
<1>1. worker[w].step # "idle" /\ attempts' = attempts
  BY DEF DryRun, NoneLeft, Timeout
<1>2. /\ worker[w] \in Process /\ worker[w].mem \in Registry
      /\ worker[w].mem.history = registry[w].history
  BY <1>1, InCycle
<1>3. failed \in Process /\ failed.mem = worker[w].mem
  BY <1>2 DEF Process
<1>4. Finish(w, worker[w]) \/ Finish(w, failed)
  BY DEF DryRun, NoneLeft, Timeout, Ambiguous
<1> HIDE DEF failed
<1> QED BY <1>1, <1>2, <1>3, <1>4, EndOfCycle

\* The steps before the budget is counted ask for nothing.
LEMMA BeforeAsking ==
  ASSUME AttemptInv, NEW w \in Worker,
         StartCycle(w) \/ (\E m \in Member : Suppress(w, m)) \/ Crash(w)
  PROVE  Harmless
BY NoFile DEF StartCycle, Suppress, Crash

\* Nor does the count itself, after which the cycle goes on or ends.
LEMMA CountedIsHarmless ==
  ASSUME AttemptInv, NEW w \in Worker, OpenPermits(w)
  PROVE  Harmless
<1>1. /\ worker[w] \in Process /\ worker[w].mem.history = registry[w].history
      /\ attempts' = attempts
  BY InCycle DEF OpenPermits
<1>2. registry' = registry \/ Finish(w, worker[w])
  BY DEF OpenPermits
<1> QED BY <1>1, <1>2, NoFile, EndOfCycle

\* Asking again, and taking an answer, attempt nothing new.
LEMMA WhileAsking ==
  ASSUME AttemptInv, NEW w \in Worker, Post(w) \/ TakeReceipt(w) \/ TakeConflict(w)
  PROVE  Harmless
<1> DEFINE process == worker[w]
           failed == [process EXCEPT !.errors = TRUE]
<1>1. /\ attempts' = attempts /\ process \in Process /\ process.mem \in Registry
      /\ process.mem.history = registry[w].history
  BY InCycle DEF Post, TakeReceipt, TakeConflict
<1>2. failed \in Process /\ failed.mem = process.mem
  BY <1>1 DEF Process
<1>3. CASE Finish(w, failed)
  <2> HIDE DEF failed
  <2> QED BY <1>1, <1>2, <1>3, EndOfCycle
<1>4. CASE Post(w)
  BY <1>4, NoFile DEF Post
<1>5. CASE TakeConflict(w)
  <2>1. Finish(w, failed) \/ registry' = registry
    BY <1>5 DEF TakeConflict
  <2> HIDE DEF failed
  <2> QED BY <1>1, <1>3, <2>1, NoFile
<1>6. CASE TakeReceipt(w)
  <2> DEFINE receipt == process.answer.receipt
             status == IF receipt.reserved THEN "confirmed"
                       ELSE IF receipt.result = "deferred" THEN "server-budget-exhausted"
                       ELSE "no-longer-required"
             kept == Confirmed(process.mem, process.member, receipt)
             reg == Settled(kept, status)
             settled == [process EXCEPT !.step = "choose", !.mem = reg, !.answer = NoAnswer]
  <2>1. kept \in Registry /\ kept.history = registry[w].history
    BY <1>1, ConfirmedType, ReservationsKept DEF Agreeing
  <2>2. reg \in Registry /\ reg.history = registry[w].history
    <3> HIDE DEF kept
    <3> QED BY <2>1, SettledType, ReservationsKept DEF Agreeing
  <2>3. settled \in Process /\ settled.mem = reg
    <3> HIDE DEF process, reg
    <3> QED BY <1>1, <2>2 DEF Process, NoAnswer, Answers
  <2>4. \/ Finish(w, failed)
        \/ Finish(w, settled)
        \/ Save(w, reg)
    BY <1>6 DEF TakeReceipt
  <2> HIDE DEF settled, reg, failed
  <2>5. CASE Finish(w, settled)
    BY <1>1, <2>2, <2>3, <2>5, EndOfCycle
  <2>6. CASE Save(w, reg)
    <3>1. PICK new : new = reg
      OBVIOUS
    <3>2. Save(w, new) /\ new.history = registry[w].history
      BY <2>2, <2>6, <3>1
    <3> QED BY <1>1, <3>2, OneFileKept
  <2> QED BY <1>3, <2>4, <2>5, <2>6
<1> QED BY <1>4, <1>5, <1>6

\* The app's steps, staff and the clock touch no file.
LEMMA AppIsHarmless ==
  ASSUME AttemptInv,
         (\E r \in inflight : Handle(r)) \/ (\E m \in Member : MoveTicket(m)) \/ Tick
           \/ UNCHANGED vars
  PROVE  Harmless
BY DEF Handle, Begin, Decline, Commit, Conflict, Lose, MoveTicket, Tick, vars, Harmless

\* At first nobody has attempted anything.
LEMMA AttemptInvInit == Init => AttemptInv
<1> SUFFICES ASSUME Init PROVE AttemptInv
  OBVIOUS
<1>1. ReserveInv
  BY ReserveInvInit
<1>2. attempts = {} /\ \A w \in Worker : worker[w].step = "idle"
  BY DEF Init, Idle
<1> QED BY <1>1, <1>2 DEF AttemptInv, Remembered, AttemptsApart, AttemptsBudget

\* Every step keeps the invariant: only Choose attempts anything.
LEMMA AttemptInvStep == AttemptInv /\ [Next]_vars => AttemptInv'
<1> SUFFICES ASSUME AttemptInv, [Next]_vars PROVE AttemptInv'
  OBVIOUS
<1>1. ReserveInv'
  BY ReserveInvStep DEF AttemptInv
<1>2. CASE \E w \in Worker : Choose(w)
  BY <1>1, <1>2, ChooseKeeps
<1>3. CASE ~\E w \in Worker : Choose(w)
  <2>1. Harmless
    BY <1>3, EndsQuietly, BeforeAsking, CountedIsHarmless, WhileAsking, AppIsHarmless DEF Next, Cycle
  <2> QED BY <1>1, <2>1, HarmlessKeeps
<1> QED BY <1>2, <1>3

\* The invariant holds in every behaviour of the gate.
LEMMA AttemptInvHolds == Spec => []AttemptInv
  BY AttemptInvInit, AttemptInvStep, PTL DEF Spec

\* By its own clock, whatever that clock reads, a worker's attempts for one
\* member are a window apart.
THEOREM GateAttemptsApart == Spec => []AttemptsApart
<1>1. AttemptInv => AttemptsApart
  BY DEF AttemptInv
<1> QED BY <1>1, AttemptInvHolds, PTL

\* And no window holds more than Limit of them.
THEOREM GateAttemptsBudget == Spec => []AttemptsBudget
<1>1. AttemptInv => AttemptsBudget
  BY DEF AttemptInv
<1> QED BY <1>1, AttemptInvHolds, PTL

-----------------------------------------------------------------------------
(***************************************************************************)
(* What the two sides of the gate know of each other: the app welcomes a   *)
(* member once, a registry marks an onboarding complete only when there is *)
(* a ticket, and a cycle complete only when no request of it is left at    *)
(* the server.                                                             *)
(***************************************************************************)
(***************************************************************************)
(* One welcome.                                                            *)
(***************************************************************************)
\* What an open transaction read of the tickets and the list.
OpenInv ==
  \A r \in inflight : r.step = "open" =>
    /\ r.base \subseteq sent
    /\ r.ticket # "none" => ticket[r.member] # "none"
    /\ r.ticket = "none" /\ storage = r.base => ticket[r.member] = "none"

\* A welcome leaves a ticket.
WelcomedHasTicket == \A s \in sent : s.plan = "welcome" => ticket[s.member] # "none"

WelcomeInv == BudgetInv /\ OpenInv /\ WelcomedHasTicket /\ WelcomedOnce

\* No step takes a ticket away.
LEMMA TicketsStay ==
  ASSUME TypeOK, [Next]_vars, NEW m \in Member, ticket[m] # "none"
  PROVE  ticket'[m] # "none"
<1>1. ASSUME NEW t \in Ticket, t # "none", NEW plan
      PROVE  Applied(t, plan) # "none"
  BY <1>1 DEF Applied
<1>2. ASSUME NEW r \in inflight, Handle(r)
      PROVE  ticket'[m] # "none"
  <2>1. CASE Commit(r)
    BY <1>1, <2>1 DEF Commit, TypeOK
  <2> QED BY <1>2, <2>1 DEF Handle, Begin, Decline, Conflict, Lose
<1>3. ASSUME NEW w \in Worker, Cycle(w)
      PROVE  ticket'[m] # "none"
  BY <1>3 DEF Cycle, StartCycle, Suppress, OpenPermits, DryRun, Choose, NoneLeft, Post,
              TakeReceipt, TakeConflict, Timeout, Crash
<1>4. ASSUME NEW k \in Member, MoveTicket(k)
      PROVE  ticket'[m] # "none"
  BY <1>4 DEF MoveTicket, TypeOK
<1> QED BY <1>2, <1>3, <1>4 DEF Next, Tick, vars

\* A step that releases nothing, gives no ticket, and opens at most what it reads.
LEMMA WelcomeQuiet ==
  ASSUME WelcomeInv, BudgetInv', UNCHANGED <<sent, storage>>,
         \A m \in Member : ticket'[m] = "none" <=> ticket[m] = "none",
         \A r \in inflight' : r.step = "open" =>
           \/ r \in inflight
           \/ r.base = storage /\ r.member \in Member /\ r.ticket = ticket[r.member]
  PROVE  WelcomeInv'
<1>1. /\ \A r \in inflight : r.member \in Member
      /\ \A s \in sent : s.member \in Member
      /\ storage \subseteq sent
  BY DEF WelcomeInv, BudgetInv, TypeOK, Request, Reservation
<1>2. OpenInv'
  BY <1>1 DEF WelcomeInv, OpenInv
<1>3. WelcomedHasTicket' /\ WelcomedOnce'
  BY <1>1 DEF WelcomeInv, WelcomedHasTicket, WelcomedOnce
<1> QED BY <1>2, <1>3 DEF WelcomeInv

\* A commit welcomes only a member that has no ticket; whoever else read the list
\* before can no longer commit.
LEMMA WelcomeCommit ==
  ASSUME WelcomeInv, BudgetInv', NEW r \in inflight, Commit(r)
  PROVE  WelcomeInv'
<1>1. PICK plan \in Plans(r.asked, r.ticket) :
       LET reservation == [no |-> Cardinality(sent) + 1, at |-> r.at, member |-> r.member,
                           cycle |-> r.cycle, plan |-> plan]
       IN /\ storage' = Extended(Active(r.base, r.at), reservation)
          /\ sent' = sent \cup {reservation}
          /\ ticket' = [ticket EXCEPT ![r.member] = Applied(@, plan)]
  BY DEF Commit
<1> DEFINE n == [no |-> Cardinality(sent) + 1, at |-> r.at, member |-> r.member,
                 cycle |-> r.cycle, plan |-> plan]
<1>2. /\ IsFiniteSet(sent) /\ Cardinality(sent) \in Nat
      /\ \A s \in sent : s.no \in Nat /\ s.no <= Cardinality(sent) /\ s.member \in Member
      /\ n.no = Cardinality(sent) + 1 /\ n.member = r.member /\ n.plan = plan
      /\ r.step = "open" /\ storage = r.base /\ r.member \in Member /\ r.ticket \in Ticket
      /\ \A q \in inflight : q.member \in Member
      /\ ticket \in [Member -> Ticket]
  BY FS_CardinalityType
     DEF WelcomeInv, BudgetInv, Numbered, TypeOK, Reservation, Request, Commit, Undisturbed
<1>3. /\ n \in storage' /\ sent' = sent \cup {n} /\ inflight' \subseteq inflight
      /\ ticket' = [ticket EXCEPT ![r.member] = Applied(@, plan)]
  BY <1>1 DEF Extended, Commit, Answer
<1> HIDE DEF n
<1>4. n \notin sent
  BY <1>2
<1>5. \A m \in Member : ticket[m] # "none" => ticket'[m] # "none"
  BY TicketsStay DEF WelcomeInv, BudgetInv, Next, Handle
<1>6. OpenInv'
  BY <1>2, <1>3, <1>4, <1>5 DEF WelcomeInv, OpenInv
<1>7. plan = "welcome" => ticket[r.member] = "none" /\ ticket'[r.member] # "none"
  <2>1. plan = "welcome" => r.ticket = "none"
    BY <1>1, <1>2 DEF Plans, Ticket
  <2>2. plan = "welcome" => Applied(ticket[r.member], plan) # "none"
    BY DEF Applied
  <2> QED BY <1>2, <1>3, <2>1, <2>2 DEF WelcomeInv, OpenInv
<1>8. WelcomedHasTicket'
  BY <1>2, <1>3, <1>5, <1>7 DEF WelcomeInv, WelcomedHasTicket
<1>9. WelcomedOnce'
  BY <1>2, <1>3, <1>7 DEF WelcomeInv, WelcomedHasTicket, WelcomedOnce
<1> QED BY <1>6, <1>8, <1>9 DEF WelcomeInv

\* At first nobody was welcomed.
LEMMA WelcomeInvInit == Init => WelcomeInv
<1> SUFFICES ASSUME Init PROVE WelcomeInv
  OBVIOUS
<1>1. \A s \in sent : s.plan = "notice"
  BY DEF Init, Slot
<1> QED BY <1>1, BudgetInvInit
        DEF Init, WelcomeInv, OpenInv, WelcomedHasTicket, WelcomedOnce

\* Every step keeps the invariant.
LEMMA WelcomeInvStep == WelcomeInv /\ [Next]_vars => WelcomeInv'
<1> SUFFICES ASSUME WelcomeInv, [Next]_vars PROVE WelcomeInv'
  OBVIOUS
<1>1. BudgetInv' /\ TypeOK
  BY BudgetInvStep DEF WelcomeInv, BudgetInv
<1>2. ASSUME NEW w \in Worker, Cycle(w)
      PROVE  WelcomeInv'
  <2>1. UNCHANGED <<sent, storage, ticket>>
    BY <1>2 DEF Cycle, StartCycle, Suppress, OpenPermits, DryRun, Choose, NoneLeft, Post,
                TakeReceipt, TakeConflict, Timeout, Crash
  <2>2. \A r \in inflight' : r.step = "open" => r \in inflight
    <3>1. CASE Post(w)
      BY <3>1 DEF Post
    <3>2. CASE ~Post(w)
      BY <1>2, <3>2 DEF Cycle, StartCycle, Suppress, OpenPermits, DryRun, Choose, NoneLeft,
                        TakeReceipt, TakeConflict, Timeout, Crash
    <3> QED BY <3>1, <3>2
  <2> QED BY <1>1, <2>1, <2>2, WelcomeQuiet
<1>3. ASSUME NEW r \in inflight, Handle(r)
      PROVE  WelcomeInv'
  <2>1. CASE Commit(r)
    BY <1>1, <2>1, WelcomeCommit
  <2>2. CASE Decline(r) \/ Conflict(r) \/ Lose(r)
    <3>1. UNCHANGED <<sent, storage, ticket>> /\ inflight' \subseteq inflight
      BY <2>2 DEF Decline, Conflict, Lose, Answer
    <3> QED BY <1>1, <3>1, WelcomeQuiet
  <2>3. CASE Begin(r)
    <3> DEFINE opened == [r EXCEPT !.step = "open", !.at = now, !.base = storage,
                                   !.ticket = ticket[r.member]]
    <3>1. /\ opened.base = storage /\ opened.member \in Member
          /\ opened.ticket = ticket[opened.member]
      BY <1>1 DEF TypeOK, Request
    <3>2. inflight' = (inflight \ {r}) \cup {opened} /\ UNCHANGED <<sent, storage, ticket>>
      BY <2>3 DEF Begin
    <3> HIDE DEF opened
    <3> QED BY <1>1, <3>1, <3>2, WelcomeQuiet
  <2> QED BY <1>3, <2>1, <2>2, <2>3 DEF Handle
<1>4. ASSUME NEW m \in Member, MoveTicket(m)
      PROVE  WelcomeInv'
  <2>1. \A k \in Member : ticket'[k] = "none" <=> ticket[k] = "none"
    BY <1>1, <1>4 DEF MoveTicket, TypeOK
  <2> QED BY <1>1, <1>4, <2>1, WelcomeQuiet DEF MoveTicket
<1>5. CASE Tick \/ UNCHANGED vars
  BY <1>1, <1>5, WelcomeQuiet DEF Tick, vars
<1> QED BY <1>2, <1>3, <1>4, <1>5 DEF Next

\* The invariant holds in every behaviour of the gate.
LEMMA WelcomeInvHolds == Spec => []WelcomeInv
  BY WelcomeInvInit, WelcomeInvStep, PTL DEF Spec

\* Whatever the registries believe and the network repeats, a member gets one
\* welcome.
THEOREM GateWelcomedOnce == Spec => []WelcomedOnce
<1>1. WelcomeInv => WelcomedOnce
  BY DEF WelcomeInv
<1> QED BY <1>1, WelcomeInvHolds, PTL

-----------------------------------------------------------------------------
(***************************************************************************)
(* Onboarding and tickets.                                                 *)
(***************************************************************************)
\* A registry that marks an onboarding complete only for a member with a ticket.
Known(reg) == \A m \in Member : reg.users[m] = "completed" => ticket[m] # "none"

\* So does a process, and the proof it was just given is one.
Knows(process) ==
  /\ Known(process.mem)
  /\ /\ process.step = "answered" /\ process.answer.kind = "receipt"
     /\ process.answer.receipt.completed
     => ticket[process.member] # "none"

OnboardInv == WelcomeInv /\ \A w \in Worker : Known(registry[w]) /\ Knows(worker[w])

\* A step of one worker, whose copy and file know.
LEMMA WorkerKnows ==
  ASSUME OnboardInv, WelcomeInv', UNCHANGED ticket, NEW w \in Worker, NEW process, NEW reg,
         Becomes(w, process), Save(w, reg), Known(reg), Knows(process)
  PROVE  OnboardInv'
<1>1. worker \in [Worker -> Process] /\ registry \in [Worker -> Registry]
  BY DEF OnboardInv, WelcomeInv, BudgetInv, TypeOK
<1>2. ASSUME NEW v \in Worker
      PROVE  /\ \E p : worker'[v] = p /\ Knows(p)
             /\ \E g : registry'[v] = g /\ Known(g)
  BY <1>1 DEF Becomes, Save, OnboardInv
<1> QED BY <1>2 DEF OnboardInv, Known, Knows

\* A step of one worker that leaves its file alone.
LEMMA CopyKnows ==
  ASSUME OnboardInv, WelcomeInv', UNCHANGED <<ticket, registry>>, NEW w \in Worker, NEW process,
         Becomes(w, process), Knows(process)
  PROVE  OnboardInv'
<1>1. Save(w, registry[w]) /\ Known(registry[w])
  BY DEF OnboardInv, WelcomeInv, BudgetInv, TypeOK, Save
<1> QED BY <1>1, WorkerKnows

\* An idle worker knows nothing.
LEMMA IdleKnows == Knows(Idle) /\ Known(Fresh) /\ Known(Baselined)
<1>1. \A m \in Member : Idle.mem.users[m] = "unknown" /\ Fresh.users[m] = "unknown"
                        /\ Baselined.users[m] = "unknown"
  BY DEF Idle, Fresh, Baselined
<1> QED BY <1>1 DEF Knows, Known, Idle

\* The end of a cycle saves what the copy knows.
LEMMA FinishKnows ==
  ASSUME OnboardInv, WelcomeInv', UNCHANGED ticket, NEW w \in Worker, NEW process \in Process,
         Known(process.mem), Finish(w, process)
  PROVE  OnboardInv'
<1>1. Closed(process).users = process.mem.users
  BY DEF Closed, Process, Registry
<1>2. Known(Closed(process))
  BY <1>1 DEF Known
<1> QED BY <1>2, IdleKnows, WorkerKnows DEF Finish

\* Confirming a proof keeps a registry knowing.
LEMMA ConfirmedKnows ==
  ASSUME NEW reg \in Registry, Known(reg), NEW m \in Member, NEW receipt,
         receipt.completed => ticket[m] # "none"
  PROVE  Known(Confirmed(reg, m, receipt))
  BY DEF Known, Confirmed, Registry

\* The app confirms only what a ticket proves.
LEMMA ReceiptProves ==
  ASSUME NEW t \in Ticket, NEW asked \in BOOLEAN, NEW plan \in Plans(asked, t)
  PROVE  /\ SuppressReceipt(t, plan, asked).completed => t # "none"
         /\ Receipt("planned", plan, asked, FALSE, FALSE).completed => t # "none"
         /\ ~Receipt("deferred", plan, asked, TRUE, FALSE).completed
         /\ DoneReceipt(t, plan, asked).completed => t # "none" \/ plan = "welcome"
  BY DEF SuppressReceipt, DoneReceipt, Receipt, Plans, Ticket

\* The process of a worker in a cycle, and what it knows.
LEMMA CycleTypes ==
  ASSUME OnboardInv, NEW w \in Worker
  PROVE  /\ worker[w] \in Process /\ worker[w].mem \in Registry /\ Known(worker[w].mem)
         /\ registry[w] \in Registry /\ Known(registry[w])
         /\ ticket \in [Member -> Ticket]
         /\ \A m \in Member : Asked(w, m) \in BOOLEAN
         /\ worker[w].step \in {"post", "wait", "answered"} => worker[w].member \in Member
  BY DEF OnboardInv, WelcomeInv, BudgetInv, TypeOK, Process, Knows, Asked

\* StartCycle and Suppress.
LEMMA BeginningKnows ==
  ASSUME OnboardInv, WelcomeInv', NEW w \in Worker,
         StartCycle(w) \/ \E m \in Member : Suppress(w, m)
  PROVE  OnboardInv'
<1>1. UNCHANGED <<ticket, registry>>
  BY DEF StartCycle, Suppress
<1>2. CASE StartCycle(w)
  <2>1. PICK accounts \in SUBSET Member :
          Becomes(w, [Idle EXCEPT !.step = "suppress", !.cycle = cycles',
                                  !.mem = Observe(registry[w], accounts), !.todo = accounts])
    BY <1>2 DEF StartCycle
  <2> DEFINE process == [Idle EXCEPT !.step = "suppress", !.cycle = cycles',
                                     !.mem = Observe(registry[w], accounts), !.todo = accounts]
  <2>2. process.step = "suppress" /\ process.mem = Observe(registry[w], accounts)
    BY DEF Idle
  <2>3. Known(Observe(registry[w], accounts))
    BY CycleTypes DEF Known, Observe, Registry
  <2> HIDE DEF process
  <2>4. Knows(process)
    BY <2>2, <2>3 DEF Knows
  <2> QED BY <1>1, <2>1, <2>4, CopyKnows DEF process
<1>3. ASSUME NEW m \in Member, Suppress(w, m)
      PROVE  OnboardInv'
  <2> DEFINE process == [worker[w] EXCEPT !.todo = @ \ {m}]
  <2>1. process \in Process /\ process.step = "suppress" /\ process.mem = worker[w].mem
    BY <1>3, CycleTypes DEF Suppress, Process
  <2>2. PICK next : Becomes(w, next) /\ next.step = "suppress" /\ Known(next.mem)
    <3>1. CASE Becomes(w, process)
      BY <2>1, <3>1, CycleTypes
    <3>2. CASE Becomes(w, [process EXCEPT !.errors = TRUE])
      <4>1. [process EXCEPT !.errors = TRUE].step = "suppress"
            /\ [process EXCEPT !.errors = TRUE].mem = process.mem
        BY <2>1 DEF Process
      <4> QED BY <2>1, <3>2, <4>1, CycleTypes
    <3>3. CASE Becomes(w, [process EXCEPT !.errors = TRUE, !.refused = TRUE])
      <4>1. [process EXCEPT !.errors = TRUE, !.refused = TRUE].step = "suppress"
            /\ [process EXCEPT !.errors = TRUE, !.refused = TRUE].mem = process.mem
        BY <2>1 DEF Process
      <4> QED BY <2>1, <3>3, <4>1, CycleTypes
    <3>4. ASSUME NEW plan \in Plans(Asked(w, m), ticket[m]), NEW receipt,
                 receipt = SuppressReceipt(ticket[m], plan, Asked(w, m)),
                 Becomes(w, [process EXCEPT
                    !.mem = Confirmed(@, m, receipt),
                    !.found = IF receipt.required THEN @ \cup {[member |-> m, plan |-> plan]}
                              ELSE @])
          PROVE  \E next : Becomes(w, next) /\ next.step = "suppress" /\ Known(next.mem)
      <4> DEFINE next == [process EXCEPT
                    !.mem = Confirmed(@, m, receipt),
                    !.found = IF receipt.required THEN @ \cup {[member |-> m, plan |-> plan]}
                              ELSE @]
      <4>1. receipt.completed => ticket[m] # "none"
        BY <3>4, CycleTypes, ReceiptProves
      <4>2. Known(Confirmed(worker[w].mem, m, receipt))
        BY <4>1, CycleTypes, ConfirmedKnows
      <4>3. next.step = "suppress" /\ next.mem = Confirmed(process.mem, m, receipt)
        <5> HIDE DEF process
        <5> QED BY <2>1 DEF Process
      <4>4. Becomes(w, next)
        BY <3>4
      <4> HIDE DEF next, process
      <4> QED BY <2>1, <4>2, <4>3, <4>4
    <3> QED BY <1>3, <3>1, <3>2, <3>3, <3>4 DEF Suppress
  <2>3. Knows(next)
    BY <2>2 DEF Knows
  <2> QED BY <1>1, <2>2, <2>3, CopyKnows
<1> QED BY <1>2, <1>3

\* The steps that end a cycle, and a crash.
LEMMA EndingKnows ==
  ASSUME OnboardInv, WelcomeInv', NEW w \in Worker,
         DryRun(w) \/ NoneLeft(w) \/ Timeout(w) \/ Crash(w)
  PROVE  OnboardInv'
<1> DEFINE failed == [worker[w] EXCEPT !.errors = TRUE]
<1>1. UNCHANGED ticket
  BY DEF DryRun, NoneLeft, Timeout, Crash
<1>2. failed \in Process /\ failed.mem = worker[w].mem
  BY CycleTypes DEF Process
<1>3. CASE Crash(w)
  BY <1>1, <1>3, IdleKnows, CopyKnows DEF Crash
<1>4. CASE Finish(w, worker[w])
  BY <1>1, <1>4, CycleTypes, FinishKnows
<1>5. CASE Finish(w, failed)
  <2> HIDE DEF failed
  <2> QED BY <1>1, <1>2, <1>5, CycleTypes, FinishKnows
<1> QED BY <1>3, <1>4, <1>5 DEF DryRun, NoneLeft, Timeout, Ambiguous

\* The steps between: none confirms anything but TakeReceipt.
LEMMA AskingKnows ==
  ASSUME OnboardInv, WelcomeInv', NEW w \in Worker,
         OpenPermits(w) \/ Choose(w) \/ Post(w) \/ TakeReceipt(w) \/ TakeConflict(w)
  PROVE  OnboardInv'
<1> DEFINE process == worker[w]
           failed == [process EXCEPT !.errors = TRUE]
<1>1. /\ UNCHANGED ticket /\ process \in Process /\ process.mem \in Registry
      /\ Known(process.mem)
  BY CycleTypes DEF OpenPermits, Choose, Post, TakeReceipt, TakeConflict
<1>2. failed \in Process /\ failed.mem = process.mem
  BY <1>1 DEF Process
<1>3. CASE Finish(w, failed)
  <2> HIDE DEF failed
  <2> QED BY <1>1, <1>2, <1>3, FinishKnows
<1>4. CASE OpenPermits(w)
  <2>1. PICK t \in Reading[now] :
         IF FromTheFuture(process.mem, t)
         THEN Becomes(w, Idle) /\ UNCHANGED registry
         ELSE LET free == {c \in process.found : MemberAvailable(process.mem, c.member, t)}
              IN IF process.errors \/ free = {} \/ Remaining(process.mem, t) = 0
                 THEN Finish(w, process)
                 ELSE /\ Becomes(w, [process EXCEPT !.step = "choose", !.found = free, !.at = t,
                                                    !.left = Remaining(process.mem, t)])
                      /\ UNCHANGED registry
    BY <1>4 DEF OpenPermits
  <2> DEFINE free == {c \in process.found : MemberAvailable(process.mem, c.member, t)}
             next == [process EXCEPT !.step = "choose", !.found = free, !.at = t,
                                     !.left = Remaining(process.mem, t)]
  <2>2. next.step = "choose" /\ next.mem = process.mem
    BY <1>1 DEF Process
  <2>3. \/ Becomes(w, Idle) /\ UNCHANGED registry
        \/ Finish(w, process)
        \/ Becomes(w, next) /\ UNCHANGED registry
    BY <2>1
  <2> HIDE DEF next
  <2>4. Knows(next)
    BY <1>1, <2>2 DEF Knows
  <2> QED BY <1>1, <2>3, <2>4, IdleKnows, CopyKnows, FinishKnows
<1>5. CASE Choose(w)
  <2>1. PICK c \in process.found :
          LET reg == Reserve(process.mem, c.member, process.cycle, process.at) IN
          /\ SavedFirst(w, reg)
          /\ Becomes(w, [process EXCEPT !.step = "post", !.mem = reg, !.found = @ \ {c},
                                        !.left = @ - 1, !.member = c.member, !.retries = 0])
    BY <1>5 DEF Choose
  <2> DEFINE reg == Reserve(process.mem, c.member, process.cycle, process.at)
             next == [process EXCEPT !.step = "post", !.mem = reg, !.found = @ \ {c},
                                     !.left = @ - 1, !.member = c.member, !.retries = 0]
  <2>2. reg.users = process.mem.users
    BY <1>1 DEF Reserve, Registry
  <2>3. next.step = "post" /\ next.mem = reg
    <3> HIDE DEF reg
    <3> QED BY <1>1 DEF Process
  <2>4. Save(w, reg) /\ Becomes(w, next)
    BY <2>1 DEF SavedFirst
  <2> HIDE DEF next, reg
  <2>5. Known(reg) /\ Knows(next)
    BY <1>1, <2>2, <2>3 DEF Known, Knows
  <2> QED BY <1>1, <2>4, <2>5, WorkerKnows
<1>6. CASE Post(w)
  <2> DEFINE next == [process EXCEPT !.step = "wait"]
  <2>1. next.step = "wait" /\ next.mem = process.mem /\ Becomes(w, next) /\ UNCHANGED registry
    BY <1>1, <1>6 DEF Post, Process
  <2> HIDE DEF next
  <2>2. Knows(next)
    BY <1>1, <2>1 DEF Knows
  <2> QED BY <1>1, <2>1, <2>2, CopyKnows
<1>7. CASE TakeConflict(w)
  <2> DEFINE next == [process EXCEPT !.step = "post", !.retries = @ + 1, !.answer = NoAnswer]
  <2>1. next.step = "post" /\ next.mem = process.mem
    BY <1>1 DEF Process
  <2>2. Finish(w, failed) \/ (Becomes(w, next) /\ UNCHANGED registry)
    BY <1>7 DEF TakeConflict
  <2> HIDE DEF next, failed
  <2>3. Knows(next)
    BY <1>1, <2>1 DEF Knows
  <2> QED BY <1>1, <1>3, <2>2, <2>3, CopyKnows
<1>8. CASE TakeReceipt(w)
  <2> DEFINE receipt == process.answer.receipt
             status == IF receipt.reserved THEN "confirmed"
                       ELSE IF receipt.result = "deferred" THEN "server-budget-exhausted"
                       ELSE "no-longer-required"
             kept == Confirmed(process.mem, process.member, receipt)
             reg == Settled(kept, status)
             settled == [process EXCEPT !.step = "choose", !.mem = reg, !.answer = NoAnswer]
  <2>1. process.member \in Member /\ (receipt.completed => ticket[process.member] # "none")
    BY <1>8, CycleTypes DEF TakeReceipt, OnboardInv, Knows
  <2>2. kept \in Registry /\ Known(kept)
    BY <1>1, <2>1, ConfirmedType, ConfirmedKnows
  <2>3. reg \in Registry /\ reg.users = kept.users
    <3> HIDE DEF kept
    <3> QED BY <2>2, SettledType DEF Settled, Registry
  <2>4. settled \in Process /\ settled.step = "choose" /\ settled.mem = reg
    <3> HIDE DEF process, reg
    <3> QED BY <1>1, <2>3 DEF Process, NoAnswer, Answers
  <2>5. \/ Finish(w, failed)
        \/ Finish(w, settled)
        \/ Save(w, reg) /\ Becomes(w, settled)
    BY <1>8 DEF TakeReceipt
  <2> HIDE DEF settled, reg, kept, failed
  <2>6. Known(reg) /\ Knows(settled)
    BY <2>2, <2>3, <2>4 DEF Known, Knows
  <2>7. CASE Finish(w, settled)
    BY <1>1, <2>4, <2>6, <2>7, FinishKnows
  <2>8. CASE Save(w, reg) /\ Becomes(w, settled)
    BY <1>1, <2>6, <2>8, WorkerKnows
  <2> QED BY <1>3, <2>5, <2>7, <2>8
<1> QED BY <1>4, <1>5, <1>6, <1>7, <1>8

\* A step that gives no process and no file anything, and takes no ticket away.
LEMMA QuietKnows ==
  ASSUME OnboardInv, WelcomeInv', [Next]_vars, UNCHANGED <<registry, worker>>
  PROVE  OnboardInv'
<1>1. \A m \in Member : ticket[m] # "none" => ticket'[m] # "none"
  BY TicketsStay DEF OnboardInv, WelcomeInv, BudgetInv
<1>2. \A w \in Worker : worker[w].step \in {"post", "wait", "answered"} => worker[w].member \in Member
  BY CycleTypes
<1>3. \A w \in Worker : Known(registry[w])' /\ Knows(worker[w])'
  BY <1>1, <1>2 DEF OnboardInv, Known, Knows
<1> QED BY <1>3 DEF OnboardInv

\* An answer is right about the ticket when it is given, and stays so.
LEMMA AnswerKnows ==
  ASSUME OnboardInv, WelcomeInv', [Next]_vars, UNCHANGED registry,
         NEW r \in inflight, NEW answer, Answer(r, answer),
         answer.kind = "receipt" /\ answer.receipt.completed => ticket'[r.member] # "none"
  PROVE  OnboardInv'
<1>1. \A m \in Member : ticket[m] # "none" => ticket'[m] # "none"
  BY TicketsStay DEF OnboardInv, WelcomeInv, BudgetInv
<1>2. /\ worker \in [Worker -> Process]
      /\ \A w \in Worker : /\ Known(registry[w]) /\ Knows(worker[w])
                           /\ worker[w].step = "answered" => worker[w].member \in Member
  BY CycleTypes DEF OnboardInv, WelcomeInv, BudgetInv, TypeOK
<1>3. ASSUME NEW w \in Worker
      PROVE  Knows(worker[w])'
  <2> DEFINE taken == [worker[w] EXCEPT !.step = "answered", !.answer = answer]
  <2>1. /\ taken.mem = worker[w].mem /\ taken.member = worker[w].member
        /\ taken.answer = answer
    BY <1>2 DEF Process
  <2>2. worker'[w] = worker[w] \/ (worker[w].member = r.member /\ worker'[w] = taken)
    BY <1>2 DEF Answer
  <2> HIDE DEF taken
  <2> QED BY <1>1, <1>2, <2>1, <2>2 DEF Known, Knows
<1>4. \A w \in Worker : Known(registry[w])'
  BY <1>1, <1>2 DEF Known
<1> QED BY <1>3, <1>4 DEF OnboardInv

\* The app's answers.
LEMMA AppKnows ==
  ASSUME OnboardInv, WelcomeInv', NEW r \in inflight, Handle(r)
  PROVE  OnboardInv'
<1>1. /\ [Next]_vars /\ UNCHANGED registry
      /\ r.asked \in BOOLEAN /\ r.ticket \in Ticket /\ r.member \in Member
      /\ ticket \in [Member -> Ticket]
  BY DEF Next, Handle, Begin, Decline, Commit, Conflict, Lose, OnboardInv, WelcomeInv,
         BudgetInv, TypeOK, Request
<1>2. r.step = "open" /\ r.ticket # "none" => ticket'[r.member] # "none"
  BY <1>1, TicketsStay DEF OnboardInv, WelcomeInv, OpenInv, BudgetInv
<1>3. CASE Begin(r) \/ Lose(r)
  BY <1>1, <1>3, QuietKnows DEF Begin, Lose
<1>4. CASE Conflict(r)
  BY <1>1, <1>4, AnswerKnows DEF Conflict
<1>5. CASE Decline(r)
  <2>1. PICK plan \in Plans(r.asked, r.ticket) :
         \/ Answer(r, [kind |-> "receipt",
                       receipt |-> Receipt("planned", plan, r.asked, FALSE, FALSE)])
         \/ Answer(r, [kind |-> "receipt",
                       receipt |-> Receipt("deferred", plan, r.asked, TRUE, FALSE)])
    BY <1>5 DEF Decline
  <2>2. /\ Receipt("planned", plan, r.asked, FALSE, FALSE).completed => r.ticket # "none"
        /\ ~Receipt("deferred", plan, r.asked, TRUE, FALSE).completed
    BY <1>1, ReceiptProves
  <2> QED BY <1>1, <1>2, <1>5, <2>1, <2>2, AnswerKnows DEF Decline
<1>6. CASE Commit(r)
  <2>1. PICK plan \in Plans(r.asked, r.ticket) :
          /\ ticket' = [ticket EXCEPT ![r.member] = Applied(@, plan)]
          /\ Answer(r, [kind |-> "receipt", receipt |-> DoneReceipt(r.ticket, plan, r.asked)])
    BY <1>6 DEF Commit
  <2>2. DoneReceipt(r.ticket, plan, r.asked).completed => r.ticket # "none" \/ plan = "welcome"
    BY <1>1, ReceiptProves
  <2>3. plan = "welcome" => ticket'[r.member] # "none"
    BY <1>1, <2>1 DEF Applied
  <2> QED BY <1>1, <1>2, <1>6, <2>1, <2>2, <2>3, AnswerKnows DEF Commit
<1> QED BY <1>3, <1>4, <1>5, <1>6 DEF Handle

\* Every step keeps the invariant.
LEMMA OnboardInvStep == OnboardInv /\ [Next]_vars => OnboardInv'
<1> SUFFICES ASSUME OnboardInv, [Next]_vars PROVE OnboardInv'
  OBVIOUS
<1>1. WelcomeInv'
  BY WelcomeInvStep DEF OnboardInv
<1>2. ASSUME NEW w \in Worker, Cycle(w)
      PROVE  OnboardInv'
  BY <1>1, <1>2, BeginningKnows, EndingKnows, AskingKnows DEF Cycle
<1>3. ASSUME NEW r \in inflight, Handle(r)
      PROVE  OnboardInv'
  BY <1>1, <1>3, AppKnows
<1>4. CASE (\E m \in Member : MoveTicket(m)) \/ Tick \/ UNCHANGED vars
  BY <1>1, <1>4, QuietKnows DEF MoveTicket, Tick, vars
<1> QED BY <1>2, <1>3, <1>4 DEF Next

\* At first no registry has completed anything.
LEMMA OnboardInvInit == Init => OnboardInv
<1> SUFFICES ASSUME Init PROVE OnboardInv
  OBVIOUS
<1>1. \A w \in Worker : worker[w] = Idle /\ registry[w] \in {Fresh, Baselined}
  BY DEF Init
<1> QED BY <1>1, WelcomeInvInit, IdleKnows DEF OnboardInv

\* A registry marks an onboarding complete only for a member that has a ticket.
THEOREM GateOnboardedHasTicket == Spec => []OnboardedHasTicket
<1>1. OnboardInv => OnboardedHasTicket
  BY DEF OnboardInv, Known, OnboardedHasTicket
<1> QED BY <1>1, OnboardInvInit, OnboardInvStep, PTL DEF Spec

-----------------------------------------------------------------------------
(***************************************************************************)
(* The fate of a cycle's requests.                                         *)
(***************************************************************************)
Running(w) == worker[w].step # "idle"

\* No request that worker w made in cycle c is left at the server.
NoneOf(w, c) == \A r \in inflight : r.worker = w => r.cycle # c

\* A worker has at most the one request it waits for at the server, of those of its
\* running cycle; and no cycle before that one is recorded that was not.
FateOf(w) ==
  /\ registry[w].completed <= cycles
  /\ Running(w) => /\ worker[w].mem.completed = registry[w].completed
                   /\ registry[w].completed < worker[w].cycle
  /\ NoneOf(w, registry[w].completed)
  /\ \A r \in inflight : r.worker = w => r.cycle <= cycles
  /\ \A r \in inflight : r.worker = w /\ Running(w) /\ r.cycle = worker[w].cycle =>
       worker[w].step = "wait" /\ r.member = worker[w].member
  /\ \A r, q \in inflight :
       /\ r.worker = w /\ q.worker = w /\ Running(w)
       /\ r.cycle = worker[w].cycle /\ q.cycle = worker[w].cycle
       => r = q

FateInv == ReserveInv /\ \A w \in Worker : FateOf(w)

\* The types this part needs.
LEMMA FateTypes ==
  ASSUME FateInv
  PROVE  /\ worker \in [Worker -> Process] /\ registry \in [Worker -> Registry]
         /\ cycles \in Nat
         /\ \A r \in inflight : r.worker \in Worker /\ r.member \in Member /\ r.cycle \in Nat
         /\ \A w \in Worker : /\ worker[w] \in Process /\ worker[w].mem \in Registry
                              /\ worker[w].cycle \in Nat /\ worker[w].cycle <= cycles
                              /\ registry[w] \in Registry /\ registry[w].completed \in Nat
                              /\ FateOf(w)
  BY DEF FateInv, ReserveInv, Fits, BudgetInv, TypeOK, Process, Registry, Request

\* A worker that does not wait has no request of its cycle at the server.
LEMMA NotWaiting ==
  ASSUME FateInv, NEW w \in Worker, Running(w), worker[w].step # "wait"
  PROVE  /\ NoneOf(w, worker[w].cycle)
         /\ worker[w].mem.completed = registry[w].completed
         /\ registry[w].completed < worker[w].cycle
  BY FateTypes DEF FateOf, NoneOf

\* A step of one worker that makes no request, after which it waits for none.
LEMMA WorkerFate ==
  ASSUME FateInv, ReserveInv', inflight' = inflight, cycles' \in Nat, cycles <= cycles',
         NEW w \in Worker, NEW process, NEW reg, Becomes(w, process), Save(w, reg),
         reg.completed <= cycles', NoneOf(w, reg.completed),
         process.step # "idle" => /\ process.mem.completed = reg.completed
                                  /\ reg.completed < process.cycle
                                  /\ NoneOf(w, process.cycle)
  PROVE  FateInv'
<1>1. /\ worker'[w] = process /\ registry'[w] = reg
      /\ \A v \in Worker \ {w} : worker'[v] = worker[v] /\ registry'[v] = registry[v]
  BY FateTypes DEF Becomes, Save
<1>2. FateOf(w)'
  BY <1>1, FateTypes DEF FateOf, Running, NoneOf
<1>3. ASSUME NEW v \in Worker \ {w}
      PROVE  FateOf(v)'
  BY <1>1, <1>3, FateTypes DEF FateOf, Running, NoneOf
<1> QED BY <1>2, <1>3 DEF FateInv

\* Such a step that leaves the file alone.
LEMMA CopyFate ==
  ASSUME FateInv, ReserveInv', inflight' = inflight, cycles' \in Nat, cycles <= cycles',
         NEW w \in Worker, NEW process, Becomes(w, process), registry' = registry,
         process.step # "idle" => /\ process.mem.completed = registry[w].completed
                                  /\ registry[w].completed < process.cycle
                                  /\ NoneOf(w, process.cycle)
  PROVE  FateInv'
<1>1. Save(w, registry[w])
  BY FateTypes DEF Save
<1>2. registry[w].completed <= cycles' /\ NoneOf(w, registry[w].completed)
  BY FateTypes DEF FateOf
<1> QED BY <1>1, <1>2, WorkerFate

\* The end of a cycle: it is recorded as complete only if nothing is open.
LEMMA FinishFate ==
  ASSUME FateInv, ReserveInv', UNCHANGED <<inflight, cycles>>,
         NEW w \in Worker, NEW process \in Process, Finish(w, process),
         process.mem.completed = registry[w].completed,
         process.errors \/ (NoneOf(w, process.cycle) /\ process.cycle <= cycles)
  PROVE  FateInv'
<1>1. Closed(process).completed = IF process.errors THEN registry[w].completed ELSE process.cycle
  BY DEF Closed, Process, Registry
<1>2. registry[w].completed <= cycles /\ NoneOf(w, registry[w].completed) /\ cycles \in Nat
  BY FateTypes DEF FateOf
<1>3. Closed(process).completed <= cycles' /\ NoneOf(w, Closed(process).completed)
  BY <1>1, <1>2
<1>4. Idle.step = "idle"
  BY DEF Idle
<1> QED BY <1>2, <1>3, <1>4, WorkerFate DEF Finish

\* StartCycle, Suppress, Crash.
LEMMA BeginningFate ==
  ASSUME FateInv, ReserveInv', NEW w \in Worker,
         StartCycle(w) \/ (\E m \in Member : Suppress(w, m)) \/ Crash(w)
  PROVE  FateInv'
<1>1. UNCHANGED <<inflight, registry>>
  BY DEF StartCycle, Suppress, Crash
<1>2. CASE Crash(w)
  <2>1. Idle.step = "idle" /\ cycles' = cycles
    BY <1>2 DEF Idle, Crash
  <2> QED BY <1>1, <1>2, <2>1, FateTypes, CopyFate DEF Crash
<1>3. CASE StartCycle(w)
  <2>1. PICK accounts \in SUBSET Member :
          Becomes(w, [Idle EXCEPT !.step = "suppress", !.cycle = cycles',
                                  !.mem = Observe(registry[w], accounts), !.todo = accounts])
    BY <1>3 DEF StartCycle
  <2> DEFINE process == [Idle EXCEPT !.step = "suppress", !.cycle = cycles',
                                     !.mem = Observe(registry[w], accounts), !.todo = accounts]
  <2>2. process.cycle = cycles' /\ process.mem = Observe(registry[w], accounts)
    BY DEF Idle
  <2>3. Observe(registry[w], accounts).completed = registry[w].completed
    BY FateTypes DEF Observe, Registry
  <2> HIDE DEF process
  <2>4. cycles' = cycles + 1 /\ cycles \in Nat
    BY <1>3, FateTypes DEF StartCycle
  <2>5. registry[w].completed < cycles' /\ NoneOf(w, cycles')
    BY <2>4, FateTypes DEF FateOf, NoneOf
  <2>6. Becomes(w, process)
    BY <2>1 DEF process
  <2>7. cycles' \in Nat /\ cycles <= cycles'
    BY <2>4
  <2> QED BY <1>1, <2>2, <2>3, <2>5, <2>6, <2>7, CopyFate
<1>4. ASSUME NEW m \in Member, Suppress(w, m)
      PROVE  FateInv'
  <2> DEFINE process == [worker[w] EXCEPT !.todo = @ \ {m}]
             Like(next) == /\ Becomes(w, next)
                           /\ next.cycle = worker[w].cycle
                           /\ next.mem.completed = worker[w].mem.completed
  <2>1. process \in Process /\ process.mem = worker[w].mem /\ process.cycle = worker[w].cycle
    BY FateTypes DEF Process
  <2>2. PICK next : Like(next)
    <3>1. CASE Becomes(w, process)
      BY <2>1, <3>1
    <3>2. CASE Becomes(w, [process EXCEPT !.errors = TRUE])
      <4>1. /\ [process EXCEPT !.errors = TRUE].mem = process.mem
            /\ [process EXCEPT !.errors = TRUE].cycle = process.cycle
        BY <2>1 DEF Process
      <4> QED BY <2>1, <3>2, <4>1
    <3>3. CASE Becomes(w, [process EXCEPT !.errors = TRUE, !.refused = TRUE])
      <4>1. /\ [process EXCEPT !.errors = TRUE, !.refused = TRUE].mem = process.mem
            /\ [process EXCEPT !.errors = TRUE, !.refused = TRUE].cycle = process.cycle
        BY <2>1 DEF Process
      <4> QED BY <2>1, <3>3, <4>1
    <3>4. ASSUME NEW plan, NEW receipt,
                 Becomes(w, [process EXCEPT
                    !.mem = Confirmed(@, m, receipt),
                    !.found = IF receipt.required THEN @ \cup {[member |-> m, plan |-> plan]}
                              ELSE @])
          PROVE  \E next : Like(next)
      <4> DEFINE next == [process EXCEPT
                    !.mem = Confirmed(@, m, receipt),
                    !.found = IF receipt.required THEN @ \cup {[member |-> m, plan |-> plan]}
                              ELSE @]
      <4>1. next.cycle = process.cycle /\ next.mem = Confirmed(process.mem, m, receipt)
        <5> HIDE DEF process
        <5> QED BY <2>1 DEF Process
      <4>2. Confirmed(worker[w].mem, m, receipt).completed = worker[w].mem.completed
        BY FateTypes DEF Confirmed, Registry
      <4>3. Becomes(w, next)
        BY <3>4
      <4> HIDE DEF next, process
      <4> QED BY <2>1, <4>1, <4>2, <4>3
    <3> QED BY <1>4, <3>1, <3>2, <3>3, <3>4 DEF Suppress
  <2>3. /\ NoneOf(w, worker[w].cycle) /\ registry[w].completed < worker[w].cycle
        /\ worker[w].mem.completed = registry[w].completed
    BY <1>4, NotWaiting DEF Suppress, Running
  <2>4. cycles' = cycles
    BY <1>4 DEF Suppress
  <2>5. cycles' \in Nat /\ cycles <= cycles'
    BY <2>4, FateTypes
  <2> QED BY <1>1, <2>2, <2>3, <2>5, CopyFate
<1> QED BY <1>2, <1>3, <1>4

\* The steps that end a cycle: a timeout counts as an error.
LEMMA EndingFate ==
  ASSUME FateInv, ReserveInv', NEW w \in Worker, DryRun(w) \/ NoneLeft(w) \/ Timeout(w)
  PROVE  FateInv'
<1> DEFINE failed == [worker[w] EXCEPT !.errors = TRUE]
<1>1. UNCHANGED <<inflight, cycles>> /\ Running(w) /\ worker[w] \in Process
  BY FateTypes DEF DryRun, NoneLeft, Timeout, Running
<1>2. worker[w].mem.completed = registry[w].completed /\ worker[w].cycle <= cycles
  BY <1>1, FateTypes DEF FateOf
<1>3. failed \in Process /\ failed.mem = worker[w].mem /\ failed.errors
  BY <1>1 DEF Process
<1>4. CASE Timeout(w)
  <2> HIDE DEF failed
  <2> QED BY <1>1, <1>2, <1>3, <1>4, FinishFate DEF Timeout, Ambiguous, failed
<1>5. CASE DryRun(w) \/ NoneLeft(w)
  <2>1. NoneOf(w, worker[w].cycle) /\ Finish(w, worker[w])
    BY <1>1, <1>5, NotWaiting DEF DryRun, NoneLeft
  <2> QED BY <1>1, <1>2, <2>1, FinishFate
<1> QED BY <1>4, <1>5

\* The steps between: one that keeps what is recorded as complete.
LEMMA AskingFate ==
  ASSUME FateInv, ReserveInv', NEW w \in Worker,
         OpenPermits(w) \/ Choose(w) \/ TakeReceipt(w) \/ TakeConflict(w)
  PROVE  FateInv'
<1> DEFINE process == worker[w]
           failed == [process EXCEPT !.errors = TRUE]
           Same(next) == next.mem.completed = process.mem.completed /\ next.cycle = process.cycle
<1>1. /\ UNCHANGED <<inflight, cycles>> /\ Running(w) /\ process.step # "wait"
      /\ process \in Process /\ process.mem \in Registry
  BY FateTypes DEF OpenPermits, Choose, TakeReceipt, TakeConflict, Running
<1>2. /\ NoneOf(w, process.cycle) /\ process.mem.completed = registry[w].completed
      /\ registry[w].completed < process.cycle /\ process.cycle <= cycles /\ cycles \in Nat
      /\ registry[w].completed <= cycles /\ NoneOf(w, registry[w].completed)
  BY <1>1, NotWaiting, FateTypes DEF FateOf
<1>3. failed \in Process /\ failed.mem = process.mem /\ failed.cycle = process.cycle
  BY <1>1 DEF Process
<1>4. ASSUME NEW next \in Process, Same(next), Finish(w, next)
      PROVE  FateInv'
  BY <1>1, <1>2, <1>4, FinishFate
<1>5. ASSUME NEW next, Same(next), Becomes(w, next), UNCHANGED registry
      PROVE  FateInv'
  BY <1>1, <1>2, <1>5, CopyFate
<1>6. ASSUME NEW next, Same(next), Becomes(w, next),
             NEW reg, Save(w, reg), reg.completed = process.mem.completed
      PROVE  FateInv'
  BY <1>1, <1>2, <1>6, WorkerFate
<1>7. CASE OpenPermits(w)
  <2>1. PICK t \in Reading[now] :
         IF FromTheFuture(process.mem, t)
         THEN Becomes(w, Idle) /\ UNCHANGED registry
         ELSE LET free == {c \in process.found : MemberAvailable(process.mem, c.member, t)}
              IN IF process.errors \/ free = {} \/ Remaining(process.mem, t) = 0
                 THEN Finish(w, process)
                 ELSE /\ Becomes(w, [process EXCEPT !.step = "choose", !.found = free, !.at = t,
                                                    !.left = Remaining(process.mem, t)])
                      /\ UNCHANGED registry
    BY <1>7 DEF OpenPermits
  <2> DEFINE free == {c \in process.found : MemberAvailable(process.mem, c.member, t)}
             next == [process EXCEPT !.step = "choose", !.found = free, !.at = t,
                                     !.left = Remaining(process.mem, t)]
  <2>2. next.mem = process.mem /\ next.cycle = process.cycle
    BY <1>1 DEF Process
  <2>3. \/ Becomes(w, Idle) /\ UNCHANGED registry
        \/ Finish(w, process)
        \/ Becomes(w, next) /\ UNCHANGED registry
    BY <2>1
  <2> HIDE DEF next
  <2>4. CASE Becomes(w, Idle) /\ UNCHANGED registry
    <3>1. Idle.step = "idle"
      BY DEF Idle
    <3> QED BY <1>1, <1>2, <2>4, <3>1, CopyFate
  <2>5. Same(process) /\ Same(next)
    BY <2>2
  <2> QED BY <1>1, <1>4, <1>5, <2>3, <2>4, <2>5
<1>8. CASE Choose(w)
  <2>1. PICK c \in process.found :
          LET reg == Reserve(process.mem, c.member, process.cycle, process.at) IN
          /\ SavedFirst(w, reg)
          /\ Becomes(w, [process EXCEPT !.step = "post", !.mem = reg, !.found = @ \ {c},
                                        !.left = @ - 1, !.member = c.member, !.retries = 0])
    BY <1>8 DEF Choose
  <2> DEFINE reg == Reserve(process.mem, c.member, process.cycle, process.at)
             next == [process EXCEPT !.step = "post", !.mem = reg, !.found = @ \ {c},
                                     !.left = @ - 1, !.member = c.member, !.retries = 0]
  <2>2. reg.completed = process.mem.completed
    BY <1>1 DEF Reserve, Registry
  <2>3. next.cycle = process.cycle /\ next.mem = reg
    <3> HIDE DEF reg
    <3> QED BY <1>1 DEF Process
  <2>4. Save(w, reg) /\ Becomes(w, next)
    BY <2>1 DEF SavedFirst
  <2> HIDE DEF next, reg
  <2>5. Same(next)
    BY <2>2, <2>3
  <2> QED BY <1>6, <2>2, <2>4, <2>5
<1>9. CASE TakeConflict(w)
  <2> DEFINE next == [process EXCEPT !.step = "post", !.retries = @ + 1, !.answer = NoAnswer]
  <2>1. next.mem = process.mem /\ next.cycle = process.cycle
    BY <1>1 DEF Process
  <2>2. Finish(w, failed) \/ (Becomes(w, next) /\ UNCHANGED registry)
    BY <1>9 DEF TakeConflict
  <2> HIDE DEF next, failed
  <2>3. Same(next) /\ Same(failed)
    BY <1>3, <2>1
  <2> QED BY <1>3, <1>4, <1>5, <2>2, <2>3
<1>10. CASE TakeReceipt(w)
  <2> DEFINE receipt == process.answer.receipt
             status == IF receipt.reserved THEN "confirmed"
                       ELSE IF receipt.result = "deferred" THEN "server-budget-exhausted"
                       ELSE "no-longer-required"
             kept == Confirmed(process.mem, process.member, receipt)
             reg == Settled(kept, status)
             settled == [process EXCEPT !.step = "choose", !.mem = reg, !.answer = NoAnswer]
  <2>1. process.member \in Member
    BY <1>10 DEF TakeReceipt, FateInv, ReserveInv, BudgetInv, TypeOK
  <2>2. kept \in Registry /\ kept.completed = process.mem.completed
    <3>1. kept \in Registry
      BY <1>1, <2>1, ConfirmedType
    <3> QED BY <1>1, <3>1 DEF Confirmed, Registry
  <2>3. reg \in Registry /\ reg.completed = kept.completed
    <3> HIDE DEF kept
    <3> QED BY <2>2, SettledType DEF Settled, Registry
  <2>4. settled \in Process /\ settled.cycle = process.cycle /\ settled.mem = reg
    <3> HIDE DEF process, reg
    <3> QED BY <1>1, <2>3 DEF Process, NoAnswer, Answers
  <2>5. \/ Finish(w, failed)
        \/ Finish(w, settled)
        \/ Save(w, reg) /\ Becomes(w, settled)
    BY <1>10 DEF TakeReceipt
  <2> HIDE DEF settled, reg, kept, failed
  <2>6. Same(settled) /\ Same(failed) /\ reg.completed = process.mem.completed
    BY <1>3, <2>2, <2>3, <2>4
  <2> QED BY <1>3, <1>4, <1>6, <2>4, <2>5, <2>6
<1> QED BY <1>7, <1>8, <1>9, <1>10

\* A request is made when none of its cycle is left, and is the one waited for.
LEMMA PostFate ==
  ASSUME FateInv, ReserveInv', NEW w \in Worker, Post(w)
  PROVE  FateInv'
<1> DEFINE process == worker[w]
           next == [process EXCEPT !.step = "wait"]
           request == [worker |-> w, member |-> process.member, cycle |-> process.cycle,
                       asked |-> Asked(w, process.member), step |-> "sent", at |-> Never,
                       base |-> {}, ticket |-> "none"]
<1>1. /\ UNCHANGED <<registry, cycles>> /\ Running(w) /\ process.step # "wait"
      /\ process \in Process /\ inflight' = inflight \cup {request} /\ Becomes(w, next)
  BY FateTypes DEF Post, Running
<1>2. /\ NoneOf(w, process.cycle) /\ process.mem.completed = registry[w].completed
      /\ registry[w].completed < process.cycle /\ process.cycle <= cycles
  BY <1>1, NotWaiting, FateTypes
<1>3. /\ next.step = "wait" /\ next.mem = process.mem /\ next.cycle = process.cycle
      /\ next.member = process.member
  BY <1>1 DEF Process
<1>4. request.worker = w /\ request.cycle = process.cycle /\ request.member = process.member
  OBVIOUS
<1>5. /\ worker'[w] = next
      /\ \A v \in Worker \ {w} : worker'[v] = worker[v]
  BY <1>1, FateTypes DEF Becomes
<1> HIDE DEF next, request
<1>6. FateOf(w)'
  BY <1>1, <1>2, <1>3, <1>4, <1>5, FateTypes DEF FateOf, Running, NoneOf
<1>7. ASSUME NEW v \in Worker \ {w}
      PROVE  FateOf(v)'
  BY <1>1, <1>4, <1>5, <1>7, FateTypes DEF FateOf, Running, NoneOf
<1> QED BY <1>6, <1>7 DEF FateInv

\* A request whose transaction is opened stays the request it is.
LEMMA BeginFate ==
  ASSUME FateInv, ReserveInv', NEW r \in inflight, Begin(r)
  PROVE  FateInv'
<1> DEFINE opened == [r EXCEPT !.step = "open", !.at = now, !.base = storage,
                               !.ticket = ticket[r.member]]
<1>1. /\ UNCHANGED <<registry, worker, cycles>>
      /\ inflight' = (inflight \ {r}) \cup {opened}
      /\ r \in Request
  BY DEF Begin, FateInv, ReserveInv, BudgetInv, TypeOK
<1>2. opened.worker = r.worker /\ opened.member = r.member /\ opened.cycle = r.cycle
  BY <1>1 DEF Request
<1> HIDE DEF opened
<1>3. ASSUME NEW w \in Worker
      PROVE  FateOf(w)'
  BY <1>1, <1>2, FateTypes DEF FateOf, Running, NoneOf
<1> QED BY <1>3 DEF FateInv

\* A request less, and at most the worker that waited for it goes on.
LEMMA AnswerFate ==
  ASSUME FateInv, ReserveInv', UNCHANGED <<registry, cycles>>, NEW r \in inflight,
         inflight' = inflight \ {r},
         UNCHANGED worker \/ \E answer : Answer(r, answer)
  PROVE  FateInv'
<1>1. CASE UNCHANGED worker
  <2>1. ASSUME NEW w \in Worker
        PROVE  FateOf(w)'
    BY <1>1, FateTypes DEF FateOf, Running, NoneOf
  <2> QED BY <2>1 DEF FateInv
<1>2. ASSUME NEW answer, Answer(r, answer)
      PROVE  FateInv'
  <2>1. ASSUME NEW w \in Worker
        PROVE  FateOf(w)'
    <3> DEFINE taken == [worker[w] EXCEPT !.step = "answered", !.answer = answer]
    <3>1. /\ taken.mem = worker[w].mem /\ taken.cycle = worker[w].cycle
          /\ taken.step = "answered"
      BY FateTypes DEF Process
    <3>2. \/ worker'[w] = worker[w]
          \/ /\ w = r.worker /\ worker[w].step = "wait" /\ worker[w].cycle = r.cycle
             /\ worker'[w] = taken
      BY <1>2, FateTypes DEF Answer
    <3> HIDE DEF taken
    <3>3. CASE worker'[w] = worker[w]
      BY <3>3, FateTypes DEF FateOf, Running, NoneOf
    <3>4. CASE /\ w = r.worker /\ worker[w].step = "wait" /\ worker[w].cycle = r.cycle
               /\ worker'[w] = taken
      <4>1. \A q \in inflight' : q.worker = w => q.cycle # worker[w].cycle
        BY <3>4, FateTypes DEF FateOf, Running
      <4> QED BY <3>1, <3>4, <4>1, FateTypes DEF FateOf, Running, NoneOf
    <3> QED BY <3>2, <3>3, <3>4
  <2> QED BY <2>1 DEF FateInv
<1> QED BY <1>1, <1>2

\* Every step keeps the invariant.
LEMMA FateInvStep == FateInv /\ [Next]_vars => FateInv'
<1> SUFFICES ASSUME FateInv, [Next]_vars PROVE FateInv'
  OBVIOUS
<1>1. ReserveInv'
  BY ReserveInvStep DEF FateInv
<1>2. ASSUME NEW w \in Worker, Cycle(w)
      PROVE  FateInv'
  BY <1>1, <1>2, BeginningFate, EndingFate, AskingFate, PostFate DEF Cycle
<1>3. ASSUME NEW r \in inflight, Handle(r)
      PROVE  FateInv'
  <2>1. CASE Begin(r)
    BY <1>1, <2>1, BeginFate
  <2>2. CASE Decline(r) \/ Commit(r) \/ Conflict(r) \/ Lose(r)
    BY <1>1, <2>2, AnswerFate DEF Decline, Commit, Conflict, Lose, Answer
  <2> QED BY <1>3, <2>1, <2>2 DEF Handle
<1>4. CASE (\E m \in Member : MoveTicket(m)) \/ Tick \/ UNCHANGED vars
  <2>1. UNCHANGED <<inflight, registry, worker, cycles>>
    BY <1>4 DEF MoveTicket, Tick, vars
  <2>2. ASSUME NEW w \in Worker
        PROVE  FateOf(w)'
    BY <2>1, FateTypes DEF FateOf, Running, NoneOf
  <2> QED BY <1>1, <2>2 DEF FateInv
<1> QED BY <1>2, <1>3, <1>4 DEF Next

\* At first nothing is at the server and nothing is recorded.
LEMMA FateInvInit == Init => FateInv
<1> SUFFICES ASSUME Init PROVE FateInv
  OBVIOUS
<1>1. \A w \in Worker : worker[w].step = "idle" /\ registry[w].completed = 0
  BY DEF Init, Idle, Fresh, Baselined
<1>2. inflight = {} /\ cycles = 0
  BY DEF Init
<1> QED BY <1>1, <1>2, ReserveInvInit DEF FateInv, FateOf, Running, NoneOf

\* A registry says a cycle is complete only when no request of that cycle is left at
\* the server: lastCompletedAt never covers a request whose outcome is open.
THEOREM GateCompletedIsDeterminate == Spec => []CompletedIsDeterminate
<1>1. FateInv => CompletedIsDeterminate
  <2> SUFFICES ASSUME FateInv, NEW r \in inflight
               PROVE  registry[r.worker].completed # r.cycle
    BY DEF CompletedIsDeterminate
  <2> QED BY FateTypes DEF FateOf, NoneOf
<1> QED BY <1>1, FateInvInit, FateInvStep, PTL DEF Spec
=============================================================================
