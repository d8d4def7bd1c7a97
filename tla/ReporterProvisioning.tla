------------------------- MODULE ReporterProvisioning -------------------------
(***************************************************************************)
(* The account-audit worker creates a missing Helpdesk reporter            *)
(* (camcore-account-audit/runner.py).                                      *)
(*                                                                         *)
(* A cycle asks the app about one member after the other.  When the app    *)
(* finds no unique account with the member's email, the worker reads the   *)
(* user directory page by page, creates an account if no page showed the   *)
(* email, verifies what the server answers and what a second request reads *)
(* back, and asks again.  An account that is not what was asked for trips  *)
(* a breaker that only a restart resets.                                   *)
(*                                                                         *)
(* The server may carry out a creation after the worker stopped waiting    *)
(* for it; staff and members change the directory meanwhile.  Emails of    *)
(* members are distinct, so a member stands for its email.                 *)
(***************************************************************************)
EXTENDS Naturals, Sequences, FiniteSets

CONSTANTS
  Member,       \* members that wait for their welcome, each with an email
  Nobody,       \* no member
  Outsider,     \* a login, or an email, that belongs to no member
  Hidden,       \* an email the server does not show
  MaxPerCycle,  \* REPORTER_PROVISIONING_MAX_PER_CYCLE
  PageSize,     \* USER_PAGE_SIZE
  MaxPages,     \* USER_MAX_PAGES
  Delays,       \* length of REPORTER_VISIBILITY_RETRY_DELAYS_SECONDS
  MaxCycles,    \* bound: audit cycles
  MaxRestarts,  \* bound: restarts of the worker
  MaxFaults,    \* bound: requests that fail on the way
  MaxOthers     \* bound: changes of the directory by others

ASSUME ProvisioningAssumption ==
  /\ {Nobody, Outsider, Hidden} \cap Member = {}
  /\ Outsider # Hidden
  /\ MaxPerCycle \in Nat \ {0}
  /\ PageSize \in Nat \ {0}
  /\ MaxPages \in Nat \ {0}
  /\ Delays \in Nat
  /\ {MaxCycles, MaxRestarts, MaxFaults, MaxOthers} \subseteq Nat

VARIABLES
  directory, \* YouTrack's accounts, in the order of its pages
  visible,   \* whether the worker's token may read emails
  posts,     \* every creation that was sent
  worker,    \* the member at hand and how far the worker is with it
  todo,      \* members this cycle has not asked about
  count,     \* created_count
  tripped,   \* _TRIPPED_REASON is set
  process,   \* which process of the worker runs
  cycle, faults, others

vars == <<directory, visible, posts, worker, todo, count, tripped, process,
          cycle, faults, others>>

Turn(step, m) == [step |-> step, member |-> m, page |-> 0, match |-> FALSE,
                  mails |-> FALSE, raced |-> FALSE, tries |-> 0]
Resting == Turn("rest", Nobody)
Between == Turn("next", Nobody)

(***************************************************************************)
(* The server: its directory and the app's findUniqueByEmail.              *)
(***************************************************************************)
Account == [login : Member \cup {Outsider}, mail : Member \cup {Outsider, Hidden},
            reporter : BOOLEAN, post : Nat]

\* An account the worker did not make.
Other(m) == [login |-> Outsider, mail |-> m, reporter |-> TRUE, post |-> 0]
Staff == Other(Outsider)

Unique(m) ==
  \E k \in DOMAIN directory : /\ directory[k].mail = m
                              /\ \A l \in DOMAIN directory \ {k} : directory[l].mail # m

\* The email a request of the worker reads, if any.
Mail(a) == IF visible THEN a.mail ELSE Hidden

Page(p) == {k \in DOMAIN directory : p * PageSize < k /\ k <= (p + 1) * PageSize}
Full(p) == (p + 1) * PageSize <= Len(directory)

\* Whoever else changes the directory overtakes the lookup and the creations
\* that are on their way.
Overtaken ==
  /\ worker' = [worker EXCEPT !.raced = worker.step = "lookup"]
  /\ posts' = [i \in DOMAIN posts |->
                IF posts[i].answer = "none" THEN [posts[i] EXCEPT !.raced = TRUE] ELSE posts[i]]
  /\ others < MaxOthers /\ others' = others + 1
  /\ UNCHANGED <<visible, todo, count, tripped, process, cycle, faults>>

\* A member without an account writes to the Helpdesk and gets one.
Arrive(m) ==
  /\ \A k \in DOMAIN directory : directory[k].mail # m
  /\ directory' = Append(directory, Other(m))
  /\ Overtaken

\* Staff remove an account; the ones behind it move up.
Leave(k) ==
  /\ directory[k] # Staff
  /\ directory' = [l \in 1..(Len(directory) - 1) |->
                    directory[IF l < k THEN l ELSE l + 1]]
  /\ Overtaken

(***************************************************************************)
(* The worker.                                                             *)
(***************************************************************************)
\* login_for.  A mistake: another login for every request.
FreshLogin(m, i) == Outsider
LoginFor(m, i) == m

\* _verify_identity: the login, the email and the type that were asked for.
Right(a, m, i) == a.login = LoginFor(m, i) /\ Mail(a) = m /\ a.reporter

\* The properties `enabled` and `cycle_budget_available`; the switch and the token
\* are set.  A mistake: the breaker is forgotten.
Forgotten == TRUE
Enabled == ~tripped
Budget == count < MaxPerCycle

\* The member's turn is over, by an answer or by an error; the cycle goes on.
GiveUp == worker' = Between

\* A cycle, with a client of its own.
StartCycle ==
  /\ worker.step = "rest" /\ cycle < MaxCycles
  /\ cycle' = cycle + 1
  /\ count' = 0
  /\ todo' = Member
  /\ worker' = Between
  /\ UNCHANGED <<directory, visible, posts, tripped, process, faults, others>>

EndCycle ==
  /\ worker.step = "next" /\ todo = {}
  /\ worker' = Resting
  /\ UNCHANGED <<directory, visible, posts, todo, count, tripped, process, cycle,
                 faults, others>>

\* sync, its first request: only a missing reporter leads to the provisioner.
Ask(m) ==
  /\ worker.step = "next" /\ m \in todo
  /\ todo' = todo \ {m}
  /\ worker' = IF ~Unique(m) /\ Enabled /\ Budget
               THEN Turn("lookup", m)
               ELSE Between
  /\ UNCHANGED <<directory, visible, posts, count, tripped, process, cycle, faults, others>>

\* lookup: what enumerate_users has read so far.
Matched(p) == worker.match \/ \E k \in Page(p) : Mail(directory[k]) = worker.member
Mails(p) == worker.mails \/ \E k \in Page(p) : Mail(directory[k]) # Hidden

\* A full page asks for the next one, as long as there may be one.
ReadPage ==
  LET p == worker.page IN
  /\ worker.step = "lookup"
  /\ Full(p)
  /\ worker' = IF p + 1 < MaxPages
               THEN [worker EXCEPT !.page = p + 1, !.match = Matched(p), !.mails = Mails(p)]
               ELSE Between
  /\ UNCHANGED <<directory, visible, posts, todo, count, tripped, process, cycle,
                 faults, others>>

\* What the whole directory shows: nothing with this email, and emails at all.  A
\* mistake: a directory without emails is believed.
Believed(p) == ~Matched(p)
NoMatch(p) == ~Matched(p) /\ Mails(p)

\* create: the request that follows a short page.
Post ==
  /\ worker.step = "lookup"
  /\ ~Full(worker.page) /\ NoMatch(worker.page)
  /\ posts' = Append(posts, [member |-> worker.member, process |-> process,
                             answer |-> "none", made |-> "nothing", verdict |-> "none",
                             raced |-> worker.raced])
  /\ worker' = Turn("post", worker.member)
  /\ UNCHANGED <<directory, visible, todo, count, tripped, process, cycle, faults, others>>

\* ensure: an account with this email exists; or the directory is not believed.
Keep ==
  /\ worker.step = "lookup"
  /\ ~Full(worker.page) /\ ~NoMatch(worker.page)
  /\ GiveUp
  /\ UNCHANGED <<directory, visible, posts, todo, count, tripped, process, cycle,
                 faults, others>>

\* The creation the worker waits for.
Last == Len(posts)
Waiting(i) == worker.step = "post" /\ i = Last

\* The server carries the creation out, or not: a login is taken once.  It may make
\* something else than it was asked for, and say so or not.
Answer(i) ==
  LET m == posts[i].member IN
  /\ posts[i].answer = "none"
  /\ \/ /\ posts' = [posts EXCEPT ![i].answer = "refused"]
        /\ UNCHANGED directory
     \/ /\ \A k \in DOMAIN directory :
             directory[k].login # LoginFor(m, i) \/ LoginFor(m, i) = Outsider
        /\ \E mail \in {m, Outsider}, reporter \in BOOLEAN :
             LET a == [login |-> LoginFor(m, i), mail |-> mail, reporter |-> reporter,
                       post |-> i] IN
             /\ directory' = Append(directory, a)
             /\ \E says \in IF Waiting(i) THEN {"right", "wrong"} ELSE {"late"} :
                  posts' = [posts EXCEPT ![i].answer = says,
                                         ![i].made = IF Right(a, m, i) THEN "right"
                                                                       ELSE "wrong"]
  /\ UNCHANGED <<visible, worker, todo, count, tripped, process, cycle, faults, others>>

\* The breaker.
Trip == tripped' = TRUE /\ GiveUp

\* create: the answer, counted before it is verified.
Told ==
  /\ worker.step = "post" /\ posts[Last].answer \in {"right", "wrong"}
  /\ count' = count + 1
  /\ \/ /\ posts[Last].answer = "wrong"
        /\ posts' = [posts EXCEPT ![Last].answer = "told", ![Last].verdict = "bad"]
        /\ Trip
     \/ /\ posts[Last].answer = "right"
        /\ posts' = [posts EXCEPT ![Last].answer = "told"]
        /\ worker' = [worker EXCEPT !.step = "readback"]
        /\ UNCHANGED tripped
  /\ UNCHANGED <<directory, visible, todo, process, cycle, faults, others>>

\* create: an HTTP error, or no answer within the timeout: the creation itself may
\* still be on its way.  An answer that is not JSON is one that never comes.
NotTold ==
  /\ worker.step = "post" /\ posts[Last].answer \in {"none", "refused"}
  /\ GiveUp
  /\ UNCHANGED <<directory, visible, posts, todo, count, tripped, process, cycle,
                 faults, others>>

\* create: the account is read back, if it is still there.
ReadBack ==
  /\ worker.step = "readback"
  /\ \/ /\ \A k \in DOMAIN directory : directory[k].post # Last
        /\ GiveUp /\ UNCHANGED <<posts, tripped>>
     \/ \E k \in DOMAIN directory :
          /\ directory[k].post = Last
          /\ \/ /\ Right(directory[k], worker.member, Last)
                /\ posts' = [posts EXCEPT ![Last].verdict = "good"]
                /\ worker' = [worker EXCEPT !.step = "retry"]
                /\ UNCHANGED tripped
             \/ /\ ~Right(directory[k], worker.member, Last)
                /\ posts' = [posts EXCEPT ![Last].verdict = "bad"]
                /\ Trip
  /\ UNCHANGED <<directory, visible, todo, count, process, cycle, faults, others>>

\* sync: the plan is asked for again until the app finds the account, or the delays
\* are used up.  A mistake: one request too many.
OneMore == worker.tries <= Delays
More == worker.tries < Delays
AskAgain ==
  /\ worker.step = "retry"
  /\ \/ Unique(worker.member) /\ GiveUp
     \/ More /\ worker' = [worker EXCEPT !.tries = @ + 1]
     \/ ~More /\ GiveUp
  /\ UNCHANGED <<directory, visible, posts, todo, count, tripped, process, cycle,
                 faults, others>>

\* A request that reads gets no answer, or an error.
RequestFails ==
  /\ faults < MaxFaults /\ faults' = faults + 1
  /\ \/ /\ worker.step \in {"lookup", "readback", "retry"}
        /\ UNCHANGED todo
     \/ /\ worker.step = "next"
        /\ \E m \in todo : todo' = todo \ {m}
  /\ GiveUp
  /\ UNCHANGED <<directory, visible, posts, count, tripped, process, cycle, others>>

\* The process dies and is started again; its requests are not called back.
Restart ==
  /\ process < MaxRestarts
  /\ process' = process + 1
  /\ tripped' = FALSE
  /\ count' = 0
  /\ todo' = {}
  /\ worker' = Resting
  /\ UNCHANGED <<directory, visible, posts, cycle, faults, others>>

-----------------------------------------------------------------------------
\* The directory before the first cycle: the service's own account, and perhaps
\* two of one member that other systems made.
Init ==
  /\ directory \in {<<Staff>>} \cup
       {<<Staff, Other(m), Other(m)>> : m \in Member}
  /\ visible \in BOOLEAN
  /\ posts = <<>>
  /\ worker = Resting
  /\ todo = {}
  /\ count = 0
  /\ tripped = FALSE
  /\ process = 0
  /\ cycle = 0
  /\ faults = 0
  /\ others = 0

Next ==
  \/ StartCycle \/ EndCycle
  \/ \E m \in Member : Ask(m)
  \/ ReadPage \/ Post \/ Keep
  \/ Told \/ NotTold \/ ReadBack \/ AskAgain
  \/ RequestFails
  \/ Restart
  \/ \E i \in DOMAIN posts : Answer(i)
  \/ \E m \in Member : Arrive(m)
  \/ \E k \in DOMAIN directory : Leave(k)

Spec == Init /\ [][Next]_vars

-----------------------------------------------------------------------------
(***************************************************************************)
(* Properties.                                                             *)
(***************************************************************************)
Creation == [member : Member, process : Nat,
             answer : {"none", "refused", "late", "right", "wrong", "told"},
             made : {"nothing", "right", "wrong"},
             verdict : {"none", "bad", "good"}, raced : BOOLEAN]

\* Types; and what the worker remembers of the member at hand fits its step.
Progress == [step : {"rest", "next", "lookup", "post", "readback", "retry"},
             member : Member \cup {Nobody}, page : 0..(MaxPages - 1), match : BOOLEAN,
             mails : BOOLEAN, raced : BOOLEAN, tries : 0..Delays]
TypeOK ==
  /\ directory \in Seq(Account)
  /\ posts \in Seq(Creation)
  /\ worker \in Progress
  /\ worker.step \notin {"rest", "next"} => worker.member \in Member
  /\ worker.step \in {"post", "readback", "retry"} =>
       posts # <<>> /\ posts[Last].member = worker.member
  /\ todo \subseteq Member
  /\ visible \in BOOLEAN /\ tripped \in BOOLEAN
  /\ count \in Nat /\ process \in Nat /\ cycle \in Nat /\ faults \in Nat /\ others \in Nat

\* One questionable account stops the process: no creation of a process follows
\* one it found questionable, and a questionable account it went on after is one
\* whose check it never finished.
BreakerHolds ==
  \A i, j \in DOMAIN posts :
    i < j /\ posts[i].process = posts[j].process =>
      /\ posts[i].verdict # "bad"
      /\ posts[i].made = "wrong" => posts[i].verdict = "none"

\* A member gets one account from the worker, even when an answer is lost and a
\* later cycle, or a later process, asks again before the first creation is done.
OneAccountPerMember ==
  \A k, l \in DOMAIN directory :
    k # l /\ directory[k].post # 0 /\ directory[l].post # 0 =>
      posts[directory[k].post].member # posts[directory[l].post].member

\* The worker makes an email ambiguous, and so keeps its member from ever being
\* matched, only when somebody else changed the directory after the lookup began.
DuplicateNeedsRace ==
  \A k, l \in DOMAIN directory :
    /\ k # l /\ directory[k].post # 0
    /\ directory[k].mail = directory[l].mail /\ directory[k].mail \in Member
    => posts[directory[k].post].raced

\* "At most one questionable account can therefore be created per worker lifetime."
AtMostOneQuestionable ==
  \A i, j \in DOMAIN posts :
    i # j /\ posts[i].process = posts[j].process =>
      ~(posts[i].made = "wrong" /\ posts[j].made = "wrong")
=============================================================================
