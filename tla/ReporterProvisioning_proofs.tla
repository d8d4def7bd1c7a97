--------------------- MODULE ReporterProvisioning_proofs ---------------------
(***************************************************************************)
(* The promises of ReporterProvisioning, for any number of members, pages, *)
(* cycles, restarts and changes by others.                                 *)
(***************************************************************************)
EXTENDS ReporterProvisioning, TLAPS

\* The creation an account comes from.
From(k) == posts[directory[k].post]

\* An account the worker made has the login of its member, and its email or none
\* of a member's; and it was not questionable if it now passes the check.
AccountInv ==
  \A k \in DOMAIN directory : directory[k].post # 0 =>
    /\ directory[k].post \in DOMAIN posts
    /\ directory[k].login = From(k).member
    /\ directory[k].mail \in {From(k).member, Outsider}
    /\ From(k).answer # "none"
    /\ Right(directory[k], From(k).member, directory[k].post) => From(k).made = "right"

\* While nobody overtakes it, a creation on its way finds its email at most at an
\* account of an earlier creation for the same member.
PostInv ==
  \A i \in DOMAIN posts : posts[i].answer = "none" /\ ~posts[i].raced =>
    \A k \in DOMAIN directory : directory[k].mail = posts[i].member => directory[k].post # 0

\* So does a lookup, on the pages it has read; and it has not seen emails that are
\* not visible.
LookupInv ==
  /\ worker.mails => visible
  /\ worker.step = "lookup" /\ ~worker.raced /\ ~worker.match /\ visible =>
       \A k \in DOMAIN directory :
         k <= worker.page * PageSize /\ directory[k].mail = worker.member =>
           directory[k].post # 0

\* A creation found questionable has tripped the breaker of its process.
VerdictInv ==
  /\ tripped => worker.step \in {"rest", "next"}
  /\ \A i \in DOMAIN posts :
       /\ posts[i].process <= process
       /\ posts[i].verdict = "bad" /\ posts[i].process = process => tripped
       /\ posts[i].verdict = "good" => posts[i].made = "right"
       /\ posts[i].answer = "none" => posts[i].verdict = "none"

ProvisioningInv ==
  /\ TypeOK /\ AccountInv /\ PostInv /\ LookupInv /\ VerdictInv
  /\ BreakerHolds /\ OneAccountPerMember /\ DuplicateNeedsRace

-----------------------------------------------------------------------------
USE ProvisioningAssumption

\* The worker's turns are of their type.
LEMMA Turns ==
  /\ \A step \in {"rest", "next", "lookup", "post"}, m \in Member \cup {Nobody} :
       /\ Turn(step, m) \in Progress
       /\ Turn(step, m).step = step /\ Turn(step, m).member = m /\ Turn(step, m).page = 0
       /\ ~Turn(step, m).mails
  /\ Resting \in Progress /\ Resting.step = "rest" /\ ~Resting.mails
  /\ Between \in Progress /\ Between.step = "next" /\ ~Between.mails
<1>1. 0 \in 0..(MaxPages - 1) /\ 0 \in 0..Delays
  OBVIOUS
<1>2. QED
  BY <1>1 DEF Turn, Resting, Between, Progress

\* The start.
LEMMA Initially == Init => ProvisioningInv
<1> SUFFICES ASSUME Init PROVE ProvisioningInv
  OBVIOUS
<1>1. \A m \in Member \cup {Outsider} : Other(m) \in Account /\ Other(m).post = 0
  BY DEF Other, Account
<1>2. Staff \in Account /\ Staff.post = 0
  BY <1>1 DEF Staff
<1>3. /\ directory \in Seq(Account)
      /\ \A k \in DOMAIN directory : directory[k].post = 0
  <2>1. CASE directory = <<Staff>>
    BY <1>2, <2>1
  <2>2. ASSUME NEW m \in Member, directory = <<Staff, Other(m), Other(m)>>
        PROVE  /\ directory \in Seq(Account)
               /\ \A k \in DOMAIN directory : directory[k].post = 0
    BY <1>1, <1>2, <2>2
  <2>3. QED
    BY <2>1, <2>2 DEF Init
<1>4. TypeOK
  <2>1. posts \in Seq(Creation)
    BY DEF Init
  <2>2. QED
    BY <1>3, <2>1, Turns DEF Init, TypeOK
<1>5. AccountInv /\ PostInv /\ LookupInv /\ VerdictInv
  BY <1>3, Turns DEF Init, AccountInv, PostInv, LookupInv, VerdictInv
<1>6. BreakerHolds /\ OneAccountPerMember /\ DuplicateNeedsRace
  BY <1>3 DEF Init, BreakerHolds, OneAccountPerMember, DuplicateNeedsRace
<1>7. QED
  BY <1>4, <1>5, <1>6 DEF ProvisioningInv

\* Steps that leave the accounts and the creations alone.
LEMMA Quiet ==
  ASSUME ProvisioningInv, UNCHANGED <<directory, posts, visible>>
  PROVE  AccountInv' /\ PostInv' /\ BreakerHolds' /\ OneAccountPerMember' /\ DuplicateNeedsRace'
BY DEF ProvisioningInv, AccountInv, PostInv, BreakerHolds, OneAccountPerMember,
       DuplicateNeedsRace, From, Right, Mail, LoginFor

\* The worker turns to another member, or rests.
LEMMA Turning ==
  ASSUME ProvisioningInv, UNCHANGED <<directory, posts, visible, tripped, process, cycle, others>>,
         worker' \in {Resting, Between},
         todo' \subseteq Member, count' \in Nat, faults' \in Nat
  PROVE  ProvisioningInv'
<1>1. TypeOK'
  BY Turns DEF ProvisioningInv, TypeOK, Last
<1>2. LookupInv' /\ VerdictInv'
  BY Turns DEF ProvisioningInv, LookupInv, VerdictInv
<1>3. QED
  BY <1>1, <1>2, Quiet DEF ProvisioningInv

LEMMA QuietSteps ==
  ASSUME ProvisioningInv,
         \/ StartCycle \/ EndCycle \/ (\E m \in Member : Ask(m)) \/ ReadPage \/ Keep
         \/ NotTold \/ AskAgain \/ RequestFails \/ Restart
  PROVE  ProvisioningInv'
<1> USE DEF ProvisioningInv
<1>1. CASE StartCycle
  <2>1. TypeOK'
    BY <1>1, Turns DEF StartCycle, TypeOK, Last
  <2>2. LookupInv' /\ VerdictInv'
    BY <1>1, Turns DEF StartCycle, LookupInv, VerdictInv
  <2>3. QED
    BY <1>1, <2>1, <2>2, Quiet DEF StartCycle
<1>2. CASE EndCycle
  BY <1>2, Turning DEF EndCycle, TypeOK
<1>3. CASE \E m \in Member : Ask(m)
  <2> PICK m \in Member : Ask(m)
    BY <1>3
  <2>1. TypeOK'
    BY Turns DEF Ask, TypeOK, Last
  <2>2. worker'.step = "lookup" => worker'.page = 0 /\ ~tripped
    BY Turns DEF Ask, Enabled
  <2>3. LookupInv'
    <3>1. ASSUME NEW k \in DOMAIN directory, k <= 0 * PageSize PROVE FALSE
      BY <3>1 DEF TypeOK
    <3>2. QED
      BY <2>2, <3>1, Turns DEF Ask, LookupInv
  <2>4. VerdictInv'
    BY <2>2, Turns DEF Ask, VerdictInv
  <2>5. QED
    BY <2>1, <2>3, <2>4, Quiet DEF Ask
<1>4. CASE ReadPage
  <2>1. TypeOK'
    <3> DEFINE p == worker.page
    <3>1. /\ worker.step = "lookup" /\ p \in 0..(MaxPages - 1)
          /\ Matched(p) \in BOOLEAN /\ Mails(p) \in BOOLEAN
      BY <1>4 DEF ReadPage, TypeOK, Progress, Matched, Mails
    <3>2. CASE p + 1 < MaxPages
      <4>1. worker' = [worker EXCEPT !.page = p + 1, !.match = Matched(p), !.mails = Mails(p)]
        BY <1>4, <3>2 DEF ReadPage
      <4>2. p + 1 \in 0..(MaxPages - 1)
        BY <3>1, <3>2
      <4>3. worker' \in Progress /\ worker'.step = "lookup" /\ worker'.member = worker.member
        BY <3>1, <4>1, <4>2 DEF TypeOK, Progress
      <4>4. QED
        BY <1>4, <3>1, <4>3 DEF ReadPage, TypeOK
    <3>3. CASE ~(p + 1 < MaxPages)
      BY <1>4, <3>3, Turns DEF ReadPage, TypeOK
    <3>4. QED
      BY <3>2, <3>3
  <2>2. LookupInv'
    <3>0. worker'.mails => visible'
      BY <1>4, Turns DEF ReadPage, LookupInv, Mails, Mail, TypeOK, Progress
    <3> SUFFICES ASSUME worker'.step = "lookup", ~worker'.raced, ~worker'.match, visible,
                        NEW k \in DOMAIN directory, k <= worker'.page * PageSize,
                        directory[k].mail = worker'.member
                 PROVE  directory[k].post # 0
      BY <1>4, <3>0 DEF ReadPage, LookupInv
    <3>1. /\ worker' = [worker EXCEPT !.page = worker.page + 1, !.match = Matched(worker.page),
                                      !.mails = Mails(worker.page)]
          /\ worker.step = "lookup"
      BY <1>4, Turns DEF ReadPage
    <3>2. /\ worker'.page = worker.page + 1 /\ worker'.member = worker.member
          /\ worker'.raced = worker.raced /\ worker'.match = Matched(worker.page)
      BY <3>1 DEF TypeOK
    <3>3. k \notin Page(worker.page)
      BY <3>2 DEF Matched, Mail
    <3>4. k <= worker.page * PageSize
      <4>1. k \in Nat /\ k <= (worker.page + 1) * PageSize
        BY <3>2 DEF TypeOK
      <4>2. worker.page * PageSize \in Nat
        BY DEF TypeOK, Progress
      <4>3. ~(worker.page * PageSize < k)
        BY <3>3, <4>1 DEF Page
      <4>4. QED
        BY <4>1, <4>2, <4>3
    <3>5. QED
      BY <3>1, <3>2, <3>4 DEF LookupInv, Matched
  <2>3. VerdictInv'
    BY <1>4, Turns DEF ReadPage, VerdictInv
  <2>4. QED
    BY <1>4, <2>1, <2>2, <2>3, Quiet DEF ReadPage
<1>5. CASE Keep
  BY <1>5, Turning DEF Keep, TypeOK, GiveUp
<1>6. CASE NotTold
  BY <1>6, Turning DEF NotTold, TypeOK, GiveUp
<1>7. CASE AskAgain
  <2>1. CASE GiveUp
    BY <1>7, <2>1, Turning DEF AskAgain, TypeOK, GiveUp
  <2>2. CASE More /\ worker' = [worker EXCEPT !.tries = @ + 1]
    <3>1. TypeOK'
      <4>1. worker'.tries \in 0..Delays /\ worker' \in Progress
        <5>1. worker.tries \in 0..Delays /\ worker.tries + 1 <= Delays
          BY <2>2 DEF TypeOK, Progress, More
        <5>2. worker.tries + 1 \in 0..Delays
          BY <5>1
        <5>3. QED
          BY <2>2, <5>2 DEF TypeOK, Progress
      <4>2. worker'.step = worker.step /\ worker'.member = worker.member
        BY <2>2 DEF TypeOK, Progress
      <4>3. QED
        BY <1>7, <4>1, <4>2 DEF AskAgain, TypeOK, Last
    <3>2. LookupInv' /\ VerdictInv'
      BY <1>7, <2>2 DEF AskAgain, LookupInv, VerdictInv, TypeOK
    <3>3. QED
      BY <1>7, <3>1, <3>2, Quiet DEF AskAgain
  <2>3. QED
    BY <1>7, <2>1, <2>2 DEF AskAgain
<1>8. CASE RequestFails
  <2>1. todo' \subseteq Member /\ faults' \in Nat
    BY <1>8 DEF RequestFails, TypeOK
  <2>2. QED
    BY <1>8, <2>1, Turning DEF RequestFails, TypeOK, GiveUp
<1>9. CASE Restart
  <2>1. TypeOK'
    <3>1. worker' \in Progress /\ worker'.step = "rest"
      BY <1>9, Turns DEF Restart
    <3>2. process' \in Nat /\ count' \in Nat /\ todo' \subseteq Member
      BY <1>9 DEF Restart, TypeOK
    <3>3. tripped' \in BOOLEAN
      BY <1>9 DEF Restart
    <3>4. QED
      BY <1>9, <3>1, <3>2, <3>3 DEF Restart, TypeOK
  <2>2. LookupInv' /\ VerdictInv'
    <3>1. \A i \in DOMAIN posts : posts[i] \in Creation
      BY DEF TypeOK
    <3>2. \A i \in DOMAIN posts : posts[i].process <= process' /\ posts[i].process # process'
      BY <1>9, <3>1 DEF Restart, VerdictInv, TypeOK, Creation
    <3>3. QED
      BY <1>9, <3>2, Turns DEF Restart, LookupInv, VerdictInv
  <2>3. QED
    BY <1>9, <2>1, <2>2, Quiet DEF Restart
<1>10. QED
  BY <1>1, <1>2, <1>3, <1>4, <1>5, <1>6, <1>7, <1>8, <1>9

\* A creation is sent.
LEMMA PostStep ==
  ASSUME ProvisioningInv, Post
  PROVE  ProvisioningInv'
<1> USE DEF ProvisioningInv
<1> DEFINE n == Len(posts) + 1
<1> DEFINE new == [member |-> worker.member, process |-> process,
                   answer |-> "none", made |-> "nothing", verdict |-> "none",
                   raced |-> worker.raced]
<1>1. worker.member \in Member /\ worker.raced \in BOOLEAN /\ worker.step = "lookup"
  BY DEF Post, TypeOK, Progress
<1>2. new \in Creation
  BY <1>1 DEF TypeOK, Creation
<1>3. /\ posts' = Append(posts, new) /\ posts' \in Seq(Creation)
      /\ Len(posts') = n /\ n \in DOMAIN posts' /\ posts'[n] = new
      /\ DOMAIN posts' = DOMAIN posts \cup {n} /\ n \notin DOMAIN posts
      /\ \A i \in DOMAIN posts : posts'[i] = posts[i] /\ i < n
  BY <1>2 DEF Post, TypeOK
<1>4. worker' = Turn("post", worker.member) /\ worker' \in Progress
      /\ worker'.step = "post" /\ worker'.member = worker.member
  BY <1>1, Turns DEF Post
<1>5. /\ new.member = worker.member /\ new.process = process /\ new.answer = "none"
      /\ new.made = "nothing" /\ new.verdict = "none" /\ new.raced = worker.raced
  OBVIOUS
<1> HIDE DEF new, n
<1>6. TypeOK'
  BY <1>1, <1>3, <1>4, <1>5 DEF Post, TypeOK, Last
<1>7. AccountInv'
  BY <1>3 DEF Post, AccountInv, From, Right, Mail, LoginFor
<1>8. PostInv'
  <2>1. ASSUME ~worker.raced, NEW k \in DOMAIN directory, directory[k].mail = worker.member
        PROVE  directory[k].post # 0
    <3>1. ~Matched(worker.page) /\ Mails(worker.page) /\ ~Full(worker.page)
      BY DEF Post, NoMatch
    <3>2. visible
      BY <3>1 DEF Mails, Mail, LookupInv
    <3>3. ~worker.match /\ \A l \in Page(worker.page) : directory[l].mail # worker.member
      BY <3>1, <3>2 DEF Matched, Mail
    <3>4. k <= worker.page * PageSize
      <4>1. k \in Nat /\ k < (worker.page + 1) * PageSize
        BY <3>1 DEF Full, TypeOK, Progress
      <4>2. worker.page * PageSize \in Nat /\ (worker.page + 1) * PageSize \in Nat
        BY DEF TypeOK, Progress
      <4>3. ~(worker.page * PageSize < k)
        BY <2>1, <3>3, <4>1, <4>2 DEF Page
      <4>4. QED
        BY <4>1, <4>2, <4>3
    <3>5. QED
      BY <1>1, <2>1, <3>2, <3>3, <3>4 DEF LookupInv
  <2>2. QED
    BY <1>3, <1>5, <2>1 DEF Post, PostInv
<1>9. LookupInv'
  BY <1>1, <1>4, Turns DEF LookupInv
<1>10. VerdictInv' /\ BreakerHolds'
  <2>1. ~tripped /\ tripped' = tripped /\ process' = process
    BY <1>1 DEF Post, VerdictInv
  <2>2. VerdictInv'
    BY <1>3, <1>5, <2>1 DEF VerdictInv, TypeOK
  <2>3. BreakerHolds'
    <3> SUFFICES ASSUME NEW i \in DOMAIN posts', NEW j \in DOMAIN posts', i < j,
                        posts'[i].process = posts'[j].process
                 PROVE  /\ posts'[i].verdict # "bad"
                        /\ posts'[i].made = "wrong" => posts'[i].verdict = "none"
      BY DEF BreakerHolds
    <3>1. i \in DOMAIN posts
      BY <1>3
    <3>2. CASE j = n
      <4>1. posts[i].verdict \in {"none", "bad", "good"} /\ posts[i].process = process
        <5>1. posts[i] \in Creation
          BY <3>1 DEF TypeOK
        <5>2. posts'[i] = posts[i] /\ posts'[j] = new
          BY <1>3, <3>1, <3>2
        <5>3. QED
          BY <1>5, <5>1, <5>2 DEF Creation
      <4>2. QED
        BY <1>3, <2>1, <3>1, <4>1 DEF VerdictInv
    <3>3. CASE j \in DOMAIN posts
      BY <1>3, <3>1, <3>3 DEF BreakerHolds
    <3>4. QED
      BY <1>3, <3>2, <3>3
  <2>4. QED
    BY <2>2, <2>3
<1>11. OneAccountPerMember' /\ DuplicateNeedsRace'
  BY <1>3 DEF Post, OneAccountPerMember, DuplicateNeedsRace, AccountInv
<1>12. QED
  BY <1>6, <1>7, <1>8, <1>9, <1>10, <1>11

\* One creation changes.
LEMMA Changed ==
  ASSUME TypeOK, NEW i \in DOMAIN posts, NEW new \in Creation,
         posts' = [posts EXCEPT ![i] = new]
  PROVE  /\ posts' \in Seq(Creation) /\ DOMAIN posts' = DOMAIN posts /\ Len(posts') = Len(posts)
         /\ posts'[i] = new
         /\ \A j \in DOMAIN posts \ {i} : posts'[j] = posts[j]
BY DEF TypeOK

\* The worker hears that its last creation is questionable, or right, or reads it
\* back.
LEMMA VerdictSteps ==
  ASSUME ProvisioningInv, Told \/ ReadBack
  PROVE  ProvisioningInv'
<1> USE DEF ProvisioningInv
<1>1. /\ worker.step \in {"post", "readback"} /\ Last \in DOMAIN posts
      /\ posts[Last] \in Creation /\ posts[Last].member = worker.member
      /\ worker.member \in Member
  <2>1. worker.step \in {"post", "readback"}
    BY DEF Told, ReadBack
  <2>2. posts # <<>> /\ posts[Last].member = worker.member /\ worker.member \in Member
    BY <2>1 DEF TypeOK
  <2>3. Last \in DOMAIN posts
    BY <2>2 DEF TypeOK, Last
  <2>4. QED
    BY <2>1, <2>2, <2>3 DEF TypeOK
<1>2. UNCHANGED <<directory, visible, todo, process, cycle, faults, others>> /\ count' \in Nat
  BY DEF Told, ReadBack, TypeOK
<1>4. ASSUME NEW new \in Creation, posts' = [posts EXCEPT ![Last] = new],
             new.member = worker.member, new.process = posts[Last].process,
             new.made = posts[Last].made, new.raced = posts[Last].raced, new.answer # "none",
             \/ /\ tripped' = TRUE /\ worker' = Between /\ new.verdict = "bad"
             \/ /\ tripped' = tripped /\ ~tripped /\ new.verdict \in {posts[Last].verdict, "good"}
                /\ new.verdict = "good" => new.made = "right"
                /\ worker' \in Progress /\ worker'.step \in {"readback", "retry"}
                /\ worker'.member = worker.member /\ worker'.mails = worker.mails
      PROVE  ProvisioningInv'
  <2>1. /\ posts' \in Seq(Creation) /\ DOMAIN posts' = DOMAIN posts /\ Len(posts') = Len(posts)
        /\ posts'[Last] = new
        /\ \A j \in DOMAIN posts \ {Last} : posts'[j] = posts[j]
    BY <1>1, <1>4, Changed
  <2>2. Last' = Last
    BY <2>1 DEF Last
  <2>3. TypeOK'
    <3>1. tripped' \in BOOLEAN /\ visible' \in BOOLEAN
      BY <1>2, <1>4 DEF TypeOK
    <3>2. posts' # <<>>
      BY <1>1, <2>1
    <3>3. QED
      BY <1>1, <1>2, <1>4, <2>1, <2>2, <3>1, <3>2, Turns DEF TypeOK
  <2>4. \A j \in DOMAIN posts :
          /\ posts'[j].member = posts[j].member /\ posts'[j].process = posts[j].process
          /\ posts'[j].made = posts[j].made /\ posts'[j].raced = posts[j].raced
          /\ posts'[j].answer = "none" => posts[j].answer = "none" /\ j # Last
          /\ posts[j].answer # "none" => posts'[j].answer # "none"
    BY <1>1, <1>4, <2>1
  <2>5. AccountInv'
    BY <1>2, <2>1, <2>4 DEF AccountInv, From, Right, Mail, LoginFor
  <2>6. PostInv'
    BY <1>2, <2>1, <2>4 DEF PostInv
  <2>7. LookupInv'
    BY <1>2, <1>4, Turns DEF LookupInv
  <2>8. VerdictInv'
    <3>1. tripped' => worker'.step \in {"rest", "next"}
      BY <1>4, Turns
    <3>2. ASSUME NEW i \in DOMAIN posts
          PROVE  /\ posts'[i].process <= process
                 /\ posts'[i].verdict = "bad" /\ posts'[i].process = process => tripped'
                 /\ posts'[i].verdict = "good" => posts'[i].made = "right"
                 /\ posts'[i].answer = "none" => posts'[i].verdict = "none"
      <4>1. CASE i = Last
        <5>1. /\ posts[i].process <= process
              /\ posts[i].verdict = "bad" /\ posts[i].process = process => tripped
              /\ posts[i].verdict = "good" => posts[i].made = "right"
          BY DEF VerdictInv
        <5>2. CASE tripped' = TRUE /\ new.verdict = "bad"
          BY <1>4, <2>1, <4>1, <5>1, <5>2
        <5>3. CASE /\ tripped' = tripped /\ ~tripped
                   /\ new.verdict \in {posts[Last].verdict, "good"}
                   /\ new.verdict = "good" => new.made = "right"
          BY <1>4, <2>1, <4>1, <5>1, <5>3
        <5>4. QED
          BY <1>4, <5>2, <5>3
      <4>2. CASE i # Last
        BY <1>4, <2>1, <4>2 DEF VerdictInv
      <4>3. QED
        BY <4>1, <4>2
    <3>3. QED
      BY <1>2, <2>1, <3>1, <3>2 DEF VerdictInv
  <2>9. BreakerHolds'
    <3>1. ASSUME NEW i \in DOMAIN posts, NEW j \in DOMAIN posts, i < j PROVE i # Last
      BY <3>1 DEF TypeOK, Last
    <3>2. QED
      BY <2>1, <2>4, <3>1 DEF BreakerHolds
  <2>10. OneAccountPerMember'
    BY <1>2, <2>4 DEF OneAccountPerMember, AccountInv
  <2>11. DuplicateNeedsRace'
    BY <1>2, <2>4 DEF DuplicateNeedsRace, AccountInv
  <2>12. QED
    BY <2>3, <2>5, <2>6, <2>7, <2>8, <2>9, <2>10, <2>11
<1>5. CASE Told
  <2>1. CASE posts[Last].answer = "wrong"
    <3> DEFINE new == [posts[Last] EXCEPT !.answer = "told", !.verdict = "bad"]
    <3>1. /\ new \in Creation /\ new.member = worker.member
          /\ new.process = posts[Last].process /\ new.made = posts[Last].made
          /\ new.raced = posts[Last].raced /\ new.answer # "none" /\ new.verdict = "bad"
      BY <1>1 DEF Creation
    <3>2. posts' = [posts EXCEPT ![Last] = new] /\ tripped' = TRUE /\ worker' = Between
      BY <1>5, <2>1 DEF Told, Trip, GiveUp
    <3> HIDE DEF new
    <3>3. QED
      BY <1>4, <3>1, <3>2
  <2>2. CASE posts[Last].answer = "right"
    <3> DEFINE new == [posts[Last] EXCEPT !.answer = "told"]
    <3>1. /\ new \in Creation /\ new.member = worker.member
          /\ new.process = posts[Last].process /\ new.made = posts[Last].made
          /\ new.raced = posts[Last].raced /\ new.answer # "none"
          /\ new.verdict = posts[Last].verdict
      BY <1>1 DEF Creation
    <3>2. /\ posts' = [posts EXCEPT ![Last] = new] /\ tripped' = tripped
          /\ worker' = [worker EXCEPT !.step = "readback"] /\ ~tripped
      BY <1>5, <2>2 DEF Told, VerdictInv
    <3>3. /\ worker' \in Progress /\ worker'.step = "readback"
          /\ worker'.member = worker.member /\ worker'.mails = worker.mails
      BY <3>2 DEF TypeOK, Progress
    <3>4. new.verdict = "good" => new.made = "right"
      BY <1>1, <3>1 DEF VerdictInv
    <3> HIDE DEF new
    <3>5. QED
      BY <1>4, <3>1, <3>2, <3>3, <3>4
  <2>3. QED
    BY <1>5, <2>1, <2>2 DEF Told
<1>6. CASE ReadBack
  <2>1. CASE \A k \in DOMAIN directory : directory[k].post # Last
    <3>1. worker' = Between /\ UNCHANGED <<posts, tripped>>
      BY <1>6, <2>1 DEF ReadBack, GiveUp
    <3>2. QED
      BY <1>2, <3>1, Turning DEF TypeOK
  <2>2. ASSUME NEW k \in DOMAIN directory, directory[k].post = Last,
               Right(directory[k], worker.member, Last),
               posts' = [posts EXCEPT ![Last].verdict = "good"],
               worker' = [worker EXCEPT !.step = "retry"], UNCHANGED tripped
        PROVE  ProvisioningInv'
    <3> DEFINE new == [posts[Last] EXCEPT !.verdict = "good"]
    <3>0. /\ directory[k].post # 0 /\ posts[Last].answer # "none"
          /\ posts[Last].made = "right"
      <4>1. directory[k].post # 0
        BY <1>1, <2>2 DEF TypeOK
      <4>2. From(k) = posts[Last] /\ From(k).member = worker.member
        BY <1>1, <2>2 DEF From
      <4>3. QED
        BY <2>2, <4>1, <4>2 DEF AccountInv
    <3>1. /\ new \in Creation /\ new.member = worker.member
          /\ new.process = posts[Last].process /\ new.made = posts[Last].made
          /\ new.raced = posts[Last].raced /\ new.answer # "none" /\ new.verdict = "good"
      BY <1>1, <3>0 DEF Creation
    <3>2. posts' = [posts EXCEPT ![Last] = new] /\ tripped' = tripped /\ ~tripped
      BY <1>1, <2>2, <1>6 DEF VerdictInv, ReadBack
    <3>3. /\ worker' \in Progress /\ worker'.step = "retry"
          /\ worker'.member = worker.member /\ worker'.mails = worker.mails
      BY <2>2 DEF TypeOK, Progress
    <3> HIDE DEF new
    <3>4. QED
      BY <1>4, <3>0, <3>1, <3>2, <3>3
  <2>3. ASSUME NEW k \in DOMAIN directory, directory[k].post = Last,
               posts' = [posts EXCEPT ![Last].verdict = "bad"], Trip
        PROVE  ProvisioningInv'
    <3> DEFINE new == [posts[Last] EXCEPT !.verdict = "bad"]
    <3>0. directory[k].post # 0 /\ posts[Last].answer # "none"
      <4>1. directory[k].post # 0
        BY <1>1, <2>3 DEF TypeOK
      <4>2. From(k) = posts[Last]
        BY <1>1, <2>3 DEF From
      <4>3. QED
        BY <2>3, <4>1, <4>2 DEF AccountInv
    <3>1. /\ new \in Creation /\ new.member = worker.member
          /\ new.process = posts[Last].process /\ new.made = posts[Last].made
          /\ new.raced = posts[Last].raced /\ new.answer # "none" /\ new.verdict = "bad"
      BY <1>1, <3>0 DEF Creation
    <3>2. posts' = [posts EXCEPT ![Last] = new] /\ tripped' = TRUE /\ worker' = Between
      BY <2>3 DEF Trip, GiveUp
    <3> HIDE DEF new
    <3>3. QED
      BY <1>4, <3>1, <3>2
  <2>4. QED
    BY <1>6, <2>1, <2>2, <2>3 DEF ReadBack
<1>7. QED
  BY <1>5, <1>6

\* The server answers a creation.
LEMMA AnswerStep ==
  ASSUME ProvisioningInv, NEW i \in DOMAIN posts, Answer(i)
  PROVE  ProvisioningInv'
<1> USE DEF ProvisioningInv
<1> DEFINE m == posts[i].member
<1>1. /\ posts[i] \in Creation /\ m \in Member /\ m # Outsider /\ posts[i].answer = "none"
      /\ posts[i].verdict = "none"
      /\ UNCHANGED <<visible, worker, todo, count, tripped, process, cycle, faults, others>>
  <2>1. posts[i] \in Creation
    BY DEF TypeOK
  <2>2. m \in Member /\ m # Outsider
    BY <2>1 DEF Creation
  <2>3. posts[i].answer = "none"
        /\ UNCHANGED <<visible, worker, todo, count, tripped, process, cycle, faults, others>>
    BY DEF Answer
  <2>4. QED
    BY <2>1, <2>2, <2>3 DEF VerdictInv
<1>2. ASSUME NEW new \in Creation, posts' = [posts EXCEPT ![i] = new],
             new.member = m, new.process = posts[i].process, new.raced = posts[i].raced,
             new.answer # "none", new.verdict = "none",
             directory' \in Seq(Account), AccountInv', PostInv', LookupInv',
             OneAccountPerMember', DuplicateNeedsRace'
      PROVE  ProvisioningInv'
  <2>1. /\ posts' \in Seq(Creation) /\ DOMAIN posts' = DOMAIN posts /\ Len(posts') = Len(posts)
        /\ posts'[i] = new
        /\ \A j \in DOMAIN posts \ {i} : posts'[j] = posts[j]
    BY <1>2, Changed
  <2>2. \A j \in DOMAIN posts : posts'[j].member = posts[j].member
                                /\ posts'[j].process = posts[j].process
    BY <1>2, <2>1
  <2>3. TypeOK'
    <3>1. tripped' \in BOOLEAN /\ visible' \in BOOLEAN
      BY <1>1 DEF TypeOK
    <3>2. worker.step \in {"post", "readback", "retry"} =>
            Last' = Last /\ Last \in DOMAIN posts /\ posts' # <<>>
      BY <2>1 DEF TypeOK, Last
    <3>3. QED
      BY <1>1, <1>2, <2>1, <2>2, <3>1, <3>2 DEF TypeOK
  <2>4. VerdictInv'
    BY <1>1, <1>2, <2>1 DEF VerdictInv
  <2>5. BreakerHolds'
    <3> SUFFICES ASSUME NEW j \in DOMAIN posts, NEW l \in DOMAIN posts, j < l,
                        posts[j].process = posts[l].process
                 PROVE  /\ posts'[j].verdict # "bad"
                        /\ posts'[j].made = "wrong" => posts'[j].verdict = "none"
      BY <2>1, <2>2 DEF BreakerHolds
    <3>1. QED
      BY <1>2, <2>1 DEF BreakerHolds
  <2>6. QED
    BY <1>2, <2>3, <2>4, <2>5
<1>3. CASE posts' = [posts EXCEPT ![i].answer = "refused"] /\ UNCHANGED directory
  <2> DEFINE new == [posts[i] EXCEPT !.answer = "refused"]
  <2>1. /\ new \in Creation /\ posts' = [posts EXCEPT ![i] = new] /\ new.member = m
        /\ new.process = posts[i].process /\ new.raced = posts[i].raced
        /\ new.answer # "none" /\ new.verdict = "none" /\ new.made = posts[i].made
    BY <1>1, <1>3 DEF Creation
  <2> HIDE DEF new
  <2>2. /\ DOMAIN posts' = DOMAIN posts /\ posts'[i] = new
        /\ \A j \in DOMAIN posts \ {i} : posts'[j] = posts[j]
    BY <2>1, Changed
  <2>3. AccountInv'
    BY <1>1, <1>3, <2>1, <2>2 DEF AccountInv, From, Right, Mail, LoginFor
  <2>4. PostInv' /\ LookupInv'
    BY <1>1, <1>3, <2>1, <2>2 DEF PostInv, LookupInv
  <2>5. OneAccountPerMember' /\ DuplicateNeedsRace'
    BY <1>1, <1>3, <2>1, <2>2 DEF OneAccountPerMember, DuplicateNeedsRace, AccountInv
  <2>6. QED
    BY <1>2, <1>3, <2>1, <2>3, <2>4, <2>5 DEF TypeOK
<1>4. ASSUME NEW a \in Account, NEW says \in {"right", "wrong", "late"},
             \A k \in DOMAIN directory : directory[k].login # m,
             a.login = m, a.mail \in {m, Outsider}, a.post = i,
             directory' = Append(directory, a),
             posts' = [posts EXCEPT ![i].answer = says,
                                    ![i].made = IF Right(a, m, i) THEN "right" ELSE "wrong"]
      PROVE  ProvisioningInv'
  <2> DEFINE new == [posts[i] EXCEPT !.answer = says,
                                     !.made = IF Right(a, m, i) THEN "right" ELSE "wrong"]
  <2> DEFINE n == Len(directory) + 1
  <2>1. /\ new \in Creation /\ posts' = [posts EXCEPT ![i] = new] /\ new.member = m
        /\ new.process = posts[i].process /\ new.raced = posts[i].raced
        /\ new.answer # "none" /\ new.verdict = "none"
        /\ Right(a, m, i) => new.made = "right"
    BY <1>1, <1>4 DEF Creation
  <2>2. /\ directory' \in Seq(Account) /\ DOMAIN directory' = DOMAIN directory \cup {n}
        /\ n \notin DOMAIN directory /\ directory'[n] = a
        /\ \A k \in DOMAIN directory : directory'[k] = directory[k]
    <3>1. directory \in Seq(Account) /\ a \in Account /\ directory' = Append(directory, a)
      BY <1>4 DEF TypeOK
    <3>2. QED
      BY <3>1
  <2>3. i # 0 /\ a.post # 0
    BY <1>4 DEF TypeOK
  <2> HIDE DEF new, n
  <2>4. /\ DOMAIN posts' = DOMAIN posts /\ posts'[i] = new
        /\ \A j \in DOMAIN posts \ {i} : posts'[j] = posts[j]
    BY <2>1, Changed
  <2>5. \A k \in DOMAIN directory : directory[k].post # 0 =>
          /\ directory[k].post \in DOMAIN posts \ {i}
          /\ From(k).member # m /\ directory[k].mail # m
    BY <1>1, <1>4 DEF AccountInv, From
  <2>6. AccountInv'
    <3> SUFFICES ASSUME NEW k \in DOMAIN directory', directory'[k].post # 0
                 PROVE  /\ directory'[k].post \in DOMAIN posts
                        /\ directory'[k].login = posts'[directory'[k].post].member
                        /\ directory'[k].mail \in {posts'[directory'[k].post].member, Outsider}
                        /\ posts'[directory'[k].post].answer # "none"
                        /\ Right(directory'[k], posts'[directory'[k].post].member,
                                 directory'[k].post)
                           => posts'[directory'[k].post].made = "right"
      BY <1>1, <2>4 DEF AccountInv, From, Right, Mail, LoginFor
    <3>1. CASE k = n
      BY <1>4, <2>1, <2>2, <2>4, <3>1
    <3>2. CASE k \in DOMAIN directory
      BY <2>2, <2>4, <2>5, <3>2 DEF AccountInv, From
    <3>3. QED
      BY <2>2, <3>1, <3>2
  <2>7. PostInv'
    BY <2>1, <2>2, <2>3, <2>4 DEF PostInv
  <2>8. LookupInv'
    BY <1>1, <2>2, <2>3 DEF LookupInv
  <2>9. OneAccountPerMember'
    BY <1>4, <2>1, <2>2, <2>3, <2>4, <2>5 DEF OneAccountPerMember, From
  <2>10. DuplicateNeedsRace'
    <3> SUFFICES ASSUME NEW k \in DOMAIN directory', NEW l \in DOMAIN directory', k # l,
                        directory'[k].post # 0, directory'[k].mail = directory'[l].mail,
                        directory'[k].mail \in Member
                 PROVE  posts'[directory'[k].post].raced
      BY DEF DuplicateNeedsRace
    <3>1. CASE k = n
      <4>1. l \in DOMAIN directory /\ directory[l].mail = m
        BY <1>4, <2>2, <3>1
      <4>2. ASSUME ~posts[i].raced PROVE FALSE
        BY <1>1, <2>5, <4>1, <4>2 DEF PostInv
      <4>3. posts'[directory'[k].post].raced = posts[i].raced
        BY <1>4, <2>1, <2>2, <2>4, <3>1
      <4>4. QED
        BY <4>2, <4>3
    <3>2. CASE k \in DOMAIN directory /\ l = n
      BY <1>4, <2>2, <2>5, <3>2
    <3>3. CASE k \in DOMAIN directory /\ l \in DOMAIN directory
      BY <2>2, <2>4, <2>5, <3>3 DEF DuplicateNeedsRace
    <3>4. QED
      BY <2>2, <3>1, <3>2, <3>3
  <2>11. QED
    BY <1>2, <2>1, <2>2, <2>6, <2>7, <2>8, <2>9, <2>10
<1>5. ASSUME NEW mail \in {m, Outsider}, NEW reporter \in BOOLEAN,
             NEW says \in {"right", "wrong", "late"}, NEW a,
             a = [login |-> m, mail |-> mail, reporter |-> reporter, post |-> i],
             \A k \in DOMAIN directory : directory[k].login # m,
             directory' = Append(directory, a),
             posts' = [posts EXCEPT ![i].answer = says,
                                    ![i].made = IF Right(a, m, i) THEN "right" ELSE "wrong"]
      PROVE  ProvisioningInv'
  <2>1. i \in Nat
    BY DEF TypeOK
  <2>2. a \in Account /\ a.login = m /\ a.mail \in {m, Outsider} /\ a.post = i
    BY <1>1, <1>5, <2>1 DEF Account
  <2>3. QED
    BY <1>4, <1>5, <2>2
<1>6. CASE \E mail \in {m, Outsider}, reporter \in BOOLEAN, says \in {"right", "wrong", "late"} :
             LET a == [login |-> m, mail |-> mail, reporter |-> reporter, post |-> i] IN
             /\ \A k \in DOMAIN directory : directory[k].login # m
             /\ directory' = Append(directory, a)
             /\ posts' = [posts EXCEPT ![i].answer = says,
                                       ![i].made = IF Right(a, m, i) THEN "right" ELSE "wrong"]
  BY <1>5, <1>6
<1>7. QED
  BY <1>1, <1>3, <1>6 DEF Answer, LoginFor

-----------------------------------------------------------------------------
\* Every account but a new one, of an email nobody had, was there before: s says
\* where, z is the new one.
Moved(s, z) ==
  /\ \A k \in DOMAIN directory' \ {z} :
       s[k] \in DOMAIN directory /\ directory'[k] = directory[s[k]]
  /\ \A k, l \in DOMAIN directory' \ {z} : k # l => s[k] # s[l]
  /\ z \in DOMAIN directory' =>
       /\ directory'[z].post = 0
       /\ \A k \in DOMAIN directory : directory[k].mail # directory'[z].mail

\* The directory changes behind the worker's back.
LEMMA Overtaking ==
  ASSUME ProvisioningInv, Overtaken, directory' \in Seq(Account), \E s, z : Moved(s, z)
  PROVE  ProvisioningInv'
<1> PICK s, z : Moved(s, z)
  OBVIOUS
<1> USE DEF Moved
<1> USE DEF ProvisioningInv
<1>1. UNCHANGED <<visible, todo, count, tripped, process, cycle, faults>> /\ others' \in Nat
  BY DEF Overtaken, TypeOK
<1>2. /\ worker' \in Progress /\ worker'.step = worker.step /\ worker'.member = worker.member
      /\ worker'.mails = worker.mails
      /\ worker'.step = "lookup" => worker'.raced
  BY DEF Overtaken, TypeOK, Progress
<1>3. /\ DOMAIN posts' = DOMAIN posts /\ posts' \in Seq(Creation) /\ Len(posts') = Len(posts)
      /\ \A i \in DOMAIN posts :
           /\ posts'[i].member = posts[i].member /\ posts'[i].process = posts[i].process
           /\ posts'[i].answer = posts[i].answer /\ posts'[i].made = posts[i].made
           /\ posts'[i].verdict = posts[i].verdict
           /\ posts[i].raced => posts'[i].raced
           /\ posts'[i].answer = "none" => posts'[i].raced
  <2>1. posts' = [i \in 1..Len(posts) |->
                   IF posts[i].answer = "none" THEN [posts[i] EXCEPT !.raced = TRUE]
                                               ELSE posts[i]]
    BY DEF Overtaken, TypeOK
  <2>2. ASSUME NEW i \in 1..Len(posts)
        PROVE  /\ posts'[i] \in Creation
               /\ posts'[i].member = posts[i].member /\ posts'[i].process = posts[i].process
               /\ posts'[i].answer = posts[i].answer /\ posts'[i].made = posts[i].made
               /\ posts'[i].verdict = posts[i].verdict
               /\ posts[i].raced => posts'[i].raced
               /\ posts'[i].answer = "none" => posts'[i].raced
    <3>1. posts[i] \in Creation
      BY DEF TypeOK
    <3>2. CASE posts[i].answer = "none"
      <4>1. posts'[i] = [posts[i] EXCEPT !.raced = TRUE]
        BY <2>1, <3>2
      <4>2. QED
        BY <3>1, <4>1 DEF Creation
    <3>3. CASE posts[i].answer # "none"
      BY <2>1, <3>1, <3>3
    <3>4. QED
      BY <3>2, <3>3
  <2>3. Len(posts) \in Nat /\ DOMAIN posts = 1..Len(posts)
    BY DEF TypeOK
  <2>4. posts' \in Seq(Creation)
    BY <2>1, <2>2, <2>3
  <2>5. QED
    BY <2>1, <2>2, <2>3, <2>4
<1>4. TypeOK'
  <2>1. tripped' \in BOOLEAN /\ visible' \in BOOLEAN
    BY <1>1 DEF TypeOK
  <2>2. worker.step \in {"post", "readback", "retry"} =>
          Last' = Last /\ Last \in DOMAIN posts /\ posts' # <<>>
    BY <1>3 DEF TypeOK, Last
  <2>3. QED
    BY <1>1, <1>2, <1>3, <2>1, <2>2 DEF TypeOK
<1>5. \A k \in DOMAIN directory' : directory'[k].post # 0 =>
        /\ k # z /\ s[k] \in DOMAIN directory /\ directory'[k] = directory[s[k]]
        /\ directory[s[k]].post \in DOMAIN posts
  BY DEF AccountInv
<1>6. AccountInv'
  <2> SUFFICES ASSUME NEW k \in DOMAIN directory', directory'[k].post # 0
               PROVE  /\ directory'[k].post \in DOMAIN posts
                      /\ directory'[k].login = posts'[directory'[k].post].member
                      /\ directory'[k].mail \in {posts'[directory'[k].post].member, Outsider}
                      /\ posts'[directory'[k].post].answer # "none"
                      /\ Right(directory'[k], posts'[directory'[k].post].member,
                               directory'[k].post)
                         => posts'[directory'[k].post].made = "right"
    BY <1>1, <1>3 DEF AccountInv, From, Right, Mail, LoginFor
  <2>1. QED
    BY <1>3, <1>5 DEF AccountInv, From
<1>7. PostInv' /\ LookupInv'
  <2>1. PostInv'
    BY <1>3 DEF PostInv
  <2>2. LookupInv'
    BY <1>1, <1>2 DEF LookupInv
  <2>3. QED
    BY <2>1, <2>2
<1>8. VerdictInv' /\ BreakerHolds'
  <2>1. VerdictInv'
    BY <1>1, <1>2, <1>3 DEF VerdictInv
  <2>2. BreakerHolds'
    BY <1>3 DEF BreakerHolds
  <2>3. QED
    BY <2>1, <2>2
<1>9. OneAccountPerMember'
  <2> SUFFICES ASSUME NEW k \in DOMAIN directory', NEW l \in DOMAIN directory', k # l,
                      directory'[k].post # 0, directory'[l].post # 0
               PROVE  posts'[directory'[k].post].member # posts'[directory'[l].post].member
    BY DEF OneAccountPerMember
  <2>1. s[k] # s[l]
    BY <1>5
  <2>2. posts[directory'[k].post].member # posts[directory'[l].post].member
    BY <1>5, <2>1 DEF OneAccountPerMember
  <2>3. QED
    BY <1>3, <1>5, <2>2
<1>10. DuplicateNeedsRace'
  <2> SUFFICES ASSUME NEW k \in DOMAIN directory', NEW l \in DOMAIN directory', k # l,
                      directory'[k].post # 0, directory'[k].mail = directory'[l].mail,
                      directory'[k].mail \in Member
               PROVE  posts'[directory'[k].post].raced
    BY DEF DuplicateNeedsRace
  <2>1. l # z
    BY <1>5
  <2>2. /\ s[k] \in DOMAIN directory /\ directory'[k] = directory[s[k]]
        /\ s[l] \in DOMAIN directory /\ directory'[l] = directory[s[l]] /\ s[k] # s[l]
    BY <1>5, <2>1
  <2>3. posts[directory'[k].post].raced
    BY <2>2 DEF DuplicateNeedsRace
  <2>4. QED
    BY <1>3, <1>5, <2>3
<1>11. QED
  BY <1>4, <1>6, <1>7, <1>8, <1>9, <1>10

LEMMA ArriveStep ==
  ASSUME ProvisioningInv, NEW m \in Member, Arrive(m)
  PROVE  ProvisioningInv'
<1> DEFINE z == Len(directory) + 1
<1> DEFINE s == [k \in DOMAIN directory |-> k]
<1>1. Other(m) \in Account /\ Other(m).post = 0 /\ Other(m).mail = m
  BY DEF Other, Account
<1>2. /\ directory' \in Seq(Account) /\ DOMAIN directory' = DOMAIN directory \cup {z}
      /\ directory'[z] = Other(m)
      /\ \A k \in DOMAIN directory : directory'[k] = directory[k]
  BY <1>1 DEF Arrive, ProvisioningInv, TypeOK
<1>3. Overtaken /\ \A k \in DOMAIN directory : directory[k].mail # m
  BY DEF Arrive
<1>4. \A k \in DOMAIN directory : s[k] = k
  OBVIOUS
<1> HIDE DEF s, z
<1>5. Moved(s, z)
  BY <1>1, <1>2, <1>3, <1>4 DEF Moved
<1>6. QED
  BY <1>2, <1>3, <1>5, Overtaking

LEMMA LeaveStep ==
  ASSUME ProvisioningInv, NEW j \in DOMAIN directory, Leave(j)
  PROVE  ProvisioningInv'
<1> DEFINE s == [k \in 1..(Len(directory) - 1) |-> IF k < j THEN k ELSE k + 1]
<1>1. /\ directory \in Seq(Account) /\ DOMAIN directory = 1..Len(directory)
      /\ Len(directory) \in Nat /\ j \in 1..Len(directory)
  BY DEF ProvisioningInv, TypeOK
<1>2. \A k \in 1..(Len(directory) - 1) :
        s[k] \in 1..Len(directory) /\ \A l \in 1..(Len(directory) - 1) : k # l => s[k] # s[l]
  BY <1>1
<1>3. directory' = [k \in 1..(Len(directory) - 1) |-> directory[s[k]]] /\ Overtaken
  BY DEF Leave
<1> HIDE DEF s
<1>4. \A k \in 1..(Len(directory) - 1) : directory[s[k]] \in Account
  BY <1>1, <1>2
<1>5. directory' \in Seq(Account) /\ DOMAIN directory' = 1..(Len(directory) - 1)
  BY <1>1, <1>3, <1>4
<1>6. 0 \notin DOMAIN directory' /\ DOMAIN directory' \ {0} = DOMAIN directory'
  BY <1>1, <1>5
<1>7. \A k \in DOMAIN directory' \ {0} :
        s[k] \in DOMAIN directory /\ directory'[k] = directory[s[k]]
  BY <1>1, <1>2, <1>3, <1>5, <1>6
<1>8. \A k, l \in DOMAIN directory' \ {0} : k # l => s[k] # s[l]
  BY <1>2, <1>5, <1>6
<1>9. Moved(s, 0)
  BY <1>6, <1>7, <1>8 DEF Moved
<1>10. QED
  BY <1>3, <1>5, <1>9, Overtaking

-----------------------------------------------------------------------------
LEMMA Preserved ==
  ASSUME ProvisioningInv, [Next]_vars
  PROVE  ProvisioningInv'
<1>1. CASE UNCHANGED vars
  <2>1. TypeOK' /\ LookupInv' /\ VerdictInv'
    BY <1>1 DEF vars, ProvisioningInv, TypeOK, LookupInv, VerdictInv, Last
  <2>2. QED
    BY <1>1, <2>1, Quiet DEF vars, ProvisioningInv
<1>2. CASE Post
  BY <1>2, PostStep
<1>3. CASE Told \/ ReadBack
  BY <1>3, VerdictSteps
<1>4. CASE \E i \in DOMAIN posts : Answer(i)
  BY <1>4, AnswerStep
<1>5. CASE \E m \in Member : Arrive(m)
  BY <1>5, ArriveStep
<1>6. CASE \E k \in DOMAIN directory : Leave(k)
  BY <1>6, LeaveStep
<1>7. QED
  BY <1>1, <1>2, <1>3, <1>4, <1>5, <1>6, QuietSteps DEF Next

\* Types, for every instance.
THEOREM TypeCorrect == Spec => []TypeOK
<1>1. ProvisioningInv => TypeOK
  BY DEF ProvisioningInv
<1>2. QED
  BY Initially, Preserved, <1>1, PTL DEF Spec

\* The breaker: no creation of a process follows one it found questionable, and a
\* questionable account it went on after is one whose check it never finished.
THEOREM BreakerCorrect == Spec => []BreakerHolds
<1>1. ProvisioningInv => BreakerHolds
  BY DEF ProvisioningInv
<1>2. QED
  BY Initially, Preserved, <1>1, PTL DEF Spec

\* Lost answers, restarts and repeated requests never give a member two accounts.
THEOREM OneAccountCorrect == Spec => []OneAccountPerMember
<1>1. ProvisioningInv => OneAccountPerMember
  BY DEF ProvisioningInv
<1>2. QED
  BY Initially, Preserved, <1>1, PTL DEF Spec

\* Whatever the page size and the length of the directory, the worker makes an
\* email ambiguous only when others change the directory after its lookup began.
THEOREM NoDuplicateAlone == Spec => []DuplicateNeedsRace
<1>1. ProvisioningInv => DuplicateNeedsRace
  BY DEF ProvisioningInv
<1>2. QED
  BY Initially, Preserved, <1>1, PTL DEF Spec
=============================================================================
