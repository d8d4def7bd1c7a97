------------------------ MODULE RecentlyAdded_proofs ------------------------
(***************************************************************************)
(* Proofs about RecentlyAdded, for every library, every grouping setting   *)
(* and any number of events, deletions and faults: its types, that an item *)
(* is announced on its own once, that what is queued has somebody to       *)
(* announce it, and that no item leaves the queue unannounced.             *)
(*                                                                         *)
(* The callback walks over the queue while the listener adds to it.  What  *)
(* carries the proofs is that nothing of a root changes in the queue while *)
(* its callback runs unless an item came late (SizeInv), and that what is  *)
(* not announced yet lies ahead of the callback's loops (AheadInv).        *)
(***************************************************************************)
EXTENDS RecentlyAdded, TLAPS

Seasons(r) == {s \in Season : Parent[s] = r}
Episodes(r) == {e \in Episode : RootOf(e) = r}

\* The queue: what process() builds of it.
QueueOK ==
  /\ DOMAIN queue \subseteq Item
  /\ \A i \in DOMAIN queue :
       /\ i \in Root => queue[i] \subseteq Seasons(i)
       /\ i \in Season => /\ queue[i] \subseteq {e \in Episode : Parent[e] = i}
                          /\ queue[i] # {} /\ i \in Below(queue, Parent[i])
       /\ i \in Episode => queue[i] = {RootOf(i)} /\ i \in Below(queue, Parent[i])

\* A running callback, and where its loops are.
Sizes == {Cardinality(x) : x \in SUBSET Item} \cup {0}
Loops == {"clear", "seasons", "episodes"}
Process ==
  [step : {"seasons", "episodes", "announce", "record", "clear"},
   seasons : SUBSET Season, size : Sizes, season : Item, episodes : SUBSET Episode, count : Sizes,
   item : Item, group : BOOLEAN, keys : SUBSET Item, back : Loops]
At(process) == IF process.step \in {"announce", "record"} THEN process.back ELSE process.step

\* A callback is about its root: its loops and what it announces belong to it.
About(r, process) ==
  /\ process.seasons \subseteq Seasons(r)
  /\ At(process) = "episodes" => process.season \in Seasons(r)
  /\ process.episodes \subseteq Episodes(r)
  /\ RootOf(process.item) = r
  /\ process.step = "record" /\ ~process.group => process.keys = {process.item}

Listener ==
  {Free} \cup [step : {"look"}, root : Root, remove : BOOLEAN]
         \cup [step : {"act"}, root : Root, remove : BOOLEAN, found : BOOLEAN]

TypeInv ==
  /\ library \subseteq Item /\ gone \subseteq Item
  /\ QueueOK
  /\ jobs \subseteq Root
  /\ listener \in Listener
  /\ clearing \in [Root -> Process \cup {Idle}]
  /\ \A r \in Root : Busy(r) => About(r, clearing[r])
  /\ recorded \subseteq Item /\ told \subseteq Item /\ late \subseteq Item
  /\ alone \in [Item -> Nat]
  /\ failures \in Nat /\ restarts \in Nat

-----------------------------------------------------------------------------
(***************************************************************************)
(* Items and the queue.                                                    *)
(***************************************************************************)
\* Every item has a root.
LEMMA Roots ==
  /\ \A r \in Root : r \notin Season /\ r \notin Episode /\ RootOf(r) = r
  /\ \A s \in Season : /\ s \notin Root /\ s \notin Episode
                       /\ Parent[s] \in Root /\ RootOf(s) = Parent[s]
  /\ \A e \in Episode : /\ e \notin Root /\ e \notin Season
                        /\ Parent[e] \in Season /\ RootOf(e) = Parent[Parent[e]]
                        /\ Parent[Parent[e]] \in Root
  /\ \A i \in Item : RootOf(i) \in Root
BY RecentlyAddedAssumption DEF RootOf, Item

\* What lies below a key.
LEMMA BelowTypes ==
  ASSUME QueueOK
  PROVE  /\ \A r \in Root : Below(queue, r) \subseteq Seasons(r)
         /\ \A s \in Season : Below(queue, s) \subseteq {e \in Episode : Parent[e] = s}
         /\ \A e \in Episode : Below(queue, e) \subseteq {RootOf(e)}
         /\ \A i \in Item : Below(queue, i) \subseteq Item
<1>1. /\ \A r \in Root : Below(queue, r) \subseteq Seasons(r)
      /\ \A s \in Season : Below(queue, s) \subseteq {e \in Episode : Parent[e] = s}
      /\ \A e \in Episode : Below(queue, e) \subseteq {RootOf(e)}
  BY DEF QueueOK, Below
<1>2. \A i \in Item : RootOf(i) \in Item
  BY Roots DEF Item
<1>3. \A i \in Item : Below(queue, i) \subseteq Item
  BY <1>1, <1>2 DEF Seasons, Item
<1> QED BY <1>1, <1>3

\* del_keys of a root takes all that is queued for it, and nothing else.
LEMMA DelRoot ==
  ASSUME QueueOK, NEW r \in Root
  PROVE  /\ DOMAIN DelKeys(queue, r) = {i \in DOMAIN queue : RootOf(i) # r}
         /\ \A i \in Item : RootOf(i) # r => Below(DelKeys(queue, r), i) = Below(queue, i)
         /\ \A i \in Item : RootOf(i) = r => Below(DelKeys(queue, r), i) = {}
<1> DEFINE dropped == {r} \cup Below(queue, r) \cup UNION {Below(queue, c) : c \in Below(queue, r)}
<1>1. \A i \in dropped : RootOf(i) = r
  <2>1. \A c \in Below(queue, r) : c \in Season /\ Parent[c] = r
    BY BelowTypes DEF Seasons
  <2>2. \A c \in Below(queue, r) : \A e \in Below(queue, c) : e \in Episode /\ Parent[e] = c
    BY <2>1, BelowTypes
  <2> QED BY <2>1, <2>2, Roots
<1>2. \A i \in DOMAIN queue : RootOf(i) = r => i \in dropped
  <2> SUFFICES ASSUME NEW i \in DOMAIN queue, RootOf(i) = r PROVE i \in dropped
    OBVIOUS
  <2>1. CASE i \in Root
    BY <2>1, Roots
  <2>2. CASE i \in Season
    <3>1. i \in Below(queue, Parent[i]) /\ Parent[i] = r
      BY <2>2, Roots DEF QueueOK
    <3> QED BY <3>1
  <2>3. CASE i \in Episode
    <3>1. i \in Below(queue, Parent[i]) /\ Parent[i] \in Season /\ Parent[Parent[i]] = r
      BY <2>3, Roots DEF QueueOK
    <3>2. Parent[i] \in DOMAIN queue
      BY <3>1 DEF Below
    <3>3. Parent[i] \in Below(queue, r)
      BY <3>1, <3>2 DEF QueueOK
    <3> QED BY <3>1, <3>3
  <2> QED BY <2>1, <2>2, <2>3 DEF QueueOK, Item
<1>3. DelKeys(queue, r) = [x \in DOMAIN queue \ dropped |-> queue[x]]
  BY DEF DelKeys
<1> HIDE DEF dropped
<1>4. DOMAIN DelKeys(queue, r) = {i \in DOMAIN queue : RootOf(i) # r}
  BY <1>1, <1>2, <1>3
<1> QED BY <1>3, <1>4 DEF Below

\* What process() does to the queue.
LEMMA EnqueuedRoot ==
  ASSUME NEW i \in Root
  PROVE  /\ DOMAIN Enqueued(i) = DOMAIN queue \cup {i}
         /\ \A x \in Item : Below(Enqueued(i), x) = Below(queue, x)
<1>1. Enqueued(i) = Put(queue, i, Below(queue, i))
  BY Roots DEF Enqueued
<1> QED BY <1>1 DEF Put, Below

LEMMA EnqueuedSeason ==
  ASSUME NEW i \in Season
  PROVE  /\ DOMAIN Enqueued(i) = DOMAIN queue \cup {Parent[i]}
         /\ \A x \in Item : Below(Enqueued(i), x) =
                     IF x = Parent[i] THEN Below(queue, x) \cup {i} ELSE Below(queue, x)
<1>1. Enqueued(i) = Put(queue, Parent[i], Below(queue, Parent[i]) \cup {i})
  BY Roots DEF Enqueued
<1> QED BY <1>1 DEF Put, Below

LEMMA EnqueuedEpisode ==
  ASSUME NEW i \in Episode
  PROVE  /\ DOMAIN Enqueued(i) = DOMAIN queue \cup {RootOf(i), Parent[i], i}
         /\ \A x \in Item : Below(Enqueued(i), x) =
                     IF x = i THEN {RootOf(i)}
                     ELSE IF x = Parent[i] THEN Below(queue, x) \cup {i}
                     ELSE IF x = RootOf(i) THEN Below(queue, x) \cup {Parent[i]}
                     ELSE Below(queue, x)
<1> DEFINE one == Put(queue, RootOf(i), Below(queue, RootOf(i)) \cup {Parent[i]})
           two == Put(one, Parent[i], Below(queue, Parent[i]) \cup {i})
<1>1. Enqueued(i) = Put(two, i, {RootOf(i)})
  BY DEF Enqueued
<1>2. /\ DOMAIN one = DOMAIN queue \cup {RootOf(i)}
      /\ \A x \in Item : Below(one, x) = IF x = RootOf(i) THEN Below(queue, RootOf(i)) \cup {Parent[i]}
                                ELSE Below(queue, x)
  BY DEF Put, Below
<1> HIDE DEF one
<1>3. /\ DOMAIN two = DOMAIN one \cup {Parent[i]}
      /\ \A x \in Item : Below(two, x) = IF x = Parent[i] THEN Below(queue, Parent[i]) \cup {i}
                                ELSE Below(one, x)
  BY DEF Put, Below
<1> HIDE DEF two
<1>4. /\ DOMAIN Enqueued(i) = DOMAIN two \cup {i}
      /\ \A x \in Item : Below(Enqueued(i), x) = IF x = i THEN {RootOf(i)} ELSE Below(two, x)
  BY <1>1 DEF Put, Below
<1> QED BY <1>2, <1>3, <1>4

\* A queued item changes what is queued for its root alone, and takes nothing away; what is
\* above it has something below.
LEMMA EnqueuedFacts ==
  ASSUME QueueOK, NEW i \in Item
  PROVE  /\ DOMAIN queue \subseteq DOMAIN Enqueued(i)
         /\ RootOf(i) \in DOMAIN Enqueued(i)
         /\ \A x \in DOMAIN Enqueued(i) : x \in DOMAIN queue \/ (x \in Item /\ RootOf(x) = RootOf(i))
         /\ \A x \in Item : RootOf(x) # RootOf(i) => Below(Enqueued(i), x) = Below(queue, x)
         /\ \A x \in Item : Below(queue, x) \subseteq Below(Enqueued(i), x)
         /\ \A x \in Item : x # i => \/ /\ x \in DOMAIN Enqueued(i) <=> x \in DOMAIN queue
                                        /\ Below(Enqueued(i), x) = Below(queue, x)
                                     \/ /\ x \notin Episode
                                        /\ Below(Enqueued(i), x) # {}
<1> DEFINE q == Enqueued(i)
<1>0. Root \subseteq Item /\ Season \subseteq Item /\ Episode \subseteq Item
  BY DEF Item
<1>1. CASE i \in Root
  <2>1. DOMAIN q = DOMAIN queue \cup {i}
    BY <1>1, EnqueuedRoot
  <2>2. \A x \in Item : Below(q, x) = Below(queue, x)
    BY <1>1, EnqueuedRoot
  <2>3. RootOf(i) = i
    BY <1>1, Roots
  <2> HIDE DEF q
  <2>4. /\ DOMAIN queue \subseteq DOMAIN q /\ RootOf(i) \in DOMAIN q
        /\ \A x \in DOMAIN q : x \in DOMAIN queue \/ (x \in Item /\ RootOf(x) = RootOf(i))
        /\ \A x \in Item : x # i => (x \in DOMAIN q <=> x \in DOMAIN queue)
    BY <2>1, <2>3
  <2> QED BY <2>2, <2>4 DEF q
<1>2. CASE i \in Season
  <2>1. DOMAIN q = DOMAIN queue \cup {Parent[i]}
    BY <1>2, EnqueuedSeason
  <2>2. \A x \in Item : Below(q, x) =
          IF x = Parent[i] THEN Below(queue, x) \cup {i} ELSE Below(queue, x)
    BY <1>2, EnqueuedSeason
  <2>3. RootOf(i) = Parent[i] /\ Parent[i] \in Root /\ RootOf(Parent[i]) = Parent[i]
        /\ Parent[i] \notin Episode
    BY <1>2, Roots
  <2> HIDE DEF q
  <2>4. /\ DOMAIN queue \subseteq DOMAIN q /\ RootOf(i) \in DOMAIN q
        /\ \A x \in DOMAIN q : x \in DOMAIN queue \/ (x \in Item /\ RootOf(x) = RootOf(i))
    BY <1>0, <2>1, <2>3
  <2>5. \A x \in Item : RootOf(x) # RootOf(i) => Below(q, x) = Below(queue, x)
    BY <2>2, <2>3
  <2>6. \A x \in Item : Below(queue, x) \subseteq Below(q, x)
    BY <2>2
  <2>7. \A x \in Item : x # i => \/ /\ x \in DOMAIN q <=> x \in DOMAIN queue
                                    /\ Below(q, x) = Below(queue, x)
                                 \/ x \notin Episode /\ Below(q, x) # {}
    BY <2>1, <2>2, <2>3
  <2> QED BY <2>4, <2>5, <2>6, <2>7 DEF q
<1>3. CASE i \in Episode
  <2>1. DOMAIN q = DOMAIN queue \cup {RootOf(i), Parent[i], i}
    BY <1>3, EnqueuedEpisode
  <2>2. \A x \in Item : Below(q, x) =
          IF x = i THEN {RootOf(i)}
          ELSE IF x = Parent[i] THEN Below(queue, x) \cup {i}
          ELSE IF x = RootOf(i) THEN Below(queue, x) \cup {Parent[i]}
          ELSE Below(queue, x)
    BY <1>3, EnqueuedEpisode
  <2>3. /\ RootOf(i) \in Root /\ Parent[i] \in Season /\ RootOf(Parent[i]) = RootOf(i)
        /\ RootOf(RootOf(i)) = RootOf(i) /\ RootOf(i) \notin Episode /\ Parent[i] \notin Episode
    BY <1>3, Roots
  <2>4. Below(queue, i) \subseteq {RootOf(i)}
    BY <1>3, BelowTypes
  <2> HIDE DEF q
  <2>5. /\ DOMAIN queue \subseteq DOMAIN q /\ RootOf(i) \in DOMAIN q
        /\ \A x \in DOMAIN q : x \in DOMAIN queue \/ (x \in Item /\ RootOf(x) = RootOf(i))
    BY <1>0, <2>1, <2>3
  <2>6. \A x \in Item : RootOf(x) # RootOf(i) => Below(q, x) = Below(queue, x)
    BY <2>2, <2>3
  <2>7. \A x \in Item : Below(queue, x) \subseteq Below(q, x)
    BY <2>2, <2>4
  <2>8. \A x \in Item : x # i => \/ /\ x \in DOMAIN q <=> x \in DOMAIN queue
                                    /\ Below(q, x) = Below(queue, x)
                                 \/ x \notin Episode /\ Below(q, x) # {}
    BY <2>1, <2>2, <2>3
  <2> QED BY <2>5, <2>6, <2>7, <2>8 DEF q
<1> QED BY <1>1, <1>2, <1>3 DEF Item

\* Only a root can be queued with nothing below it.
LEMMA EmptyIsRoot ==
  ASSUME QueueOK, NEW i \in DOMAIN queue, queue[i] = {}
  PROVE  i \in Root
BY DEF QueueOK, Item

\* The queue's shape, in terms of Below.
LEMMA QueueShape ==
  ASSUME NEW q
  PROVE  (/\ DOMAIN q \subseteq Item
          /\ \A i \in DOMAIN q :
               /\ i \in Root => Below(q, i) \subseteq Seasons(i)
               /\ i \in Season => /\ Below(q, i) \subseteq {e \in Episode : Parent[e] = i}
                                  /\ Below(q, i) # {} /\ i \in Below(q, Parent[i])
               /\ i \in Episode => Below(q, i) = {RootOf(i)} /\ i \in Below(q, Parent[i]))
         <=>
         (/\ DOMAIN q \subseteq Item
          /\ \A i \in DOMAIN q :
               /\ i \in Root => q[i] \subseteq Seasons(i)
               /\ i \in Season => /\ q[i] \subseteq {e \in Episode : Parent[e] = i}
                                  /\ q[i] # {} /\ i \in Below(q, Parent[i])
               /\ i \in Episode => q[i] = {RootOf(i)} /\ i \in Below(q, Parent[i]))
BY DEF Below

\* The queue keeps its shape.
LEMMA EnqueuedShape ==
  ASSUME QueueOK, NEW i \in Item, queue' = Enqueued(i)
  PROVE  QueueOK'
<1> DEFINE q == Enqueued(i)
<1>0. /\ \A x \in DOMAIN queue :
           /\ x \in Root => Below(queue, x) \subseteq Seasons(x)
           /\ x \in Season => /\ Below(queue, x) \subseteq {e \in Episode : Parent[e] = x}
                              /\ Below(queue, x) # {} /\ x \in Below(queue, Parent[x])
           /\ x \in Episode => Below(queue, x) = {RootOf(x)} /\ x \in Below(queue, Parent[x])
      /\ DOMAIN queue \subseteq Item
  BY QueueShape DEF QueueOK
<1>1. /\ DOMAIN q \subseteq Item
      /\ \A x \in DOMAIN q :
           /\ x \in Root => Below(q, x) \subseteq Seasons(x)
           /\ x \in Season => /\ Below(q, x) \subseteq {e \in Episode : Parent[e] = x}
                              /\ Below(q, x) # {} /\ x \in Below(q, Parent[x])
           /\ x \in Episode => Below(q, x) = {RootOf(x)} /\ x \in Below(q, Parent[x])
  <2>1. CASE i \in Root
    <3>1. DOMAIN q = DOMAIN queue \cup {i} /\ \A x \in Item : Below(q, x) = Below(queue, x)
      BY <2>1, EnqueuedRoot
    <3>2. Below(queue, i) \subseteq Seasons(i) /\ i \notin Season /\ i \notin Episode
      BY <2>1, BelowTypes, Roots
    <3>3. \A x \in Season \cup Episode : Parent[x] \in Item
      BY Roots DEF Item
    <3> HIDE DEF q
    <3> QED BY <3>1, <3>2, <3>3, <1>0
  <2>2. CASE i \in Season
    <3>1. DOMAIN q = DOMAIN queue \cup {Parent[i]} /\ Parent[i] \in Root
          /\ \A x \in Item : Below(q, x) = IF x = Parent[i] THEN Below(queue, x) \cup {i} ELSE Below(queue, x)
      BY <2>2, EnqueuedSeason, Roots
    <3>2. Below(queue, Parent[i]) \subseteq Seasons(Parent[i]) /\ i \in Seasons(Parent[i])
      BY <2>2, <3>1, BelowTypes DEF Seasons
    <3> HIDE DEF q
    <3> QED BY <3>1, <3>2, <1>0, Roots DEF Item
  <2>3. CASE i \in Episode
    <3>1. /\ DOMAIN q = DOMAIN queue \cup {RootOf(i), Parent[i], i}
          /\ \A x \in Item : Below(q, x) = IF x = i THEN {RootOf(i)}
                                  ELSE IF x = Parent[i] THEN Below(queue, x) \cup {i}
                                  ELSE IF x = RootOf(i) THEN Below(queue, x) \cup {Parent[i]}
                                  ELSE Below(queue, x)
      BY <2>3, EnqueuedEpisode
    <3>2. /\ Parent[i] \in Season /\ RootOf(i) \in Root /\ RootOf(i) = Parent[Parent[i]]
          /\ i # Parent[i] /\ i # RootOf(i) /\ Parent[i] # RootOf(i)
          /\ i \in Item /\ Parent[i] \in Item /\ RootOf(i) \in Item
      BY <2>3, Roots DEF Item
    <3>3. /\ Below(queue, RootOf(i)) \subseteq Seasons(RootOf(i)) /\ Parent[i] \in Seasons(RootOf(i))
          /\ Below(queue, Parent[i]) \subseteq {e \in Episode : Parent[e] = Parent[i]}
      BY <3>2, BelowTypes DEF Seasons
    <3> HIDE DEF q
    <3>4. \A x \in Item : x # i => Below(queue, x) \subseteq Below(q, x)
      BY <3>1
    <3>5. DOMAIN q \subseteq Item
      BY <3>1, <3>2, <1>0
    <3>6. ASSUME NEW x \in DOMAIN q, x \in Root PROVE Below(q, x) \subseteq Seasons(x)
      BY <3>6, <3>1, <3>2, <3>3, <1>0, Roots
    <3>7. ASSUME NEW x \in DOMAIN q, x \in Season
          PROVE  /\ Below(q, x) \subseteq {e \in Episode : Parent[e] = x}
                 /\ Below(q, x) # {} /\ x \in Below(q, Parent[x])
      <4>1. CASE x = Parent[i]
        BY <4>1, <3>1, <3>2, <3>3, <2>3
      <4>2. CASE x # Parent[i]
        <5>0. x \in Item /\ x # i /\ x # RootOf(i)
          BY <3>2, <3>7, <2>3, Roots DEF Item
        <5>1. x \in DOMAIN queue /\ Below(q, x) = Below(queue, x) /\ x # i
          BY <4>2, <5>0, <3>1
        <5>2. x \in Below(queue, Parent[x]) /\ Parent[x] \in Item /\ Parent[x] # i
          BY <5>1, <3>7, <1>0, <2>3, Roots DEF Item
        <5> QED BY <5>1, <5>2, <3>7, <3>4, <1>0
      <4> QED BY <4>1, <4>2
    <3>8. ASSUME NEW x \in DOMAIN q, x \in Episode
          PROVE  Below(q, x) = {RootOf(x)} /\ x \in Below(q, Parent[x])
      <4>1. CASE x = i
        BY <4>1, <3>1, <3>2
      <4>2. CASE x # i
        <5>0. x \in Item /\ x # Parent[i] /\ x # RootOf(i)
          BY <3>2, <3>8, Roots DEF Item
        <5>1. x \in DOMAIN queue /\ Below(q, x) = Below(queue, x)
          BY <4>2, <5>0, <3>1
        <5>2. x \in Below(queue, Parent[x]) /\ Parent[x] \in Item /\ Parent[x] # i
          BY <5>1, <3>8, <1>0, <2>3, Roots DEF Item
        <5> QED BY <5>1, <5>2, <3>8, <3>4, <1>0
      <4> QED BY <4>1, <4>2
    <3> QED BY <3>5, <3>6, <3>7, <3>8
  <2> QED BY <2>1, <2>2, <2>3 DEF Item
<1>2. /\ DOMAIN q \subseteq Item
      /\ \A x \in DOMAIN q :
           /\ x \in Root => q[x] \subseteq Seasons(x)
           /\ x \in Season => /\ q[x] \subseteq {e \in Episode : Parent[e] = x}
                              /\ q[x] # {} /\ x \in Below(q, Parent[x])
           /\ x \in Episode => q[x] = {RootOf(x)} /\ x \in Below(q, Parent[x])
  <2> HIDE DEF q
  <2> QED BY <1>1, QueueShape
<1> QED BY <1>2 DEF QueueOK, Below, Seasons, RootOf

LEMMA ClearedShape ==
  ASSUME QueueOK, NEW r \in Root, queue' = DelKeys(queue, r)
  PROVE  QueueOK'
<1>1. /\ DOMAIN queue' = {i \in DOMAIN queue : RootOf(i) # r}
      /\ \A i \in DOMAIN queue' : queue'[i] = queue[i]
  BY DelRoot DEF DelKeys
<1>2. \A i \in DOMAIN queue' : i \in DOMAIN queue /\ i \in Item
  BY <1>1 DEF QueueOK
<1>3. ASSUME NEW i \in DOMAIN queue', i \in Season \/ i \in Episode
      PROVE  i \in Below(queue', Parent[i])
  <2>1. i \in Below(queue, Parent[i])
    BY <1>2, <1>3 DEF QueueOK
  <2>2. Parent[i] \in DOMAIN queue
    BY <2>1 DEF Below
  <2>3. RootOf(Parent[i]) = RootOf(i)
    BY <1>3, Roots
  <2> QED BY <2>1, <2>2, <2>3, <1>1 DEF Below
<1> QED BY <1>1, <1>2, <1>3 DEF QueueOK, Seasons, RootOf, Below

-----------------------------------------------------------------------------
(***************************************************************************)
(* The steps of a callback, one by one.                                    *)
(***************************************************************************)
LEMMA Placed ==
  ASSUME clearing \in [Root -> Process \cup {Idle}], NEW r \in Root, NEW process,
         process \in Process \cup {Idle}, Becomes(r, process)
  PROVE  /\ clearing' \in [Root -> Process \cup {Idle}]
         /\ clearing'[r] = process
         /\ \A o \in Root \ {r} : clearing'[o] = clearing[o]
BY DEF Becomes

\* A root that is being cleared has a callback, the others have none.
LEMMA BusyProcess ==
  ASSUME TypeInv, NEW r \in Root
  PROVE  /\ Busy(r) => clearing[r] \in Process /\ About(r, clearing[r])
         /\ ~Busy(r) => clearing[r] = Idle
<1>1. clearing[r] \in Process \cup {Idle}
  BY DEF TypeInv
<1>2. \A process \in Process : process.step # "idle"
  BY DEF Process
<1>3. Idle.step = "idle"
  BY DEF Idle
<1> QED BY <1>1, <1>2, <1>3 DEF Busy, TypeInv

LEMMA AnnouncingFacts ==
  ASSUME NEW process \in Process, NEW item \in Item, NEW group \in BOOLEAN, NEW back \in Loops
  PROVE  LET n == Announcing(process, item, group, back) IN
         /\ n \in Process
         /\ n.step = "announce" /\ n.item = item /\ n.group = group /\ n.back = back
         /\ n.seasons = process.seasons /\ n.size = process.size /\ n.season = process.season
         /\ n.episodes = process.episodes /\ n.count = process.count /\ n.keys = process.keys
BY DEF Announcing, Process

\* The job fires: nothing is queued for the root, or its callback begins.
LEMMA FireCases ==
  ASSUME TypeInv, NEW r \in Root, Fire(r)
  PROVE  /\ ~Busy(r) /\ clearing[r] = Idle /\ r \in jobs /\ jobs' = jobs \ {r}
         /\ UNCHANGED <<server, queue, listener, record, ghosts, bounds>>
         /\ clearing' \in [Root -> Process \cup {Idle}]
         /\ \A o \in Root \ {r} : clearing'[o] = clearing[o]
         /\ \/ r \notin DOMAIN queue /\ UNCHANGED clearing
            \/ LET n == clearing'[r] IN
               /\ r \in DOMAIN queue /\ n \in Process
               /\ n.seasons = Below(queue, r) /\ n.size = Cardinality(Below(queue, r))
               /\ n.episodes = {} /\ n.item = r
               /\ \/ n.step = "announce" /\ n.group = TRUE /\ n.back = "clear"
                  \/ n.step = "seasons" /\ queue[r] # {}
                  \/ n.step = "announce" /\ n.group = FALSE /\ n.back = "clear" /\ queue[r] = {}
<1>1. /\ ~Busy(r) /\ r \in jobs /\ jobs' = jobs \ {r}
      /\ UNCHANGED <<server, queue, listener, record, ghosts, bounds>>
  BY DEF Fire
<1>0. clearing \in [Root -> Process \cup {Idle}] /\ clearing[r] = Idle
  BY <1>1, BusyProcess DEF TypeInv
<1>2. CASE r \notin DOMAIN queue
  <2>1. UNCHANGED clearing
    BY <1>2 DEF Fire
  <2> QED BY <1>1, <1>2, <2>1, BusyProcess DEF TypeInv
<1>3. CASE r \in DOMAIN queue
  <2>1. queue[r] = Below(queue, r) /\ queue[r] \subseteq Season /\ r \in Item
    BY <1>3, BelowTypes DEF Below, TypeInv, Seasons, Item
  <2>2. queue[r] \in SUBSET Item
    BY <2>1 DEF Item
  <2>3. Cardinality(queue[r]) \in Sizes
    BY <2>2 DEF Sizes
  <2> DEFINE start == Started(r)
  <2>4. /\ start \in Process
        /\ start.step = "seasons" /\ start.seasons = queue[r] /\ start.size = Cardinality(queue[r])
        /\ start.episodes = {} /\ start.item = r
    BY <2>1, <2>3 DEF Started, Process, Loops, Sizes
  <2> HIDE DEF start
  <2>5. CASE GroupRoot /\ Cardinality(queue[r]) > 1
    <3> DEFINE n == Announcing(start, r, TRUE, "clear")
    <3>1. /\ n \in Process /\ n.step = "announce" /\ n.group = TRUE /\ n.back = "clear"
          /\ n.item = r /\ n.seasons = start.seasons /\ n.size = start.size
          /\ n.episodes = start.episodes
      BY <2>1, <2>4 DEF Announcing, Process, Loops
    <3> HIDE DEF n
    <3>2. Becomes(r, n)
      BY <1>3, <2>5 DEF Fire, n, start
    <3>3. /\ clearing' \in [Root -> Process \cup {Idle}] /\ clearing'[r] = n
          /\ \A o \in Root \ {r} : clearing'[o] = clearing[o]
      BY <1>0, <3>1, <3>2, Placed
    <3>4. /\ n.seasons = Below(queue, r) /\ n.size = Cardinality(Below(queue, r))
          /\ n.episodes = {} /\ n.item = r
      BY <2>1, <2>4, <3>1
    <3> QED BY <1>0, <1>1, <1>3, <3>1, <3>3, <3>4
  <2>6. CASE ~(GroupRoot /\ Cardinality(queue[r]) > 1) /\ queue[r] # {}
    <3>1. Becomes(r, start)
      BY <1>3, <2>6 DEF Fire, start
    <3> QED BY <1>1, <1>3, <2>1, <2>4, <2>6, <3>1, Placed, BusyProcess DEF TypeInv
  <2>7. CASE ~(GroupRoot /\ Cardinality(queue[r]) > 1) /\ queue[r] = {}
    <3> DEFINE n == Announcing(start, r, FALSE, "clear")
    <3>1. /\ n \in Process /\ n.step = "announce" /\ n.group = FALSE /\ n.back = "clear"
          /\ n.item = r /\ n.seasons = start.seasons /\ n.size = start.size
          /\ n.episodes = start.episodes
      BY <2>1, <2>4 DEF Announcing, Process, Loops
    <3> HIDE DEF n
    <3>2. Becomes(r, n)
      BY <1>3, <2>7 DEF Fire, n, start
    <3>3. /\ clearing' \in [Root -> Process \cup {Idle}] /\ clearing'[r] = n
          /\ \A o \in Root \ {r} : clearing'[o] = clearing[o]
      BY <1>0, <3>1, <3>2, Placed
    <3>4. /\ n.seasons = Below(queue, r) /\ n.size = Cardinality(Below(queue, r))
          /\ n.episodes = {} /\ n.item = r
      BY <2>1, <2>4, <3>1
    <3> QED BY <1>0, <1>1, <1>3, <2>7, <3>1, <3>3, <3>4
  <2> QED BY <2>5, <2>6, <2>7
<1> QED BY <1>2, <1>3

\* The loop over the seasons: it raises, ends, or comes to the next one.
LEMMA NextSeasonCases ==
  ASSUME TypeInv, NEW r \in Root, NextSeason(r)
  PROVE  LET p == clearing[r]
             n == clearing'[r] IN
         /\ Busy(r) /\ p \in Process /\ p.step = "seasons"
         /\ UNCHANGED <<server, queue, jobs, listener, record, ghosts, bounds>>
         /\ clearing' \in [Root -> Process \cup {Idle}]
         /\ \A o \in Root \ {r} : clearing'[o] = clearing[o]
         /\ \/ n = Idle /\ Cardinality(Below(queue, r)) # p.size
            \/ /\ n \in Process /\ p.seasons = {} /\ n.step = "clear" /\ n.seasons = p.seasons
               /\ n.episodes = p.episodes /\ n.item = p.item
            \/ \E s \in p.seasons :
                 /\ n \in Process /\ n.seasons = p.seasons \ {s} /\ n.size = p.size
                 /\ \/ /\ n.step = "announce" /\ n.item = s /\ n.back = "seasons"
                       /\ n.episodes = p.episodes
                       /\ n.group = TRUE \/ (n.group = FALSE /\ Below(queue, s) = {})
                    \/ /\ n.step = "episodes" /\ n.season = s /\ n.episodes = Below(queue, s)
                       /\ n.count = Cardinality(Below(queue, s)) /\ n.item = p.item
                       /\ Below(queue, s) # {}
<1> DEFINE p == clearing[r]
<1>1. /\ p.step = "seasons"
      /\ UNCHANGED <<server, queue, jobs, listener, record, ghosts, bounds>>
  BY DEF NextSeason
<1>2. Busy(r) /\ p \in Process /\ About(r, p)
  BY <1>1, BusyProcess DEF Busy
<1>3. clearing \in [Root -> Process \cup {Idle}]
  BY DEF TypeInv
<1>4. CASE Becomes(r, Idle) /\ Cardinality(Below(queue, r)) # p.size
  BY <1>1, <1>2, <1>3, <1>4, Placed
<1>5. CASE p.seasons = {} /\ Becomes(r, [p EXCEPT !.step = "clear"])
  <2> DEFINE n == [p EXCEPT !.step = "clear"]
  <2>1. /\ n \in Process /\ n.step = "clear" /\ n.seasons = p.seasons
        /\ n.episodes = p.episodes /\ n.item = p.item
    BY <1>2 DEF Process
  <2> HIDE DEF n
  <2>2. Becomes(r, n)
    BY <1>5 DEF n
  <2> QED BY <1>1, <1>2, <1>3, <1>5, <2>1, <2>2, Placed
<1>6. ASSUME NEW s \in p.seasons,
             Becomes(r, IF GroupSeason /\ Cardinality(Below(queue, s)) > 1
                        THEN Announcing(Rest(p, s), s, TRUE, "seasons")
                        ELSE IF Below(queue, s) # {}
                        THEN [Rest(p, s) EXCEPT !.step = "episodes", !.season = s,
                                                !.episodes = Below(queue, s),
                                                !.count = Cardinality(Below(queue, s))]
                        ELSE Announcing(Rest(p, s), s, FALSE, "seasons"))
      PROVE  LET n == clearing'[r] IN
             /\ clearing' \in [Root -> Process \cup {Idle}]
             /\ \A o \in Root \ {r} : clearing'[o] = clearing[o]
             /\ n \in Process /\ n.seasons = p.seasons \ {s} /\ n.size = p.size
             /\ \/ /\ n.step = "announce" /\ n.item = s /\ n.back = "seasons"
                   /\ n.episodes = p.episodes
                   /\ n.group = TRUE \/ (n.group = FALSE /\ Below(queue, s) = {})
                \/ /\ n.step = "episodes" /\ n.season = s /\ n.episodes = Below(queue, s)
                   /\ n.count = Cardinality(Below(queue, s)) /\ n.item = p.item
                   /\ Below(queue, s) # {}
  <2> DEFINE rest == Rest(p, s)
  <2>1. s \in Season /\ s \in Item /\ p.seasons \subseteq Season
    BY <1>2 DEF About, Seasons, Item
  <2>2. /\ rest \in Process /\ rest.seasons = p.seasons \ {s} /\ rest.size = p.size
        /\ rest.episodes = p.episodes /\ rest.item = p.item
    BY <1>2, <2>1 DEF Rest, Process
  <2>3. Below(queue, s) \subseteq Episode /\ Below(queue, s) \in SUBSET Item
    BY <2>1, BelowTypes DEF TypeInv, Item
  <2>4. Cardinality(Below(queue, s)) \in Sizes
    BY <2>3 DEF Sizes
  <2> HIDE DEF rest, p
  <2>5. ASSUME NEW group \in BOOLEAN, Becomes(r, Announcing(rest, s, group, "seasons")),
               group = TRUE \/ Below(queue, s) = {}
        PROVE  LET n == clearing'[r] IN
               /\ clearing' \in [Root -> Process \cup {Idle}]
               /\ \A o \in Root \ {r} : clearing'[o] = clearing[o]
               /\ n \in Process /\ n.seasons = p.seasons \ {s} /\ n.size = p.size
               /\ n.step = "announce" /\ n.item = s /\ n.back = "seasons"
               /\ n.episodes = p.episodes
               /\ n.group = TRUE \/ (n.group = FALSE /\ Below(queue, s) = {})
    <3> DEFINE n == Announcing(rest, s, group, "seasons")
    <3>1. /\ n \in Process /\ n.step = "announce" /\ n.item = s /\ n.group = group
          /\ n.back = "seasons" /\ n.seasons = rest.seasons /\ n.size = rest.size
          /\ n.episodes = rest.episodes
      BY <2>1, <2>2, AnnouncingFacts DEF Loops
    <3> HIDE DEF n
    <3>2. Becomes(r, n)
      BY <2>5 DEF n
    <3> QED BY <1>3, <2>2, <2>5, <3>1, <3>2, Placed
  <2>6. CASE GroupSeason /\ Cardinality(Below(queue, s)) > 1
    <3>1. Becomes(r, Announcing(rest, s, TRUE, "seasons"))
      BY <1>6, <2>6 DEF rest
    <3> QED BY <2>5, <3>1
  <2>7. CASE ~(GroupSeason /\ Cardinality(Below(queue, s)) > 1) /\ Below(queue, s) = {}
    <3>1. Becomes(r, Announcing(rest, s, FALSE, "seasons"))
      BY <1>6, <2>7 DEF rest
    <3> QED BY <2>5, <2>7, <3>1
  <2>8. CASE ~(GroupSeason /\ Cardinality(Below(queue, s)) > 1) /\ Below(queue, s) # {}
    <3> DEFINE n == [rest EXCEPT !.step = "episodes", !.season = s, !.episodes = Below(queue, s),
                                 !.count = Cardinality(Below(queue, s))]
    <3>1. /\ n \in Process /\ n.step = "episodes" /\ n.season = s /\ n.episodes = Below(queue, s)
          /\ n.count = Cardinality(Below(queue, s)) /\ n.item = rest.item
          /\ n.seasons = rest.seasons /\ n.size = rest.size
      BY <2>1, <2>2, <2>3, <2>4 DEF Process
    <3> HIDE DEF n
    <3>2. Becomes(r, n)
      BY <1>6, <2>8 DEF n, rest
    <3> QED BY <1>3, <2>2, <2>8, <3>1, <3>2, Placed
  <2> QED BY <2>6, <2>7, <2>8
<1>7. \/ Becomes(r, Idle) /\ Cardinality(Below(queue, r)) # p.size
      \/ p.seasons = {} /\ Becomes(r, [p EXCEPT !.step = "clear"])
      \/ \E s \in p.seasons :
           Becomes(r, IF GroupSeason /\ Cardinality(Below(queue, s)) > 1
                      THEN Announcing(Rest(p, s), s, TRUE, "seasons")
                      ELSE IF Below(queue, s) # {}
                      THEN [Rest(p, s) EXCEPT !.step = "episodes", !.season = s,
                                              !.episodes = Below(queue, s),
                                              !.count = Cardinality(Below(queue, s))]
                      ELSE Announcing(Rest(p, s), s, FALSE, "seasons"))
  BY DEF NextSeason
<1> HIDE DEF p
<1>8. CASE \E s \in p.seasons :
             Becomes(r, IF GroupSeason /\ Cardinality(Below(queue, s)) > 1
                        THEN Announcing(Rest(p, s), s, TRUE, "seasons")
                        ELSE IF Below(queue, s) # {}
                        THEN [Rest(p, s) EXCEPT !.step = "episodes", !.season = s,
                                                !.episodes = Below(queue, s),
                                                !.count = Cardinality(Below(queue, s))]
                        ELSE Announcing(Rest(p, s), s, FALSE, "seasons"))
  BY <1>1, <1>2, <1>6, <1>8 DEF p
<1> QED BY <1>4, <1>5, <1>7, <1>8 DEF p

\* The loop over a season's episodes.
LEMMA NextEpisodeCases ==
  ASSUME TypeInv, NEW r \in Root, NextEpisode(r)
  PROVE  LET p == clearing[r]
             n == clearing'[r] IN
         /\ Busy(r) /\ p \in Process /\ p.step = "episodes"
         /\ UNCHANGED <<server, queue, jobs, listener, record, ghosts, bounds>>
         /\ clearing' \in [Root -> Process \cup {Idle}]
         /\ \A o \in Root \ {r} : clearing'[o] = clearing[o]
         /\ \/ n = Idle /\ Cardinality(Below(queue, p.season)) # p.count
            \/ /\ n \in Process /\ n.seasons = p.seasons /\ n.size = p.size
               /\ n.season = p.season /\ n.count = p.count
               /\ \/ /\ p.episodes = {} /\ n.step = "seasons" /\ n.episodes = p.episodes
                     /\ n.item = p.item
                  \/ \E e \in p.episodes :
                       /\ n.step = "announce" /\ n.item = e /\ n.group = FALSE
                       /\ n.back = "episodes" /\ n.episodes = p.episodes \ {e}
<1> DEFINE p == clearing[r]
<1>1. /\ p.step = "episodes"
      /\ UNCHANGED <<server, queue, jobs, listener, record, ghosts, bounds>>
  BY DEF NextEpisode
<1>2. Busy(r) /\ p \in Process /\ About(r, p)
  BY <1>1, BusyProcess DEF Busy
<1>3. clearing \in [Root -> Process \cup {Idle}]
  BY DEF TypeInv
<1>4. CASE Becomes(r, Idle) /\ Cardinality(Below(queue, p.season)) # p.count
  BY <1>1, <1>2, <1>3, <1>4, Placed
<1>5. CASE p.episodes = {} /\ Becomes(r, [p EXCEPT !.step = "seasons"])
  <2> DEFINE n == [p EXCEPT !.step = "seasons"]
  <2>1. /\ n \in Process /\ n.step = "seasons" /\ n.seasons = p.seasons /\ n.size = p.size
        /\ n.season = p.season /\ n.count = p.count
        /\ n.episodes = p.episodes /\ n.item = p.item
    BY <1>2 DEF Process
  <2> HIDE DEF n
  <2>2. Becomes(r, n)
    BY <1>5 DEF n
  <2> QED BY <1>1, <1>2, <1>3, <1>5, <2>1, <2>2, Placed
<1>6. ASSUME NEW e \in p.episodes,
             Becomes(r, Announcing([p EXCEPT !.episodes = @ \ {e}], e, FALSE, "episodes"))
      PROVE  LET n == clearing'[r] IN
             /\ clearing' \in [Root -> Process \cup {Idle}]
             /\ \A o \in Root \ {r} : clearing'[o] = clearing[o]
             /\ n \in Process /\ n.seasons = p.seasons /\ n.size = p.size
             /\ n.season = p.season /\ n.count = p.count
             /\ n.step = "announce" /\ n.item = e /\ n.group = FALSE
             /\ n.back = "episodes" /\ n.episodes = p.episodes \ {e}
  <2> DEFINE rest == [p EXCEPT !.episodes = @ \ {e}]
             n == Announcing(rest, e, FALSE, "episodes")
  <2>1. e \in Episode /\ e \in Item
    BY <1>2 DEF About, Episodes, Item
  <2>2. /\ rest \in Process /\ rest.seasons = p.seasons /\ rest.size = p.size
        /\ rest.season = p.season /\ rest.count = p.count /\ rest.episodes = p.episodes \ {e}
    BY <1>2, <2>1 DEF Process
  <2> HIDE DEF rest, p
  <2>3. /\ n \in Process /\ n.step = "announce" /\ n.item = e /\ n.group = FALSE
        /\ n.back = "episodes" /\ n.seasons = rest.seasons /\ n.size = rest.size
        /\ n.season = rest.season /\ n.count = rest.count /\ n.episodes = rest.episodes
    BY <2>1, <2>2 DEF Announcing, Process, Loops
  <2>4. Becomes(r, n)
    BY <1>6 DEF rest
  <2> HIDE DEF n
  <2> QED BY <1>3, <2>2, <2>3, <2>4, Placed
<1>7. \/ Becomes(r, Idle) /\ Cardinality(Below(queue, p.season)) # p.count
      \/ p.episodes = {} /\ Becomes(r, [p EXCEPT !.step = "seasons"])
      \/ \E e \in p.episodes :
           Becomes(r, Announcing([p EXCEPT !.episodes = @ \ {e}], e, FALSE, "episodes"))
  BY DEF NextEpisode
<1> HIDE DEF p
<1>8. CASE \E e \in p.episodes :
             Becomes(r, Announcing([p EXCEPT !.episodes = @ \ {e}], e, FALSE, "episodes"))
  BY <1>1, <1>2, <1>6, <1>8 DEF p
<1> QED BY <1>4, <1>5, <1>7, <1>8 DEF p

\* What the announcement of an item names.
Named(q, process) ==
  LET below == IF process.group THEN Below(q, process.item) ELSE {} IN
  {process.item} \cup below \cup UNION {Below(q, c) : c \in below}

\* The callback stops where the server returned nothing.
LEMMA StopCases ==
  ASSUME TypeInv, NEW r \in Root, Busy(r), NEW broken \in BOOLEAN, Stop(r, broken)
  PROVE  /\ clearing' \in [Root -> Process \cup {Idle}]
         /\ clearing'[r] = Idle /\ \A o \in Root \ {r} : clearing'[o] = clearing[o]
         /\ failed' = failed \cup {r}
         /\ failures' = IF broken THEN failures ELSE failures + 1
<1>1. Becomes(r, Idle) /\ clearing \in [Root -> Process \cup {Idle}]
  BY DEF Stop, TypeInv
<1> QED BY <1>1, Placed DEF Stop

\* The announcement: told, and perhaps once more on its own; or the server does not
\* return the item.
LEMMA AnnounceCases ==
  ASSUME TypeInv, NEW r \in Root, Announce(r)
  PROVE  LET p == clearing[r]
             n == clearing'[r] IN
         /\ Busy(r) /\ p \in Process /\ p.step = "announce" /\ p.item \in Item
         /\ UNCHANGED <<server, queue, jobs, listener, recorded, late, restarts>>
         /\ clearing' \in [Root -> Process \cup {Idle}]
         /\ \A o \in Root \ {r} : clearing'[o] = clearing[o]
         /\ \/ /\ p.item \in library
               /\ \/ p.item \in recorded /\ ~p.group /\ UNCHANGED <<told, alone>>
                  \/ p.group /\ told' = told \cup Named(queue, p) /\ UNCHANGED alone
                  \/ /\ p.item \notin recorded /\ ~p.group /\ told' = told \cup Named(queue, p)
                     /\ alone' = [alone EXCEPT ![p.item] = @ + 1]
               /\ n \in Process /\ n.step = "record" /\ n.item = p.item /\ n.group = p.group
               /\ n.back = p.back /\ n.seasons = p.seasons /\ n.size = p.size
               /\ n.season = p.season /\ n.episodes = p.episodes /\ n.count = p.count
               /\ ~n.group => n.keys = {p.item}
               /\ UNCHANGED <<failed, failures>>
            \/ /\ n = Idle /\ failed' = failed \cup {r}
               /\ failures' = (IF p.item \notin library THEN failures ELSE failures + 1)
               /\ UNCHANGED <<told, alone>>
<1> DEFINE p == clearing[r]
           below == IF p.group THEN Below(queue, p.item) ELSE {}
<1>1. /\ p.step = "announce"
      /\ UNCHANGED <<server, queue, jobs, listener, recorded, late, restarts>>
  BY DEF Announce
<1>2. Busy(r) /\ p \in Process
  BY <1>1, BusyProcess DEF Busy
<1>3. p.item \in Item /\ p.group \in BOOLEAN /\ clearing \in [Root -> Process \cup {Idle}]
  BY <1>2 DEF TypeInv, Process
<1>4. CASE /\ p.item \in library
           /\ IF p.group \/ ~AddedAlready(p.item)
              THEN /\ told' = told \cup {p.item} \cup below \cup UNION {Below(queue, c) : c \in below}
                   /\ alone' = IF p.group THEN alone ELSE [alone EXCEPT ![p.item] = @ + 1]
              ELSE UNCHANGED <<told, alone>>
           /\ Becomes(r, [p EXCEPT !.step = "record", !.keys = {p.item} \cup below])
           /\ UNCHANGED <<failed, failures>>
  <2> DEFINE n == [p EXCEPT !.step = "record", !.keys = {p.item} \cup below]
  <2>1. below \subseteq Item
    BY <1>3, BelowTypes DEF TypeInv
  <2>2. {p.item} \cup below \in SUBSET Item
    BY <1>3, <2>1
  <2>3. /\ n \in Process /\ n.step = "record" /\ n.item = p.item /\ n.group = p.group
        /\ n.back = p.back /\ n.seasons = p.seasons /\ n.size = p.size
        /\ n.season = p.season /\ n.episodes = p.episodes /\ n.count = p.count
        /\ n.keys = {p.item} \cup below
    BY <1>2, <2>2 DEF Process
  <2> HIDE DEF n
  <2>4. Becomes(r, n)
    BY <1>4 DEF n
  <2>5. /\ clearing' \in [Root -> Process \cup {Idle}] /\ clearing'[r] = n
        /\ \A o \in Root \ {r} : clearing'[o] = clearing[o]
    BY <1>3, <2>3, <2>4, Placed
  <2>6. ~p.group => n.keys = {p.item}
    BY <2>3
  <2>7. \/ p.item \in recorded /\ ~p.group /\ UNCHANGED <<told, alone>>
        \/ p.group /\ told' = told \cup Named(queue, p) /\ UNCHANGED alone
        \/ /\ p.item \notin recorded /\ ~p.group /\ told' = told \cup Named(queue, p)
           /\ alone' = [alone EXCEPT ![p.item] = @ + 1]
    <3>1. Named(queue, p) = {p.item} \cup below \cup UNION {Below(queue, c) : c \in below}
      BY DEF Named
    <3> HIDE DEF below, p
    <3> QED BY <1>4, <3>1 DEF AddedAlready
  <2> HIDE DEF below, p
  <2> QED BY <1>1, <1>2, <1>3, <1>4, <2>3, <2>5, <2>6, <2>7 DEF p
<1>5. CASE Stop(r, p.item \notin library) /\ UNCHANGED <<told, alone>>
  <2>1. (p.item \notin library) \in BOOLEAN
    OBVIOUS
  <2>2. /\ clearing' \in [Root -> Process \cup {Idle}]
        /\ clearing'[r] = Idle /\ \A o \in Root \ {r} : clearing'[o] = clearing[o]
        /\ failed' = failed \cup {r}
        /\ failures' = IF p.item \notin library THEN failures ELSE failures + 1
    BY <1>2, <1>5, <2>1, StopCases
  <2> HIDE DEF p
  <2> QED BY <1>1, <1>2, <1>3, <1>5, <2>2 DEF p
<1>6. \/ /\ p.item \in library
         /\ IF p.group \/ ~AddedAlready(p.item)
            THEN /\ told' = told \cup {p.item} \cup below \cup UNION {Below(queue, c) : c \in below}
                 /\ alone' = IF p.group THEN alone ELSE [alone EXCEPT ![p.item] = @ + 1]
            ELSE UNCHANGED <<told, alone>>
         /\ Becomes(r, [p EXCEPT !.step = "record", !.keys = {p.item} \cup below])
         /\ UNCHANGED <<failed, failures>>
      \/ Stop(r, p.item \notin library) /\ UNCHANGED <<told, alone>>
  BY DEF Announce
<1> QED BY <1>4, <1>5, <1>6

\* The record: all keys, or the server does not return one of them.
LEMMA RecordCases ==
  ASSUME TypeInv, NEW r \in Root, Record(r)
  PROVE  LET p == clearing[r]
             n == clearing'[r] IN
         /\ Busy(r) /\ p \in Process /\ p.step = "record" /\ p.keys \subseteq Item
         /\ UNCHANGED <<server, queue, jobs, listener, told, alone, late, restarts>>
         /\ clearing' \in [Root -> Process \cup {Idle}]
         /\ \A o \in Root \ {r} : clearing'[o] = clearing[o]
         /\ \/ /\ p.keys \subseteq library /\ recorded' = recorded \cup p.keys
               /\ n \in Process /\ n.step = p.back /\ n.back = "clear" /\ n.item = r
               /\ n.seasons = p.seasons /\ n.size = p.size /\ n.season = p.season
               /\ n.episodes = p.episodes /\ n.count = p.count
               /\ UNCHANGED <<failed, failures>>
            \/ /\ n = Idle /\ failed' = failed \cup {r}
               /\ \E done \in SUBSET (p.keys \cap library) : recorded' = recorded \cup done
               /\ failures' = (IF p.keys \subseteq library THEN failures + 1 ELSE failures)
<1> DEFINE p == clearing[r]
           n == [p EXCEPT !.step = p.back, !.item = r, !.group = FALSE, !.keys = {},
                          !.back = "clear"]
<1>1. /\ p.step = "record"
      /\ UNCHANGED <<server, queue, jobs, listener, told, alone, late, restarts>>
  BY DEF Record
<1>2. Busy(r) /\ p \in Process
  BY <1>1, BusyProcess DEF Busy
<1>3. p.keys \subseteq Item /\ r \in Item /\ clearing \in [Root -> Process \cup {Idle}]
  BY <1>2 DEF TypeInv, Process, Item
<1>4. /\ n \in Process /\ n.step = p.back /\ n.back = "clear" /\ n.item = r
      /\ n.seasons = p.seasons /\ n.size = p.size /\ n.season = p.season
      /\ n.episodes = p.episodes /\ n.count = p.count
  BY <1>2, <1>3 DEF Process, Loops
<1>5. \/ /\ p.keys \subseteq library
         /\ recorded' = recorded \cup p.keys
         /\ Becomes(r, n)
         /\ UNCHANGED <<failed, failures>>
      \/ \E done \in SUBSET (p.keys \cap library) \ {p.keys} :
           /\ done # {} => p.item \in done
           /\ Stop(r, p.keys \ library # {})
           /\ recorded' = recorded \cup done
  BY DEF Record
<1> HIDE DEF n
<1>6. CASE p.keys \subseteq library /\ recorded' = recorded \cup p.keys /\ Becomes(r, n)
           /\ UNCHANGED <<failed, failures>>
  BY <1>1, <1>2, <1>3, <1>4, <1>6, Placed
<1>7. ASSUME NEW done \in SUBSET (p.keys \cap library), Stop(r, p.keys \ library # {}),
             recorded' = recorded \cup done
      PROVE  /\ clearing' \in [Root -> Process \cup {Idle}]
             /\ clearing'[r] = Idle /\ \A o \in Root \ {r} : clearing'[o] = clearing[o]
             /\ failed' = failed \cup {r}
             /\ failures' = (IF p.keys \subseteq library THEN failures + 1 ELSE failures)
  <2>1. (p.keys \ library # {}) \in BOOLEAN /\ (p.keys \ library # {} <=> ~(p.keys \subseteq library))
    OBVIOUS
  <2> HIDE DEF p
  <2> QED BY <1>2, <1>7, <2>1, StopCases
<1> HIDE DEF p
<1> QED BY <1>1, <1>2, <1>3, <1>5, <1>6, <1>7 DEF p

\* The end: what is queued for the root is dropped.
LEMMA ClearCases ==
  ASSUME TypeInv, NEW r \in Root, Clear(r)
  PROVE  /\ Busy(r) /\ clearing[r].step = "clear" /\ queue' = DelKeys(queue, r)
         /\ UNCHANGED <<server, jobs, listener, record, ghosts, bounds>>
         /\ clearing' \in [Root -> Process \cup {Idle}]
         /\ clearing'[r] = Idle /\ \A o \in Root \ {r} : clearing'[o] = clearing[o]
<1>1. /\ clearing[r].step = "clear" /\ Becomes(r, Idle)
      /\ clearing \in [Root -> Process \cup {Idle}]
  BY DEF Clear, TypeInv
<1> QED BY <1>1, Placed DEF Clear, Busy

-----------------------------------------------------------------------------
(***************************************************************************)
(* Types.                                                                  *)
(***************************************************************************)
\* What is not about the callbacks stays well typed in each of their steps.
LEMMA CallbackTypes ==
  ASSUME TypeInv, NEW r \in Root, clearing' \in [Root -> Process \cup {Idle}],
         \A o \in Root \ {r} : clearing'[o] = clearing[o],
         clearing'[r] = Idle \/ (clearing'[r] \in Process /\ About(r, clearing'[r]))
  PROVE  \A o \in Root : Busy(o)' => About(o, clearing'[o])
<1>1. ASSUME NEW o \in Root, o # r, clearing'[o].step # "idle" PROVE About(o, clearing'[o])
  <2>1. clearing'[o] = clearing[o]
    BY <1>1
  <2> QED BY <1>1, <2>1, BusyProcess DEF Busy
<1>2. ASSUME clearing'[r].step # "idle" PROVE About(r, clearing'[r])
  BY <1>2 DEF Idle
<1> QED BY <1>1, <1>2 DEF Busy

LEMMA FireAbout ==
  ASSUME TypeInv, NEW r \in Root, Fire(r)
  PROVE  clearing'[r] = Idle \/ (clearing'[r] \in Process /\ About(r, clearing'[r]))
<1> DEFINE n == clearing'[r]
<1>1. CASE r \notin DOMAIN queue
  <2>1. UNCHANGED clearing /\ clearing[r] = Idle
    BY <1>1, FireCases
  <2> QED BY <2>1
<1>2. CASE r \in DOMAIN queue
  <2>1. /\ n \in Process /\ n.seasons = Below(queue, r) /\ n.episodes = {} /\ n.item = r
        /\ n.step = "seasons" \/ (n.step = "announce" /\ n.back = "clear")
    BY <1>2, FireCases
  <2>2. Below(queue, r) \subseteq Seasons(r) /\ RootOf(r) = r
    BY BelowTypes, Roots DEF TypeInv
  <2> HIDE DEF n
  <2>3. At(n) # "episodes" /\ n.step # "record"
    BY <2>1 DEF At
  <2>4. About(r, n)
    BY <2>1, <2>2, <2>3 DEF About
  <2> QED BY <2>1, <2>4 DEF n
<1> QED BY <1>1, <1>2

LEMMA NextSeasonAbout ==
  ASSUME TypeInv, NEW r \in Root, NextSeason(r)
  PROVE  clearing'[r] = Idle \/ (clearing'[r] \in Process /\ About(r, clearing'[r]))
<1> DEFINE n == clearing'[r]
           p == clearing[r]
<1>1. About(r, p) /\ p.step = "seasons"
  BY NextSeasonCases, BusyProcess
<1>2. CASE n = Idle
  BY <1>2
<1>3. CASE /\ n \in Process /\ p.seasons = {} /\ n.step = "clear" /\ n.seasons = p.seasons
           /\ n.episodes = p.episodes /\ n.item = p.item
  <2> HIDE DEF n, p
  <2>1. At(n) # "episodes" /\ n.step # "record"
    BY <1>3 DEF At
  <2>2. About(r, n)
    BY <1>1, <1>3, <2>1 DEF About
  <2> QED BY <1>3, <2>2 DEF n
<1>4. ASSUME NEW s \in p.seasons, n \in Process, n.seasons = p.seasons \ {s},
             \/ n.step = "announce" /\ n.item = s /\ n.back = "seasons" /\ n.episodes = p.episodes
             \/ /\ n.step = "episodes" /\ n.season = s /\ n.episodes = Below(queue, s)
                /\ n.item = p.item
      PROVE  About(r, n)
  <2>1. s \in Season /\ Parent[s] = r /\ s \in Seasons(r) /\ RootOf(s) = r
    BY <1>1, Roots DEF About, Seasons
  <2>2. Below(queue, s) \subseteq Episodes(r)
    <3>1. Below(queue, s) \subseteq {e \in Episode : Parent[e] = s}
      BY <2>1, BelowTypes DEF TypeInv
    <3> QED BY <2>1, <3>1, Roots DEF Episodes
  <2> HIDE DEF n, p
  <2>3. n.step # "record"
    BY <1>4
  <2>4. n.seasons \subseteq Seasons(r)
    BY <1>1, <1>4 DEF About
  <2>5. n.episodes \subseteq Episodes(r)
    BY <1>1, <1>4, <2>2 DEF About
  <2>6. RootOf(n.item) = r
    BY <1>1, <1>4, <2>1 DEF About
  <2>7. At(n) = "episodes" => n.season \in Seasons(r)
    BY <1>4, <2>1 DEF At
  <2> QED BY <2>3, <2>4, <2>5, <2>6, <2>7 DEF About
<1>5. CASE \E s \in p.seasons :
             /\ n \in Process /\ n.seasons = p.seasons \ {s}
             /\ \/ n.step = "announce" /\ n.item = s /\ n.back = "seasons" /\ n.episodes = p.episodes
                \/ /\ n.step = "episodes" /\ n.season = s /\ n.episodes = Below(queue, s)
                   /\ n.item = p.item
  <2> HIDE DEF p
  <2> QED BY <1>4, <1>5
<1>6. \/ n = Idle
      \/ /\ n \in Process /\ p.seasons = {} /\ n.step = "clear" /\ n.seasons = p.seasons
         /\ n.episodes = p.episodes /\ n.item = p.item
      \/ \E s \in p.seasons :
             /\ n \in Process /\ n.seasons = p.seasons \ {s}
             /\ \/ n.step = "announce" /\ n.item = s /\ n.back = "seasons" /\ n.episodes = p.episodes
                \/ /\ n.step = "episodes" /\ n.season = s /\ n.episodes = Below(queue, s)
                   /\ n.item = p.item
  BY NextSeasonCases
<1> HIDE DEF n
<1>7. n = Idle \/ (n \in Process /\ About(r, n))
  BY <1>2, <1>3, <1>5, <1>6 DEF n
<1> QED BY <1>7 DEF n

LEMMA NextEpisodeAbout ==
  ASSUME TypeInv, NEW r \in Root, NextEpisode(r)
  PROVE  clearing'[r] = Idle \/ (clearing'[r] \in Process /\ About(r, clearing'[r]))
<1> DEFINE n == clearing'[r]
           p == clearing[r]
<1>1. About(r, p) /\ p.step = "episodes"
  BY NextEpisodeCases, BusyProcess
<1>2. \/ n = Idle
      \/ /\ n \in Process /\ n.seasons = p.seasons /\ n.season = p.season
         /\ \/ n.step = "seasons" /\ n.episodes = p.episodes /\ n.item = p.item
            \/ \E e \in p.episodes :
                 /\ n.step = "announce" /\ n.item = e
                 /\ n.back = "episodes" /\ n.episodes = p.episodes \ {e}
  BY NextEpisodeCases
<1>3. \A e \in p.episodes : RootOf(e) = r
  BY <1>1 DEF About, Episodes
<1> HIDE DEF n, p
<1>4. ASSUME n # Idle PROVE About(r, n)
  <2>1. n.seasons \subseteq Seasons(r) /\ n.season \in Seasons(r)
    BY <1>1, <1>2, <1>4 DEF About, At
  <2>2. n.episodes \subseteq Episodes(r) /\ RootOf(n.item) = r /\ n.step # "record"
    BY <1>1, <1>2, <1>3, <1>4 DEF About
  <2> QED BY <2>1, <2>2 DEF About
<1>5. n = Idle \/ (n \in Process /\ About(r, n))
  BY <1>2, <1>4
<1> QED BY <1>5 DEF n

LEMMA AnnounceAbout ==
  ASSUME TypeInv, NEW r \in Root, Announce(r)
  PROVE  clearing'[r] = Idle \/ (clearing'[r] \in Process /\ About(r, clearing'[r]))
<1> DEFINE n == clearing'[r]
           p == clearing[r]
<1>1. About(r, p) /\ p.step = "announce"
  BY AnnounceCases, BusyProcess
<1>2. \/ n = Idle
      \/ /\ n \in Process /\ n.step = "record" /\ n.item = p.item /\ n.group = p.group
         /\ n.back = p.back /\ n.seasons = p.seasons
         /\ n.season = p.season /\ n.episodes = p.episodes
         /\ ~n.group => n.keys = {p.item}
  BY AnnounceCases
<1> HIDE DEF n, p
<1>3. ASSUME n # Idle PROVE About(r, n)
  <2>1. At(n) = At(p)
    BY <1>1, <1>2, <1>3 DEF At
  <2> QED BY <1>1, <1>2, <1>3, <2>1 DEF About
<1>4. n = Idle \/ (n \in Process /\ About(r, n))
  BY <1>2, <1>3
<1> QED BY <1>4 DEF n

LEMMA RecordAbout ==
  ASSUME TypeInv, NEW r \in Root, Record(r)
  PROVE  clearing'[r] = Idle \/ (clearing'[r] \in Process /\ About(r, clearing'[r]))
<1> DEFINE n == clearing'[r]
           p == clearing[r]
<1>1. About(r, p) /\ p.step = "record" /\ p \in Process
  BY RecordCases, BusyProcess
<1>2. \/ n = Idle
      \/ /\ n \in Process /\ n.step = p.back /\ n.item = r
         /\ n.seasons = p.seasons /\ n.season = p.season /\ n.episodes = p.episodes
  BY RecordCases
<1>3. RootOf(r) = r
  BY Roots
<1> HIDE DEF n, p
<1>4. ASSUME n # Idle PROVE About(r, n)
  <2>1. p.back \in {"clear", "seasons", "episodes"}
    BY <1>1 DEF Process, Loops
  <2>2. At(n) = At(p) /\ n.step # "record"
    BY <1>1, <1>2, <1>4, <2>1 DEF At
  <2> QED BY <1>1, <1>2, <1>3, <1>4, <2>2 DEF About
<1>5. n = Idle \/ (n \in Process /\ About(r, n))
  BY <1>2, <1>4
<1> QED BY <1>5 DEF n

LEMMA TypeInit == Init => TypeInv
<1> SUFFICES ASSUME Init PROVE TypeInv
  OBVIOUS
<1>1. QueueOK
  BY DEF Init, QueueOK
<1>2. \A r \in Root : ~Busy(r)
  BY DEF Init, Busy, Idle
<1>3. clearing \in [Root -> Process \cup {Idle}] /\ listener \in Listener
  BY DEF Init, Listener
<1> QED BY <1>1, <1>2, <1>3 DEF Init, TypeInv

\* Steps that touch neither the queue nor a callback.
LEMMA TypeOfRest ==
  ASSUME TypeInv, UNCHANGED clearing
  PROVE  /\ clearing' \in [Root -> Process \cup {Idle}]
         /\ \A r \in Root : Busy(r)' => About(r, clearing'[r])
BY DEF TypeInv, Busy

LEMMA TypeVanish ==
  ASSUME TypeInv, NEW i \in Item, Vanish(i)
  PROVE  TypeInv'
<1>1. UNCHANGED <<queue, jobs, listener, clearing, recorded, told, alone, late, failures, restarts>>
  BY DEF Vanish, state, record, ghosts
<1>2. library' \subseteq Item /\ gone' \subseteq Item
  BY DEF Vanish, Tree, TypeInv
<1>3. QueueOK'
  BY <1>1 DEF QueueOK, TypeInv, Below, Seasons, RootOf
<1> QED BY <1>1, <1>2, <1>3, TypeOfRest DEF TypeInv, Listener

LEMMA TypeCreated ==
  ASSUME TypeInv, NEW i \in Item, Created(i)
  PROVE  TypeInv'
<1>1. UNCHANGED <<gone, jobs, clearing, recorded, told, alone, failures, restarts>>
  BY DEF Created, record
<1>2. library' \subseteq Item /\ late' \subseteq Item
  BY DEF Created, TypeInv
<1>3. QueueOK'
  BY EnqueuedShape DEF TypeInv, Created
<1>4. listener' \in Listener
  BY Roots DEF Created, Listener
<1> QED BY <1>1, <1>2, <1>3, <1>4, TypeOfRest DEF TypeInv

LEMMA TypeDeleted ==
  ASSUME TypeInv, NEW i \in Item, Deleted(i)
  PROVE  TypeInv'
<1>1. UNCHANGED <<library, gone, jobs, clearing, recorded, told, alone, late, failures, restarts>>
  BY DEF Deleted, server, record, ghosts, bounds
<1>2. i \in Root
  BY EmptyIsRoot DEF Deleted, TypeInv
<1>3. QueueOK'
  BY <1>2, ClearedShape DEF TypeInv, Deleted
<1>4. listener' \in Listener
  BY Roots DEF Deleted, Listener
<1> QED BY <1>1, <1>3, <1>4, TypeOfRest DEF TypeInv

LEMMA TypeListener ==
  ASSUME TypeInv, LookForJob \/ Schedule
  PROVE  TypeInv'
<1>1. UNCHANGED <<library, gone, queue, clearing, recorded, told, alone, late, failures, restarts>>
  BY DEF LookForJob, Schedule, server, record, ghosts, bounds
<1>2. listener.step # "free" => listener.root \in Root /\ listener.remove \in BOOLEAN
  BY DEF TypeInv, Listener, Free
<1>3. listener' \in Listener /\ jobs' \subseteq Root
  <2>1. CASE LookForJob
    <3>1. (listener.root \in jobs) \in BOOLEAN /\ listener.step # "free"
      BY <2>1 DEF LookForJob
    <3> QED BY <2>1, <3>1, <1>2 DEF LookForJob, TypeInv, Listener
  <2>2. CASE Schedule
    BY <2>2, <1>2 DEF Schedule, TypeInv, Listener, Scheduled
  <2> QED BY <2>1, <2>2
<1>4. QueueOK'
  BY <1>1 DEF QueueOK, TypeInv, Below, Seasons, RootOf
<1> QED BY <1>1, <1>3, <1>4, TypeOfRest DEF TypeInv

\* A callback's step touches its own process and, at the end, the queue.
LEMMA CallbackStep ==
  ASSUME TypeInv, NEW r \in Root, Fire(r) \/ Work(r)
  PROVE  /\ clearing' \in [Root -> Process \cup {Idle}]
         /\ \A o \in Root \ {r} : clearing'[o] = clearing[o]
         /\ clearing'[r] = Idle \/ (clearing'[r] \in Process /\ About(r, clearing'[r]))
         /\ queue' = queue \/ (Clear(r) /\ clearing'[r] = Idle /\ queue' = DelKeys(queue, r))
         /\ UNCHANGED <<library, gone, listener, late, restarts>>
         /\ jobs' = jobs \/ jobs' = jobs \ {r}
<1>1. /\ clearing' \in [Root -> Process \cup {Idle}]
      /\ \A o \in Root \ {r} : clearing'[o] = clearing[o]
      /\ clearing'[r] = Idle \/ (clearing'[r] \in Process /\ About(r, clearing'[r]))
  <2>1. CASE Fire(r)
    BY <2>1, FireCases, FireAbout
  <2>2. CASE NextSeason(r)
    BY <2>2, NextSeasonCases, NextSeasonAbout
  <2>3. CASE NextEpisode(r)
    BY <2>3, NextEpisodeCases, NextEpisodeAbout
  <2>4. CASE Announce(r)
    BY <2>4, AnnounceCases, AnnounceAbout
  <2>5. CASE Record(r)
    BY <2>5, RecordCases, RecordAbout
  <2>6. CASE Clear(r)
    BY <2>6, ClearCases
  <2> QED BY <2>1, <2>2, <2>3, <2>4, <2>5, <2>6 DEF Work
<1>2. queue' = queue \/ (Clear(r) /\ clearing'[r] = Idle /\ queue' = DelKeys(queue, r))
  <2>1. CASE Clear(r)
    BY <2>1, ClearCases
  <2>2. CASE ~Clear(r)
    BY <2>2 DEF Work, Fire, NextSeason, NextEpisode, Announce, Record
  <2> QED BY <2>1, <2>2
<1>3. UNCHANGED <<library, gone, listener, late, restarts>> /\ (jobs' = jobs \/ jobs' = jobs \ {r})
  BY DEF Work, Fire, NextSeason, NextEpisode, Announce, Record, Clear, server, ghosts, bounds
<1> QED BY <1>1, <1>2, <1>3

LEMMA TypeCallback ==
  ASSUME TypeInv, NEW r \in Root, Fire(r) \/ Work(r)
  PROVE  TypeInv'
<1>1. clearing' \in [Root -> Process \cup {Idle}]
  BY CallbackStep
<1>2. \A o \in Root : Busy(o)' => About(o, clearing'[o])
  BY CallbackStep, CallbackTypes
<1>3. QueueOK'
  <2>1. CASE Clear(r)
    BY <2>1, ClearedShape DEF Clear, TypeInv
  <2>2. CASE queue' = queue
    BY <2>2 DEF QueueOK, TypeInv, Below, Seasons, RootOf
  <2> QED BY <2>1, <2>2, CallbackStep
<1>4. UNCHANGED <<library, gone, listener, late, restarts>> /\ jobs' \subseteq jobs
  BY CallbackStep
<1>5. recorded' \subseteq Item
  <2>1. CASE Record(r)
    <3>1. \/ recorded' = recorded \cup clearing[r].keys
          \/ \E done \in SUBSET (clearing[r].keys \cap library) : recorded' = recorded \cup done
      BY <2>1, RecordCases
    <3>2. clearing[r].keys \subseteq Item
      BY <2>1, RecordCases
    <3> QED BY <3>1, <3>2 DEF TypeInv
  <2>2. CASE ~Record(r)
    BY <2>2 DEF Work, Fire, NextSeason, NextEpisode, Announce, Clear, record, TypeInv
  <2> QED BY <2>1, <2>2
<1>6. told' \subseteq Item /\ alone' \in [Item -> Nat] /\ failures' \in Nat
  <2>1. CASE Announce(r)
    <3> DEFINE p == clearing[r]
    <3>1. p.item \in Item
      BY <2>1, AnnounceCases
    <3>2. Named(queue, p) \subseteq Item
      <4>1. \A x \in Item : Below(queue, x) \subseteq Item
        BY BelowTypes DEF TypeInv
      <4> QED BY <3>1, <4>1 DEF Named
    <3>3. told' = told \/ told' = told \cup Named(queue, p)
      BY <2>1, AnnounceCases
    <3>4. alone' = alone \/ alone' = [alone EXCEPT ![p.item] = @ + 1]
      BY <2>1, AnnounceCases
    <3>5. failures' = failures \/ failures' = failures + 1
      BY <2>1, AnnounceCases
    <3> HIDE DEF p
    <3> QED BY <3>1, <3>2, <3>3, <3>4, <3>5 DEF TypeInv
  <2>2. CASE Record(r)
    <3>1. failures' = failures \/ failures' = failures + 1
      BY <2>2, RecordCases
    <3>2. UNCHANGED <<told, alone>>
      BY <2>2, RecordCases
    <3> QED BY <3>1, <3>2 DEF TypeInv
  <2>3. CASE ~Announce(r) /\ ~Record(r)
    BY <2>3 DEF Work, Fire, NextSeason, NextEpisode, Clear, record, bounds, TypeInv
  <2> QED BY <2>1, <2>2, <2>3
<1> QED BY <1>1, <1>2, <1>3, <1>4, <1>5, <1>6 DEF TypeInv, Listener

LEMMA TypeRestart ==
  ASSUME TypeInv, Restart
  PROVE  TypeInv'
<1>1. QueueOK'
  BY DEF Restart, QueueOK
<1>2. \A r \in Root : ~Busy(r)'
  BY DEF Restart, Busy, Idle
<1>3. clearing' \in [Root -> Process \cup {Idle}] /\ listener' \in Listener
  BY DEF Restart, Listener
<1> QED BY <1>1, <1>2, <1>3 DEF Restart, TypeInv, server, record

LEMMA TypeStep == TypeInv /\ [Next]_vars => TypeInv'
<1> SUFFICES ASSUME TypeInv, [Next]_vars PROVE TypeInv'
  OBVIOUS
<1>1. CASE \E i \in Item : Vanish(i) \/ Created(i) \/ Deleted(i)
  BY <1>1, TypeVanish, TypeCreated, TypeDeleted
<1>2. CASE LookForJob \/ Schedule
  BY <1>2, TypeListener
<1>3. CASE \E r \in Root : Fire(r) \/ Work(r)
  BY <1>3, TypeCallback
<1>4. CASE Restart
  BY <1>4, TypeRestart
<1>5. CASE UNCHANGED vars
  <2>1. UNCHANGED <<library, gone, queue, jobs, listener, clearing, recorded, told, alone, late,
                    failures, restarts>>
    BY <1>5 DEF vars, server, state, record, ghosts, bounds
  <2>2. QueueOK'
    BY <2>1 DEF QueueOK, TypeInv, Below, Seasons, RootOf
  <2> QED BY <2>1, <2>2, TypeOfRest DEF TypeInv, Listener
<1> QED BY <1>1, <1>2, <1>3, <1>4, <1>5 DEF Next

LEMMA TypeImplied == TypeInv => TypeOK
<1> SUFFICES ASSUME TypeInv PROVE TypeOK
  OBVIOUS
<1>1. \A r \in Root :
        clearing[r].step \in {"idle", "seasons", "episodes", "announce", "record", "clear"}
  BY DEF TypeInv, Process, Idle
<1>2. listener.step \in {"free", "look", "act"}
  BY DEF TypeInv, Listener, Free
<1> QED BY <1>1, <1>2 DEF TypeInv, QueueOK, TypeOK, Seasons

LEMMA TypeAlways == Spec => []TypeInv
BY TypeInit, TypeStep, PTL DEF Spec

\* Types, and the shape of RECENTLY_ADDED_QUEUE: an episode's key never stands alone,
\* and every season with episodes hangs below its root, whatever process(), the deletion
\* events and the callbacks' del_keys do between them.
THEOREM TypeCorrect == Spec => []TypeOK
BY TypeAlways, TypeImplied, PTL

-----------------------------------------------------------------------------
(***************************************************************************)
(* An item is announced on its own once.                                   *)
(***************************************************************************)
\* What the server deleted is gone with all below it.
GoneInv ==
  /\ library \cap gone = {}
  /\ \A i \in gone : Tree(i) \subseteq gone

\* Announced and not recorded yet.
Pending(i) ==
  \E r \in Root : /\ clearing[r].step = "record" /\ ~clearing[r].group /\ clearing[r].item = i

\* A record is of an item the server had.
RecordInv ==
  \A r \in Root : clearing[r].step = "record" => clearing[r].item \in library \cup gone

\* Each announcement of an item on its own was recorded, is about to be, or was paid for by
\* a fault; a record that can no longer be made is of an item that will not be announced.
OnceBound(i, faults) ==
  /\ alone[i] <= 1 + faults
  /\ i \notin recorded \cup gone /\ ~Pending(i) => alone[i] <= faults

OnceInv ==
  /\ TypeInv /\ GoneInv /\ RecordInv
  /\ \A i \in Item : OnceBound(i, failures + restarts)

LEMMA TreeClosed ==
  ASSUME NEW i \in Item, NEW j \in Tree(i)
  PROVE  Tree(j) \subseteq Tree(i) /\ Tree(i) \subseteq Item /\ i \in Tree(i)
<1>1. i \in Root => (j = i \/ RootOf(j) = i) /\ j \in Item
  BY Roots DEF Tree, Item
<1> QED BY <1>1, Roots DEF Tree, Item

LEMMA GoneStep ==
  ASSUME TypeInv, GoneInv, [Next]_vars
  PROVE  GoneInv' /\ library \cup gone \subseteq library' \cup gone' /\ gone \subseteq gone'
<1>1. ASSUME NEW i \in Item, Vanish(i)
      PROVE  GoneInv' /\ library \cup gone \subseteq library' \cup gone' /\ gone \subseteq gone'
  <2>1. library' = library \ Tree(i) /\ gone' = gone \cup Tree(i)
    BY <1>1 DEF Vanish
  <2>2. \A j \in Tree(i) : Tree(j) \subseteq Tree(i)
    BY TreeClosed
  <2> QED BY <2>1, <2>2 DEF GoneInv, Tree, RootOf, Item
<1>2. ASSUME NEW i \in Item, Created(i)
      PROVE  GoneInv' /\ library \cup gone \subseteq library' \cup gone' /\ gone \subseteq gone'
  <2>1. /\ i \notin gone /\ gone' = gone
        /\ library' = library \cup {j \in Item : i \in Tree(j)}
    BY <1>2 DEF Created
  <2>2. \A j \in gone : i \notin Tree(j)
    BY <2>1 DEF GoneInv
  <2> QED BY <2>1, <2>2 DEF GoneInv, Tree, RootOf, Item
<1>3. CASE UNCHANGED server
  BY <1>3 DEF server, GoneInv, Tree, RootOf, Item
<1>4. (\E i \in Item : Vanish(i) \/ Created(i)) \/ UNCHANGED server
  BY DEF Next, vars, Deleted, LookForJob, Schedule, Fire, Work, NextSeason, NextEpisode, Announce,
         Record, Clear, Restart
<1> QED BY <1>1, <1>2, <1>3, <1>4

\* Where nothing is announced, a fault more or a record more only helps.
LEMMA OnceKept ==
  ASSUME OnceInv, NEW i \in Item, alone' = alone, recorded \subseteq recorded', gone \subseteq gone',
         NEW before \in Nat, before = failures + restarts,
         NEW after \in Nat, after = failures' + restarts', after >= before,
         after >= before + 1 \/ (Pending(i) => Pending(i)' \/ i \in recorded' \cup gone')
  PROVE  OnceBound(i, failures + restarts)'
<1>1. alone[i] \in Nat
  BY DEF OnceInv, TypeInv
<1>2. alone[i] <= 1 + before /\ (i \notin recorded \cup gone /\ ~Pending(i) => alone[i] <= before)
  BY DEF OnceInv, OnceBound
<1>3. alone[i] <= 1 + after
  BY <1>1, <1>2
<1>4. ASSUME i \notin recorded' \cup gone', ~Pending(i)' PROVE alone[i] <= after
  <2>1. CASE after >= before + 1
    BY <1>1, <1>2, <2>1
  <2>2. CASE Pending(i) => Pending(i)' \/ i \in recorded' \cup gone'
    <3>1. i \notin recorded \cup gone /\ ~Pending(i)
      BY <1>4, <2>2
    <3> QED BY <1>1, <1>2, <3>1
  <2> QED BY <2>1, <2>2
<1> QED BY <1>3, <1>4 DEF OnceBound

\* A callback's step, apart from the announcement and the record.
LEMMA OnceOfLoops ==
  ASSUME OnceInv, NEW r \in Root, Fire(r) \/ NextSeason(r) \/ NextEpisode(r) \/ Clear(r)
  PROVE  RecordInv' /\ \A i \in Item : OnceBound(i, failures + restarts)'
<1>0. TypeInv /\ failures \in Nat /\ restarts \in Nat
  BY DEF OnceInv, TypeInv
<1>a. UNCHANGED <<server, record, failures, restarts>>
  BY DEF Fire, NextSeason, NextEpisode, Clear, bounds
<1>1. /\ clearing[r].step # "record" /\ clearing'[r].step # "record"
      /\ \A o \in Root \ {r} : clearing'[o] = clearing[o]
  <2>1. CASE Fire(r)
    <3>1. clearing[r] = Idle
      BY <1>0, <2>1, FireCases
    <3>2. \A o \in Root \ {r} : clearing'[o] = clearing[o]
      <4>1. CASE r \notin DOMAIN queue
        BY <2>1, <4>1 DEF Fire
      <4>2. CASE r \in DOMAIN queue
        BY <1>0, <2>1, <4>2, FireCases
      <4> QED BY <4>1, <4>2
    <3>3. clearing'[r].step # "record"
      <4>1. CASE r \notin DOMAIN queue
        BY <2>1, <3>1, <4>1 DEF Fire, Idle
      <4>2. CASE r \in DOMAIN queue
        BY <1>0, <2>1, <4>2, FireCases
      <4> QED BY <4>1, <4>2
    <3> QED BY <3>1, <3>2, <3>3 DEF Idle
  <2>2. CASE NextSeason(r)
    <3>1. /\ clearing[r].step # "record"
          /\ \A o \in Root \ {r} : clearing'[o] = clearing[o]
      BY <1>0, <2>2, NextSeasonCases
    <3>2. \/ clearing'[r] = Idle \/ clearing'[r].step = "clear"
          \/ \E s \in clearing[r].seasons : clearing'[r].step \in {"announce", "episodes"}
      BY <1>0, <2>2, NextSeasonCases
    <3> QED BY <3>1, <3>2 DEF Idle
  <2>3. CASE NextEpisode(r)
    <3>1. /\ clearing[r].step # "record"
          /\ \A o \in Root \ {r} : clearing'[o] = clearing[o]
      BY <1>0, <2>3, NextEpisodeCases
    <3>2. clearing'[r] = Idle \/ clearing'[r].step \in {"seasons", "announce"}
      BY <1>0, <2>3, NextEpisodeCases
    <3> QED BY <3>1, <3>2 DEF Idle
  <2>4. CASE Clear(r)
    BY <1>0, <2>4, ClearCases DEF Idle
  <2> QED BY <2>1, <2>2, <2>3, <2>4
<1>2. UNCHANGED <<library, gone, recorded, alone>>
  BY <1>a DEF server, record
<1>3. RecordInv'
  <2>1. \A o \in Root : clearing'[o].step = "record" => clearing'[o].item \in library \cup gone
    BY <1>1 DEF OnceInv, RecordInv
  <2> QED BY <1>2, <2>1 DEF RecordInv
<1>4. ASSUME NEW i \in Item PROVE Pending(i) => Pending(i)'
  BY <1>1 DEF Pending
<1>5. PICK f \in Nat : f = failures + restarts
  BY <1>0
<1>6. f = failures' + restarts' /\ f >= f
  BY <1>a, <1>5
<1>7. ASSUME NEW i \in Item PROVE OnceBound(i, failures + restarts)'
  BY <1>2, <1>4, <1>5, <1>6, OnceKept
<1> QED BY <1>3, <1>7

LEMMA OnceOfAnnounce ==
  ASSUME OnceInv, NEW r \in Root, Announce(r)
  PROVE  RecordInv' /\ \A i \in Item : OnceBound(i, failures + restarts)'
<1> DEFINE p == clearing[r]
           n == clearing'[r]
<1>0. TypeInv /\ failures \in Nat /\ restarts \in Nat
  BY DEF OnceInv, TypeInv
<1>1. /\ p.step = "announce" /\ p.item \in Item /\ About(r, p)
      /\ UNCHANGED <<library, gone, recorded, restarts>>
      /\ \A o \in Root \ {r} : clearing'[o] = clearing[o]
      /\ failures' = failures \/ failures' = failures + 1
  BY <1>0, AnnounceCases, BusyProcess DEF server
<1>2. n = Idle \/ (n.step = "record" /\ n.item = p.item /\ n.group = p.group /\ p.item \in library)
  BY <1>0, AnnounceCases
<1>3. RecordInv'
  <2>1. \A o \in Root : clearing'[o].step = "record" => clearing'[o].item \in library \cup gone
    BY <1>1, <1>2 DEF OnceInv, RecordInv, Idle
  <2> QED BY <1>1, <2>1 DEF RecordInv
<1>4. \A i \in Item : Pending(i) => Pending(i)'
  BY <1>1 DEF Pending
<1>5. CASE alone' = alone
  <2>1. PICK f \in Nat : f = failures + restarts
    BY <1>0
  <2>2. PICK g \in Nat : g = failures' + restarts' /\ g >= f
    BY <1>0, <1>1, <2>1
  <2>3. ASSUME NEW i \in Item PROVE OnceBound(i, failures + restarts)'
    BY <1>1, <1>4, <1>5, <2>1, <2>2, OnceKept
  <2> QED BY <1>3, <2>3
<1>6. CASE alone' # alone
  <2>1. /\ p.item \in library /\ p.item \notin recorded /\ ~p.group /\ failures' = failures
        /\ alone' = [alone EXCEPT ![p.item] = @ + 1] /\ n.step = "record"
    BY <1>0, <1>6, AnnounceCases
  <2>2. ~Pending(p.item)
    <3>1. ASSUME NEW o \in Root, clearing[o].step = "record", clearing[o].item = p.item
          PROVE  FALSE
      <4>1. About(o, clearing[o])
        BY <1>0, <3>1, BusyProcess DEF Busy
      <4>2. RootOf(p.item) = o /\ RootOf(p.item) = r
        BY <1>1, <3>1, <4>1 DEF About
      <4> QED BY <1>1, <3>1, <4>2
    <3> QED BY <3>1 DEF Pending
  <2>3. p.item \notin gone
    BY <2>1 DEF OnceInv, GoneInv
  <2>4. alone \in [Item -> Nat] /\ failures + restarts \in Nat
    BY <1>0 DEF TypeInv
  <2>5. alone[p.item] <= failures + restarts
    BY <1>1, <2>1, <2>2, <2>3 DEF OnceInv, OnceBound
  <2>6. ASSUME NEW i \in Item, i = p.item PROVE Pending(i)'
    BY <1>2, <2>1, <2>6 DEF Pending, Idle
  <2>7. ASSUME NEW i \in Item PROVE OnceBound(i, failures + restarts)'
    <3>1. CASE i = p.item
      <4>1. alone'[i] <= 1 + (failures' + restarts')
        BY <1>1, <2>1, <2>4, <2>5, <3>1
      <4>2. Pending(i)'
        BY <2>6, <3>1
      <4> QED BY <4>1, <4>2 DEF OnceBound
    <3>2. CASE i # p.item
      <4>1. alone'[i] = alone[i]
        BY <2>1, <2>4, <3>2
      <4>2. /\ alone[i] <= 1 + (failures + restarts)
            /\ i \notin recorded \cup gone /\ ~Pending(i) => alone[i] <= failures + restarts
        BY DEF OnceInv, OnceBound
      <4>3. Pending(i) => Pending(i)'
        BY <1>4
      <4> QED BY <1>1, <2>1, <4>1, <4>2, <4>3 DEF OnceBound
    <3> QED BY <3>1, <3>2
  <2> QED BY <1>3, <2>7
<1> QED BY <1>5, <1>6

LEMMA OnceOfRecord ==
  ASSUME OnceInv, NEW r \in Root, Record(r)
  PROVE  RecordInv' /\ \A i \in Item : OnceBound(i, failures + restarts)'
<1> DEFINE p == clearing[r]
           n == clearing'[r]
<1>0. TypeInv /\ failures \in Nat /\ restarts \in Nat
  BY DEF OnceInv, TypeInv
<1>1. /\ p.step = "record" /\ p \in Process /\ About(r, p)
      /\ UNCHANGED <<library, gone, alone, restarts>>
      /\ \A o \in Root \ {r} : clearing'[o] = clearing[o]
  BY <1>0, RecordCases, BusyProcess DEF server
<1>2. /\ failures' = failures \/ failures' = failures + 1
      /\ recorded \subseteq recorded'
      /\ n = Idle \/ n.step = p.back
      /\ \/ p.keys \subseteq recorded' \/ failures' = failures + 1 \/ ~(p.keys \subseteq library)
  BY <1>0, RecordCases
<1>3. n.step # "record"
  BY <1>1, <1>2 DEF Idle, Process, Loops
<1>4. RecordInv'
  <2>1. \A o \in Root : clearing'[o].step = "record" => clearing'[o].item \in library \cup gone
    BY <1>1, <1>3 DEF OnceInv, RecordInv
  <2> QED BY <1>1, <2>1 DEF RecordInv
<1>5. PICK f \in Nat : f = failures + restarts
  BY <1>0
<1>6. PICK g \in Nat : /\ g = failures' + restarts' /\ g >= f
                       /\ failures' = failures \/ g >= f + 1
  BY <1>0, <1>1, <1>2, <1>5
<1>7. ASSUME NEW i \in Item, failures' = failures
      PROVE  Pending(i) => Pending(i)' \/ i \in recorded' \cup gone'
  <2>1. CASE ~p.group /\ p.item = i
    <3>1. p.keys = {i} /\ i \in library \cup gone
      BY <1>1, <2>1 DEF About, OnceInv, RecordInv
    <3> QED BY <1>0, <1>1, <1>2, <1>7, <3>1
  <2>2. CASE ~(~p.group /\ p.item = i)
    BY <1>1, <2>2 DEF Pending
  <2> QED BY <2>1, <2>2
<1>8. ASSUME NEW i \in Item PROVE OnceBound(i, failures + restarts)'
  <2>1. g >= f + 1 \/ (Pending(i) => Pending(i)' \/ i \in recorded' \cup gone')
    BY <1>6, <1>7
  <2> QED BY <1>1, <1>2, <1>5, <1>6, <2>1, OnceKept
<1> QED BY <1>4, <1>8

LEMMA OnceStep == OnceInv /\ [Next]_vars => OnceInv'
<1> SUFFICES ASSUME OnceInv, [Next]_vars PROVE OnceInv'
  OBVIOUS
<1>0. TypeInv /\ GoneInv /\ failures \in Nat /\ restarts \in Nat
  BY DEF OnceInv, TypeInv
<1>1. TypeInv' /\ GoneInv' /\ library \cup gone \subseteq library' \cup gone' /\ gone \subseteq gone'
  BY <1>0, TypeStep, GoneStep
<1>2. CASE \E r \in Root : Fire(r) \/ Work(r)
  <2>1. PICK r \in Root : Fire(r) \/ Work(r)
    BY <1>2
  <2>2. RecordInv' /\ \A i \in Item : OnceBound(i, failures + restarts)'
    BY <2>1, OnceOfLoops, OnceOfAnnounce, OnceOfRecord DEF Work
  <2> QED BY <1>1, <2>2 DEF OnceInv
<1>3. CASE Restart
  <2>1. /\ alone' = alone /\ recorded' = recorded /\ failures' = failures
        /\ restarts' = restarts + 1 /\ \A r \in Root : clearing'[r].step # "record"
    BY <1>3 DEF Restart, record, Idle
  <2>2. RecordInv'
    BY <2>1 DEF RecordInv
  <2>3. PICK f \in Nat : f = failures + restarts
    BY <1>0
  <2>4. f + 1 = failures' + restarts' /\ f + 1 \in Nat /\ f + 1 >= f
    BY <1>0, <2>1, <2>3
  <2>5. ASSUME NEW i \in Item PROVE OnceBound(i, failures + restarts)'
    BY <1>1, <2>1, <2>3, <2>4, OnceKept
  <2> QED BY <1>1, <2>2, <2>5 DEF OnceInv
<1>4. CASE UNCHANGED <<clearing, recorded, alone, failures, restarts>>
  <2>1. RecordInv'
    BY <1>1, <1>4 DEF OnceInv, RecordInv
  <2>2. ASSUME NEW i \in Item PROVE Pending(i) => Pending(i)'
    BY <1>4 DEF Pending
  <2>3. PICK f \in Nat : f = failures + restarts
    BY <1>0
  <2>4. f = failures' + restarts' /\ f >= f
    BY <1>4, <2>3
  <2>5. ASSUME NEW i \in Item PROVE OnceBound(i, failures + restarts)'
    BY <1>1, <1>4, <2>2, <2>3, <2>4, OnceKept
  <2> QED BY <1>1, <2>1, <2>5 DEF OnceInv
<1>5. \/ \E r \in Root : Fire(r) \/ Work(r)
      \/ Restart
      \/ UNCHANGED <<clearing, recorded, alone, failures, restarts>>
  BY DEF Next, vars, state, record, bounds, ghosts, Vanish, Created, Deleted, LookForJob, Schedule
<1> QED BY <1>2, <1>3, <1>4, <1>5

LEMMA OnceInit == Init => OnceInv
<1> SUFFICES ASSUME Init PROVE OnceInv
  OBVIOUS
<1>1. TypeInv
  BY TypeInit
<1>2. GoneInv /\ RecordInv
  BY DEF Init, GoneInv, RecordInv, Idle
<1>3. \A i \in Item : OnceBound(i, failures + restarts)
  BY DEF Init, OnceBound
<1> QED BY <1>1, <1>2, <1>3 DEF OnceInv

LEMMA OnceAlways == Spec => []OnceInv
BY OnceInit, OnceStep, PTL DEF Spec

\* on_created and set_recently_added_item: an item is announced on its own once, however
\* often the server reports it and whichever callbacks come to it, but for one more time per
\* failed request or death between the notification and its record.
THEOREM OnceCorrect == Spec => []TwiceNeedsFailure
<1>1. OnceInv => TwiceNeedsFailure
  <2> SUFFICES ASSUME OnceInv, NEW i \in Item PROVE alone[i] <= 1 + failures + restarts
    BY DEF TwiceNeedsFailure
  <2>1. alone[i] \in Nat /\ failures \in Nat /\ restarts \in Nat
    BY DEF OnceInv, TypeInv
  <2>2. alone[i] <= 1 + (failures + restarts)
    BY DEF OnceInv, OnceBound
  <2> QED BY <2>1, <2>2
<1> QED BY <1>1, OnceAlways, PTL

-----------------------------------------------------------------------------
(***************************************************************************)
(* What is queued has somebody to announce it.                             *)
(***************************************************************************)
\* Nothing came for the root while it was being cleared.
Alone(r) == \A i \in late : RootOf(i) # r

\* The sizes a callback's loops compare are those of the live sets, unless an item came.
SizeOK(r, q, process) ==
  /\ At(process) \in {"seasons", "episodes"} => process.size = Cardinality(Below(q, r))
  /\ At(process) = "episodes" => process.count = Cardinality(Below(q, process.season))

SizeInv == \A r \in Root : Busy(r) /\ Alone(r) => SizeOK(r, queue, clearing[r])

\* A deletion leaves what is below the keys as it is: nothing is below them.
LEMMA DeletedBelow ==
  ASSUME TypeInv, NEW i \in Item, Deleted(i)
  PROVE  /\ i \in Root /\ DOMAIN queue' = {x \in DOMAIN queue : RootOf(x) # i}
         /\ \A x \in Item : Below(queue', x) = Below(queue, x)
<1>1. i \in Root /\ QueueOK /\ queue' = DelKeys(queue, i) /\ Below(queue, i) = {}
  BY EmptyIsRoot DEF Deleted, TypeInv, Below
<1>2. /\ DOMAIN queue' = {x \in DOMAIN queue : RootOf(x) # i}
      /\ \A x \in Item : RootOf(x) # i => Below(queue', x) = Below(queue, x)
      /\ \A x \in Item : RootOf(x) = i => Below(queue', x) = {}
  BY <1>1, DelRoot
<1>3. ASSUME NEW x \in Item, RootOf(x) = i, x # i PROVE Below(queue, x) = {}
  <2>1. CASE x \in DOMAIN queue
    <3>1. CASE x \in Season
      BY <1>1, <1>3, <2>1, <3>1, Roots DEF QueueOK
    <3>2. CASE x \in Episode
      <4>1. x \in Below(queue, Parent[x]) /\ Parent[x] \in Season /\ Parent[Parent[x]] = i
        BY <1>1, <1>3, <2>1, <3>2, Roots DEF QueueOK
      <4>2. Parent[x] \in DOMAIN queue
        BY <4>1 DEF Below
      <4>3. Parent[x] \in Below(queue, i)
        BY <1>1, <4>1, <4>2 DEF QueueOK
      <4> QED BY <1>1, <4>3
    <3> QED BY <1>3, <3>1, <3>2, Roots DEF Item
  <2>2. CASE x \notin DOMAIN queue
    BY <2>2 DEF Below
  <2> QED BY <2>1, <2>2
<1>4. \A x \in Item : RootOf(x) = i => Below(queue', x) = Below(queue, x)
  BY <1>1, <1>2, <1>3
<1> QED BY <1>1, <1>2, <1>4

\* The size of a live set is read where nothing of the root changed.
LEMMA SizeElsewhere ==
  ASSUME TypeInv, NEW r \in Root, Busy(r), SizeOK(r, queue, clearing[r]),
         \A x \in Item : RootOf(x) = r => Below(queue', x) = Below(queue, x)
  PROVE  SizeOK(r, queue', clearing[r])
<1> DEFINE p == clearing[r]
<1>1. About(r, p)
  BY BusyProcess
<1>2. Below(queue', r) = Below(queue, r)
  BY Roots DEF Item
<1>3. At(p) = "episodes" => Below(queue', p.season) = Below(queue, p.season)
  BY <1>1, Roots DEF About, Seasons, Item
<1> HIDE DEF p
<1>4. SizeOK(r, queue, p)
  BY DEF p
<1>5. SizeOK(r, queue', p)
  BY <1>2, <1>3, <1>4 DEF SizeOK
<1> QED BY <1>5 DEF p

\* Each step of a callback keeps its sizes right, and it raises only where they are not.
LEMMA SizeOfCallback ==
  ASSUME TypeInv, SizeInv, NEW r \in Root, Fire(r) \/ Work(r)
  PROVE  /\ clearing'[r] # Idle /\ Alone(r) => SizeOK(r, queue, clearing'[r])
         /\ clearing'[r] # Idle => queue' = queue
         /\ Busy(r) /\ clearing'[r] = Idle =>
              r \in failed' \/ ~Alone(r) \/ (Clear(r) /\ queue' = DelKeys(queue, r))
         /\ ~Busy(r) => r \notin DOMAIN queue \/ clearing'[r] # Idle
<1> DEFINE p == clearing[r]
           n == clearing'[r]
<1>0. Busy(r) /\ Alone(r) => SizeOK(r, queue, p)
  BY DEF SizeInv
<1>1. CASE Fire(r)
  <2>1. ~Busy(r) /\ queue' = queue
    BY <1>1, FireCases
  <2>2. CASE r \in DOMAIN queue
    <3>1. n \in Process
      BY <1>1, <2>2, FireCases
    <3>2. n.size = Cardinality(Below(queue, r))
      BY <1>1, <2>2, FireCases
    <3>3. n.step = "seasons" \/ (n.step = "announce" /\ n.back = "clear")
      BY <1>1, <2>2, FireCases
    <3>4. n # Idle
      BY <3>3 DEF Idle
    <3> HIDE DEF n
    <3>5. At(n) # "episodes"
      BY <3>3 DEF At
    <3>6. SizeOK(r, queue, n)
      BY <3>2, <3>5 DEF SizeOK
    <3> QED BY <2>1, <3>4, <3>6 DEF n
  <2>3. CASE r \notin DOMAIN queue
    <3>1. n = Idle
      BY <1>1, <2>3, FireCases
    <3> QED BY <2>1, <2>3, <3>1
  <2> QED BY <2>2, <2>3
<1>2. CASE NextSeason(r)
  <2>1. Busy(r) /\ p.step = "seasons"
    BY <1>2, NextSeasonCases
  <2>2. queue' = queue
    BY <1>2 DEF NextSeason
  <2>3. \/ n = Idle /\ Cardinality(Below(queue, r)) # p.size
        \/ n.step = "clear"
        \/ n.size = p.size /\ n.step = "announce" /\ n.back = "seasons"
        \/ /\ n.size = p.size /\ n.step = "episodes"
           /\ n.count = Cardinality(Below(queue, n.season))
    BY <1>2, NextSeasonCases
  <2> HIDE DEF n, p
  <2>4. Alone(r) => p.size = Cardinality(Below(queue, r))
    BY <1>0, <2>1 DEF SizeOK, At
  <2>5. Alone(r) /\ n # Idle => SizeOK(r, queue, n)
    BY <2>3, <2>4 DEF SizeOK, At
  <2>6. n = Idle => ~Alone(r)
    BY <2>3, <2>4 DEF Idle
  <2> QED BY <2>1, <2>2, <2>5, <2>6 DEF n
<1>3. CASE NextEpisode(r)
  <2>1. Busy(r) /\ p.step = "episodes"
    BY <1>3, NextEpisodeCases
  <2>2. queue' = queue
    BY <1>3 DEF NextEpisode
  <2>3. \/ n = Idle /\ Cardinality(Below(queue, p.season)) # p.count
        \/ /\ n.size = p.size /\ n.season = p.season /\ n.count = p.count
           /\ n.step = "seasons" \/ (n.step = "announce" /\ n.back = "episodes")
    BY <1>3, NextEpisodeCases
  <2> HIDE DEF n, p
  <2>4. Alone(r) => /\ p.size = Cardinality(Below(queue, r))
                    /\ p.count = Cardinality(Below(queue, p.season))
    BY <1>0, <2>1 DEF SizeOK, At
  <2>5. Alone(r) /\ n # Idle => SizeOK(r, queue, n)
    BY <2>3, <2>4 DEF SizeOK, At
  <2>6. n = Idle => ~Alone(r)
    BY <2>3, <2>4 DEF Idle
  <2> QED BY <2>1, <2>2, <2>5, <2>6 DEF n
<1>4. CASE Announce(r) \/ Record(r)
  <2>1. Busy(r) /\ queue' = queue
    BY <1>4, AnnounceCases, RecordCases
  <2>2. \/ n = Idle /\ r \in failed'
        \/ /\ n # Idle /\ At(n) = At(p) /\ n.size = p.size /\ n.season = p.season /\ n.count = p.count
    <3>1. CASE Announce(r)
      <4>1. \/ n = Idle /\ r \in failed'
            \/ /\ n.step = "record" /\ n.back = p.back /\ n.size = p.size
               /\ n.season = p.season /\ n.count = p.count
        BY <3>1, AnnounceCases
      <4>2. p.step = "announce"
        BY <3>1, AnnounceCases
      <4> HIDE DEF n, p
      <4> QED BY <4>1, <4>2 DEF At, Idle
    <3>2. CASE Record(r)
      <4>1. \/ n = Idle /\ r \in failed'
            \/ /\ n.step = p.back /\ n.size = p.size
               /\ n.season = p.season /\ n.count = p.count
        BY <3>2, RecordCases
      <4>2. p.step = "record" /\ p.back \in {"clear", "seasons", "episodes"}
        BY <3>2, RecordCases DEF Process, Loops
      <4> HIDE DEF n, p
      <4> QED BY <4>1, <4>2 DEF At, Idle
    <3> QED BY <1>4, <3>1, <3>2
  <2> HIDE DEF n, p
  <2>3. ASSUME n # Idle, Alone(r) PROVE SizeOK(r, queue, n)
    <3>1. At(n) = At(p) /\ n.size = p.size /\ n.season = p.season /\ n.count = p.count
      BY <2>2, <2>3
    <3>2. SizeOK(r, queue, p)
      BY <1>0, <2>1, <2>3
    <3> QED BY <3>1, <3>2 DEF SizeOK
  <2> QED BY <2>1, <2>2, <2>3 DEF n
<1>5. CASE Clear(r)
  <2>1. Busy(r) /\ n = Idle /\ queue' = DelKeys(queue, r)
    BY <1>5, ClearCases
  <2> QED BY <1>5, <2>1
<1> QED BY <1>1, <1>2, <1>3, <1>4, <1>5 DEF Work

LEMMA SizeStep ==
  ASSUME TypeInv, SizeInv, [Next]_vars
  PROVE  SizeInv'
<1>1. ASSUME NEW r \in Root, Fire(r) \/ Work(r) PROVE SizeInv'
  <2>1. /\ \A o \in Root \ {r} : clearing'[o] = clearing[o]
        /\ late' = late
    BY <1>1, CallbackStep
  <2>2. queue' = queue \/ queue' = DelKeys(queue, r)
    BY <1>1, CallbackStep
  <2>3. \A x \in Item : RootOf(x) # r => Below(queue', x) = Below(queue, x)
    <3>1. QueueOK
      BY DEF TypeInv
    <3>2. \A x \in Item : RootOf(x) # r => Below(DelKeys(queue, r), x) = Below(queue, x)
      BY <3>1, DelRoot
    <3>3. CASE queue' = queue
      BY <3>3
    <3>4. CASE queue' = DelKeys(queue, r)
      BY <3>2, <3>4
    <3> QED BY <2>2, <3>3, <3>4
  <2>4. ASSUME NEW o \in Root, clearing'[o].step # "idle", Alone(o)
        PROVE  SizeOK(o, queue', clearing'[o])
    <3>1. CASE o = r
      <4>1. clearing'[r] # Idle
        BY <2>4, <3>1 DEF Idle
      <4>2. queue' = queue /\ SizeOK(r, queue, clearing'[r])
        BY <1>1, <2>4, <3>1, <4>1, SizeOfCallback
      <4> QED BY <3>1, <4>2
    <3>2. CASE o # r
      <4>1. clearing'[o] = clearing[o] /\ Busy(o)
        BY <2>1, <2>4, <3>2 DEF Busy
      <4>2. SizeOK(o, queue, clearing[o])
        BY <2>4, <4>1 DEF SizeInv
      <4>3. \A x \in Item : RootOf(x) = o => Below(queue', x) = Below(queue, x)
        BY <2>3, <3>2
      <4>4. SizeOK(o, queue', clearing[o])
        BY <4>1, <4>2, <4>3, SizeElsewhere
      <4> QED BY <4>1, <4>4
    <3> QED BY <3>1, <3>2
  <2> QED BY <2>1, <2>4 DEF SizeInv, Busy, Alone, SizeOK, Below, RootOf, At
<1>2. ASSUME UNCHANGED clearing,
             \A r \in Root : \/ \A x \in Item : RootOf(x) = r => Below(queue', x) = Below(queue, x)
                             \/ Busy(r) => \E i \in late' : RootOf(i) = r,
             late \subseteq late'
      PROVE  SizeInv'
  <2>1. ASSUME NEW r \in Root, Busy(r), \A i \in late' : RootOf(i) # r
        PROVE  SizeOK(r, queue', clearing[r])
    <3>1. \A x \in Item : RootOf(x) = r => Below(queue', x) = Below(queue, x)
      BY <1>2, <2>1
    <3>2. SizeOK(r, queue, clearing[r])
      BY <1>2, <2>1 DEF SizeInv, Alone
    <3> QED BY <2>1, <3>1, <3>2, SizeElsewhere
  <2> QED BY <1>2, <2>1 DEF SizeInv, Busy, Alone, SizeOK, Below, RootOf, At
<1>3. ASSUME NEW i \in Item, Created(i) PROVE SizeInv'
  <2>1. /\ UNCHANGED clearing /\ queue' = Enqueued(i)
        /\ late' = IF Busy(RootOf(i)) THEN late \cup {i} ELSE late
    BY <1>3 DEF Created
  <2>2. \A x \in Item : RootOf(x) # RootOf(i) => Below(queue', x) = Below(queue, x)
    BY <2>1, EnqueuedFacts DEF TypeInv
  <2>3. ASSUME NEW r \in Root
        PROVE  \/ \A x \in Item : RootOf(x) = r => Below(queue', x) = Below(queue, x)
               \/ Busy(r) => \E j \in late' : RootOf(j) = r
    BY <2>1, <2>2
  <2> QED BY <1>2, <2>1, <2>3
<1>4. ASSUME NEW i \in Item, Deleted(i) PROVE SizeInv'
  <2>1. UNCHANGED <<clearing, late>>
    BY <1>4 DEF Deleted, ghosts
  <2>2. \A x \in Item : Below(queue', x) = Below(queue, x)
    BY <1>4, DeletedBelow
  <2> QED BY <1>2, <2>1, <2>2
<1>5. CASE Restart
  BY <1>5 DEF Restart, SizeInv, Busy, Idle
<1>6. CASE UNCHANGED <<queue, clearing, late>>
  BY <1>2, <1>6
<1>7. \/ \E r \in Root : Fire(r) \/ Work(r)
      \/ \E i \in Item : Created(i) \/ Deleted(i)
      \/ Restart
      \/ UNCHANGED <<queue, clearing, late>>
  BY DEF Next, vars, state, ghosts, Vanish, LookForJob, Schedule
<1> QED BY <1>1, <1>3, <1>4, <1>5, <1>6, <1>7

\* A root whose clearing did not, or will not, go by the queue as it is now.
Missed(r) == Busy(r) \/ r \in failed \/ ~Alone(r)

\* The listener that removes the job has taken the root out of the queue; the one that found
\* the job, which fired since, leaves the root to the callback.
ListenerInv ==
  listener.step # "free" /\ listener.root \in DOMAIN queue =>
    /\ ~listener.remove
    /\ listener.step = "act" /\ listener.found => listener.root \in jobs \/ Missed(listener.root)

\* Somebody will come for the root.
Awaited(r) ==
  \/ r \in jobs
  \/ listener.step # "free" /\ listener.root = r
  \/ Missed(r)

ScheduleInv ==
  /\ TypeInv /\ SizeInv /\ ListenerInv
  /\ \A r \in Root : r \in DOMAIN queue => Awaited(r)

\* A root is not forgotten by a step of a callback.
LEMMA MissedKept ==
  ASSUME TypeInv, SizeInv, NEW r \in Root, Fire(r) \/ Work(r),
         NEW o \in Root, o \in DOMAIN queue', o \in jobs \/ Missed(o)
  PROVE  o \in DOMAIN queue /\ (o \in jobs' \/ Missed(o)')
<1>0. QueueOK
  BY DEF TypeInv
<1>1. \/ queue' = queue
      \/ DOMAIN queue' = {i \in DOMAIN queue : RootOf(i) # r}
  BY <1>0, CallbackStep, DelRoot
<1>2. o \in DOMAIN queue
  BY <1>1
<1>3. failed \subseteq failed' /\ late' = late
  <2>1. CASE Announce(r)
    BY <2>1, AnnounceCases
  <2>2. CASE Record(r)
    BY <2>2, RecordCases
  <2>3. CASE ~Announce(r) /\ ~Record(r)
    BY <2>3 DEF Fire, Work, NextSeason, NextEpisode, Clear, ghosts
  <2> QED BY <2>1, <2>2, <2>3, CallbackStep
<1>4. o \in failed \/ ~Alone(o) => Missed(o)'
  BY <1>3 DEF Missed, Alone, RootOf
<1>5. CASE o # r
  BY <1>2, <1>4, <1>5, CallbackStep DEF Missed, Busy
<1>6. CASE o = r
  <2>1. CASE clearing'[r].step # "idle"
    BY <1>2, <1>6, <2>1 DEF Missed, Busy
  <2>2. CASE clearing'[r].step = "idle"
    <3>1. clearing'[r] = Idle
      <4>1. \A p \in Process : p.step # "idle"
        BY DEF Process
      <4> QED BY <2>2, <4>1, CallbackStep
    <3>2. CASE ~Busy(r)
      BY <1>2, <1>6, <3>1, <3>2, SizeOfCallback
    <3>3. CASE Busy(r)
      <4>1. r \in failed' \/ ~Alone(r) \/ queue' = DelKeys(queue, r)
        BY <3>1, <3>3, SizeOfCallback
      <4>2. queue' # DelKeys(queue, r)
        <5>1. r \notin DOMAIN DelKeys(queue, r)
          <6>1. DOMAIN DelKeys(queue, r) = {i \in DOMAIN queue : RootOf(i) # r}
            BY <1>0, DelRoot
          <6>2. RootOf(r) = r
            BY Roots
          <6> QED BY <6>1, <6>2
        <5> QED BY <1>6, <5>1
      <4> QED BY <1>2, <1>4, <1>6, <4>1, <4>2 DEF Missed
    <3> QED BY <3>2, <3>3
  <2> QED BY <2>1, <2>2
<1> QED BY <1>5, <1>6

LEMMA ScheduleOfCallback ==
  ASSUME ScheduleInv, NEW r \in Root, Fire(r) \/ Work(r)
  PROVE  ListenerInv' /\ \A o \in Root : o \in DOMAIN queue' => Awaited(o)'
<1>1. TypeInv /\ SizeInv
  BY DEF ScheduleInv
<1>2. listener' = listener
  BY <1>1, CallbackStep
<1>3. \A o \in Root : o \in DOMAIN queue' => o \in DOMAIN queue
  <2>1. QueueOK
    BY <1>1 DEF TypeInv
  <2> QED BY <1>1, <2>1, CallbackStep, DelRoot
<1>4. \A o \in Root : o \in DOMAIN queue' /\ (o \in jobs \/ Missed(o)) => o \in jobs' \/ Missed(o)'
  BY <1>1, MissedKept
<1>5. ASSUME NEW o \in Root, o \in DOMAIN queue' PROVE Awaited(o)'
  <2>1. Awaited(o)
    BY <1>3, <1>5 DEF ScheduleInv
  <2> QED BY <1>2, <1>4, <1>5, <2>1 DEF Awaited
<1>6. ListenerInv'
  <2>1. ASSUME NEW o \in Root, listener.step # "free", o = listener.root, o \in DOMAIN queue'
        PROVE  /\ ~listener.remove
               /\ listener.step = "act" /\ listener.found => o \in jobs' \/ Missed(o)'
    <3>1. o \in DOMAIN queue
      BY <1>3, <2>1
    <3>2. /\ ~listener.remove
          /\ listener.step = "act" /\ listener.found => o \in jobs \/ Missed(o)
      BY <2>1, <3>1 DEF ScheduleInv, ListenerInv
    <3> QED BY <1>4, <2>1, <3>2
  <2>2. listener.step # "free" => listener.root \in Root
    BY <1>1 DEF TypeInv, Listener, Free
  <2> QED BY <1>2, <2>1, <2>2 DEF ListenerInv
<1> QED BY <1>5, <1>6

LEMMA ScheduleOfCreated ==
  ASSUME ScheduleInv, NEW i \in Item, Created(i)
  PROVE  ListenerInv' /\ \A o \in Root : o \in DOMAIN queue' => Awaited(o)'
<1>1. /\ listener = Free /\ queue' = Enqueued(i) /\ UNCHANGED <<jobs, clearing, failed>>
      /\ listener' = [step |-> "look", root |-> RootOf(i), remove |-> FALSE]
      /\ late \subseteq late'
  BY DEF Created
<1>2. \A x \in DOMAIN queue' : x \in DOMAIN queue \/ (x \in Item /\ RootOf(x) = RootOf(i))
  BY <1>1, EnqueuedFacts DEF ScheduleInv, TypeInv
<1>3. ListenerInv'
  BY <1>1 DEF ListenerInv
<1>4. ASSUME NEW o \in Root, o \in DOMAIN queue' PROVE Awaited(o)'
  <2>1. CASE o = RootOf(i)
    BY <1>1, <2>1 DEF Awaited
  <2>2. CASE o # RootOf(i)
    <3>1. o \in DOMAIN queue
      BY <1>2, <1>4, <2>2, Roots
    <3>2. o \in jobs \/ Missed(o)
      BY <1>1, <3>1 DEF ScheduleInv, Awaited, Free
    <3>3. Missed(o) => Missed(o)'
      BY <1>1 DEF Missed, Busy, Alone, RootOf
    <3> QED BY <1>1, <3>2, <3>3 DEF Awaited
  <2> QED BY <2>1, <2>2
<1> QED BY <1>3, <1>4

LEMMA ScheduleOfDeleted ==
  ASSUME ScheduleInv, NEW i \in Item, Deleted(i)
  PROVE  ListenerInv' /\ \A o \in Root : o \in DOMAIN queue' => Awaited(o)'
<1>1. /\ listener = Free /\ UNCHANGED <<jobs, clearing, failed, late>>
      /\ listener' = [step |-> "look", root |-> RootOf(i), remove |-> TRUE]
  BY DEF Deleted, ghosts
<1>2. RootOf(i) = i /\ DOMAIN queue' = {x \in DOMAIN queue : RootOf(x) # i}
  BY DeletedBelow, Roots DEF ScheduleInv
<1>3. ListenerInv'
  BY <1>1, <1>2 DEF ListenerInv
<1>4. ASSUME NEW o \in Root, o \in DOMAIN queue' PROVE Awaited(o)'
  <2>1. o \in jobs \/ Missed(o)
    BY <1>1, <1>2, <1>4 DEF ScheduleInv, Awaited, Free
  <2>2. Missed(o) => Missed(o)'
    BY <1>1 DEF Missed, Busy, Alone, RootOf
  <2> QED BY <1>1, <2>1, <2>2 DEF Awaited
<1> QED BY <1>3, <1>4

LEMMA ScheduleOfListener ==
  ASSUME ScheduleInv, LookForJob \/ Schedule
  PROVE  ListenerInv' /\ \A o \in Root : o \in DOMAIN queue' => Awaited(o)'
<1>1. UNCHANGED <<queue, clearing, failed, late>>
  BY DEF LookForJob, Schedule, ghosts
<1>2. \A o \in Root : Missed(o) => Missed(o)'
  BY <1>1 DEF Missed, Busy, Alone, RootOf
<1>3. CASE LookForJob
  <2>1. /\ listener.step = "look" /\ jobs' = jobs
        /\ listener' = [step |-> "act", root |-> listener.root, remove |-> listener.remove,
                        found |-> listener.root \in jobs]
    BY <1>3 DEF LookForJob
  <2>2. ListenerInv'
    BY <1>1, <2>1 DEF ScheduleInv, ListenerInv
  <2>3. ASSUME NEW o \in Root, o \in DOMAIN queue' PROVE Awaited(o)'
    BY <1>1, <1>2, <2>1, <2>3 DEF ScheduleInv, Awaited
  <2> QED BY <2>2, <2>3
<1>4. CASE Schedule
  <2>1. /\ listener.step = "act" /\ listener' = Free /\ listener.root \in Root
        /\ jobs' = Scheduled(listener.root, listener.remove, listener.found)
    BY <1>4 DEF Schedule, ScheduleInv, TypeInv, Listener, Free
  <2>2. ListenerInv'
    BY <2>1 DEF ListenerInv, Free
  <2>3. ASSUME NEW o \in Root, o \in DOMAIN queue PROVE Awaited(o)'
    <3>1. o \in jobs \/ listener.root = o \/ Missed(o)
      BY <2>3 DEF ScheduleInv, Awaited
    <3>2. CASE listener.root = o
      <4>1. /\ ~listener.remove
            /\ listener.found => o \in jobs \/ Missed(o)
        BY <2>1, <2>3, <3>2 DEF ScheduleInv, ListenerInv
      <4>2. o \in jobs' \/ Missed(o)
        BY <2>1, <3>2, <4>1 DEF Scheduled
      <4> QED BY <1>2, <4>2 DEF Awaited
    <3>3. CASE listener.root # o
      <4>1. o \in jobs => o \in jobs'
        BY <2>1, <3>3 DEF Scheduled
      <4> QED BY <1>2, <3>1, <3>3, <4>1 DEF Awaited
    <3> QED BY <3>2, <3>3
  <2> QED BY <1>1, <2>2, <2>3
<1> QED BY <1>3, <1>4

LEMMA ScheduleStep == ScheduleInv /\ [Next]_vars => ScheduleInv'
<1> SUFFICES ASSUME ScheduleInv, [Next]_vars PROVE ScheduleInv'
  OBVIOUS
<1>1. TypeInv' /\ SizeInv'
  BY TypeStep, SizeStep DEF ScheduleInv
<1>2. CASE \E i \in Item : Created(i) \/ Deleted(i)
  BY <1>1, <1>2, ScheduleOfCreated, ScheduleOfDeleted DEF ScheduleInv
<1>3. CASE LookForJob \/ Schedule
  BY <1>1, <1>3, ScheduleOfListener DEF ScheduleInv
<1>4. CASE \E r \in Root : Fire(r) \/ Work(r)
  BY <1>1, <1>4, ScheduleOfCallback DEF ScheduleInv
<1>5. CASE Restart
  <2>1. queue' = [x \in {} |-> {}] /\ listener' = Free
    BY <1>5 DEF Restart
  <2>2. ListenerInv' /\ \A o \in Root : o \in DOMAIN queue' => Awaited(o)'
    BY <2>1 DEF ListenerInv
  <2> QED BY <1>1, <2>2 DEF ScheduleInv
<1>6. CASE UNCHANGED <<queue, jobs, listener, clearing, failed, late>>
  <2>1. \A o \in Root : Missed(o) <=> Missed(o)'
    BY <1>6 DEF Missed, Busy, Alone, RootOf
  <2>2. \A o \in Root : Awaited(o) => Awaited(o)'
    BY <1>6, <2>1 DEF Awaited
  <2>3. listener.step # "free" => listener.root \in Root
    BY DEF ScheduleInv, TypeInv, Listener, Free
  <2>4. ListenerInv'
    <3>1. ASSUME NEW o \in Root, listener.step # "free", o = listener.root, o \in DOMAIN queue
          PROVE  /\ ~listener.remove
                 /\ listener.step = "act" /\ listener.found => o \in jobs \/ Missed(o)'
      BY <2>1, <3>1 DEF ScheduleInv, ListenerInv
    <3> QED BY <1>6, <2>3, <3>1 DEF ListenerInv
  <2> QED BY <1>1, <1>6, <2>2, <2>4 DEF ScheduleInv
<1>7. \/ \E i \in Item : Created(i) \/ Deleted(i)
      \/ LookForJob \/ Schedule
      \/ \E r \in Root : Fire(r) \/ Work(r)
      \/ Restart
      \/ UNCHANGED <<queue, jobs, listener, clearing, failed, late>>
  BY DEF Next, vars, state, ghosts, Vanish
<1> QED BY <1>2, <1>3, <1>4, <1>5, <1>6, <1>7

LEMMA ScheduleInit == Init => ScheduleInv
<1> SUFFICES ASSUME Init PROVE ScheduleInv
  OBVIOUS
<1>1. TypeInv
  BY TypeInit
<1>2. SizeInv /\ ListenerInv /\ \A r \in Root : r \in DOMAIN queue => Awaited(r)
  BY DEF Init, SizeInv, Busy, Idle, ListenerInv
<1> QED BY <1>1, <1>2 DEF ScheduleInv

LEMMA ScheduleAlways == Spec => []ScheduleInv
BY ScheduleInit, ScheduleStep, PTL DEF Spec

\* schedule_callback and clear_recently_added_queue: what is queued has somebody to announce
\* it, whenever the job fires between the listener's look and its act; only a clearing that
\* the server's answer stopped, or that an item overtook, leaves something behind.
THEOREM ScheduledCorrect == Spec => []QueuedIsScheduled
<1>1. ScheduleInv => QueuedIsScheduled
  BY DEF ScheduleInv, Awaited, Missed, Alone, QueuedIsScheduled
<1> QED BY <1>1, ScheduleAlways, PTL

-----------------------------------------------------------------------------
(***************************************************************************)
(* Nothing leaves the queue unannounced.                                   *)
(***************************************************************************)
\* What a callback will come to, as long as the server returns everything.
InLoops(q, process) ==
  (IF At(process) \in {"seasons", "episodes"}
   THEN process.seasons \cup UNION {Below(q, s) : s \in process.seasons} ELSE {})
  \cup (IF At(process) = "episodes" THEN process.episodes ELSE {})

Ahead(q, process) ==
  InLoops(q, process) \cup (IF process.step = "announce" THEN Named(q, process) ELSE {})

\* What waits to be announced, and came before its root's callback began, is ahead of it.
AheadInv ==
  \A i \in Item : Busy(RootOf(i)) /\ Waiting(i) /\ i \notin late =>
    i \in Ahead(queue, clearing[RootOf(i)])

\* Where an item waits in the queue.
Listed(q, i) ==
  \/ i \in DOMAIN q /\ (i \in Episode \/ Below(q, i) = {})
  \/ i \in Season /\ i \in Below(q, Parent[i]) /\ Below(q, i) = {}

LEMMA WaitingListed ==
  ASSUME NEW i \in Item
  PROVE  Waiting(i) <=> i \in library /\ i \notin told \cup recorded /\ Listed(queue, i)
BY DEF Waiting, Listed, Below

LEMMA ListedWhere ==
  ASSUME QueueOK, NEW r \in Root, NEW i \in Item, RootOf(i) = r, Listed(queue, i)
  PROVE  /\ r \in DOMAIN queue
         /\ \/ i = r /\ Below(queue, r) = {}
            \/ i \in Below(queue, r) /\ i \in Season /\ Below(queue, i) = {}
            \/ i \in Episode /\ \E s \in Below(queue, r) : i \in Below(queue, s)
<1>1. CASE i \in Root
  BY <1>1, Roots DEF Listed
<1>2. CASE i \in Season
  <2>1. i \in Below(queue, r) /\ Below(queue, i) = {}
    BY <1>2, Roots DEF Listed, QueueOK, Below
  <2>2. r \in DOMAIN queue
    BY <2>1 DEF Below
  <2> QED BY <1>2, <2>1, <2>2
<1>3. CASE i \in Episode
  <2>1. i \in DOMAIN queue
    BY <1>3, Roots DEF Listed
  <2>2. i \in Below(queue, Parent[i]) /\ Parent[i] \in Season /\ Parent[Parent[i]] = r
    BY <1>3, <2>1, Roots DEF QueueOK
  <2>3. Parent[i] \in DOMAIN queue
    BY <2>2 DEF Below
  <2>4. Parent[i] \in Below(queue, r)
    BY <2>2, <2>3 DEF QueueOK
  <2>5. r \in DOMAIN queue
    BY <2>4 DEF Below
  <2> QED BY <1>3, <2>2, <2>4, <2>5
<1> QED BY <1>1, <1>2, <1>3 DEF Item

\* A created item makes no other wait; those above it have something below.
LEMMA WaitingOfCreated ==
  ASSUME TypeInv, NEW i \in Item, Created(i), NEW x \in Item, x # i, Waiting(x)'
  PROVE  Waiting(x)
<1>1. /\ queue' = Enqueued(i) /\ library' = library \cup {j \in Item : i \in Tree(j)}
      /\ UNCHANGED <<told, recorded>>
  BY DEF Created, record
<1>2. x \in library' /\ x \notin told \cup recorded /\ Listed(queue', x)
  BY <1>1 DEF Waiting, Listed, Below
<1>3. /\ x \in DOMAIN queue' <=> x \in DOMAIN queue
      /\ Below(queue', x) = Below(queue, x)
  BY <1>1, <1>2, EnqueuedFacts DEF TypeInv, Listed
<1>4. CASE i \in Root
  <2>1. i \notin Tree(x)
    BY <1>4, Roots DEF Tree
  <2>2. \A y \in Item : Below(queue', y) = Below(queue, y)
    BY <1>1, <1>4, EnqueuedRoot
  <2>3. Listed(queue, x)
    BY <1>2, <1>3, <2>2, Roots DEF Listed, Item
  <2> QED BY <1>1, <1>2, <2>1, <2>3, WaitingListed
<1>5. CASE i \in Season
  <2>1. i \in Tree(x) => x = Parent[i]
    BY <1>5, Roots DEF Tree
  <2>0. \A y \in Item : Below(queue', y) =
                        IF y = Parent[i] THEN Below(queue, y) \cup {i} ELSE Below(queue, y)
    BY <1>1, <1>5, EnqueuedSeason
  <2>2. Parent[i] \in Item /\ i \in Below(queue', Parent[i])
    <3>1. Parent[i] \in Item
      BY <1>5, Roots DEF Item
    <3> QED BY <2>0, <3>1
  <2>3. x # Parent[i]
    BY <1>2, <1>5, <2>2, Roots DEF Listed
  <2>4. x \in Season /\ x \in Below(queue', Parent[x]) => x \in Below(queue, Parent[x])
    <3> SUFFICES ASSUME x \in Season, x \in Below(queue', Parent[x]) PROVE x \in Below(queue, Parent[x])
      OBVIOUS
    <3>1. Parent[x] \in Item
      BY Roots DEF Item
    <3> QED BY <2>0, <3>1
  <2>5. Listed(queue, x)
    BY <1>2, <1>3, <2>4 DEF Listed
  <2> QED BY <1>1, <1>2, <2>1, <2>3, <2>5, WaitingListed
<1>6. CASE i \in Episode
  <2>1. i \in Tree(x) => x = Parent[i] \/ x = RootOf(i)
    BY <1>6, Roots DEF Tree
  <2>2. /\ Parent[i] \in Item /\ RootOf(i) \in Item /\ i # Parent[i] /\ i # RootOf(i)
        /\ Parent[i] # RootOf(i)
    BY <1>6, Roots DEF Item
  <2>3. i \in Below(queue', Parent[i]) /\ Parent[i] \in Below(queue', RootOf(i))
    BY <1>1, <1>6, <2>2, EnqueuedEpisode
  <2>4. x # Parent[i] /\ x # RootOf(i)
    BY <1>2, <1>6, <2>3, Roots DEF Listed
  <2>5. x \in Season /\ x \in Below(queue', Parent[x]) => x \in Below(queue, Parent[x])
    <3> SUFFICES ASSUME x \in Season, x \in Below(queue', Parent[x]) PROVE x \in Below(queue, Parent[x])
      OBVIOUS
    <3>1. Parent[x] \in Item /\ Parent[x] # i /\ Parent[x] # Parent[i]
      BY <1>6, Roots DEF Item
    <3>2. Below(queue', Parent[x]) \subseteq Below(queue, Parent[x]) \cup {Parent[i]}
      BY <1>1, <1>6, <3>1, EnqueuedEpisode
    <3> QED BY <2>4, <3>2
  <2>6. Listed(queue, x)
    BY <1>2, <1>3, <2>5 DEF Listed
  <2> QED BY <1>1, <1>2, <2>1, <2>4, <2>6, WaitingListed
<1> QED BY <1>4, <1>5, <1>6 DEF Item

\* What is ahead of a callback stays there while the queue grows.
LEMMA AheadGrows ==
  ASSUME TypeInv, NEW r \in Root, Busy(r), NEW q,
         \A x \in Item : Below(queue, x) \subseteq Below(q, x)
  PROVE  Ahead(queue, clearing[r]) \subseteq Ahead(q, clearing[r])
<1> DEFINE p == clearing[r]
<1>1. /\ p.seasons \subseteq Item /\ p.item \in Item
  BY BusyProcess DEF Process, Item
<1>2. \A x \in Item : Below(queue, x) \subseteq Item
  BY BelowTypes DEF TypeInv
<1> HIDE DEF p
<1>3. InLoops(queue, p) \subseteq InLoops(q, p)
  BY <1>1 DEF InLoops
<1>4. Named(queue, p) \subseteq Named(q, p)
  <2>1. CASE p.group
    <3>1. Below(queue, p.item) \subseteq Below(q, p.item)
      BY <1>1
    <3>2. \A c \in Below(queue, p.item) : Below(queue, c) \subseteq Below(q, c)
      BY <1>1, <1>2
    <3> QED BY <2>1, <3>1, <3>2 DEF Named
  <2>2. CASE ~p.group
    BY <2>2 DEF Named
  <2> QED BY <2>1, <2>2
<1>5. Ahead(queue, p) \subseteq Ahead(q, p)
  BY <1>3, <1>4 DEF Ahead
<1> QED BY <1>5 DEF p

\* It is a matter of its own root's part of the queue.
LEMMA AheadElsewhere ==
  ASSUME TypeInv, NEW r \in Root, Busy(r), NEW q,
         \A x \in Item : RootOf(x) = r => Below(q, x) = Below(queue, x)
  PROVE  Ahead(q, clearing[r]) = Ahead(queue, clearing[r])
<1> DEFINE p == clearing[r]
<1>1. /\ p.seasons \subseteq Seasons(r) /\ RootOf(p.item) = r /\ p.item \in Item
  BY BusyProcess DEF About, Process
<1>2. \A s \in p.seasons : Below(q, s) = Below(queue, s)
  BY <1>1, Roots DEF Seasons, Item
<1>3. /\ Below(q, p.item) = Below(queue, p.item)
      /\ \A c \in Below(queue, p.item) : Below(q, c) = Below(queue, c)
  <2>1. ASSUME NEW c \in Below(queue, p.item) PROVE c \in Item /\ RootOf(c) = r
    <3>1. Below(queue, p.item) \subseteq Item
      BY <1>1, BelowTypes DEF TypeInv
    <3>2. CASE p.item \in Root
      BY <1>1, <2>1, <3>1, <3>2, BelowTypes, Roots DEF TypeInv, Seasons
    <3>3. CASE p.item \in Season
      <4>1. c \in Episode /\ Parent[c] = p.item
        BY <2>1, <3>3, BelowTypes DEF TypeInv
      <4> QED BY <1>1, <3>1, <3>3, <4>1, Roots
    <3>4. CASE p.item \in Episode
      <4>1. c = r
        BY <1>1, <2>1, <3>4, BelowTypes DEF TypeInv
      <4> QED BY <3>1, <4>1, Roots
    <3> QED BY <1>1, <3>2, <3>3, <3>4 DEF Item
  <2> QED BY <1>1, <2>1
<1> HIDE DEF p
<1>4. InLoops(q, p) = InLoops(queue, p)
  BY <1>2 DEF InLoops
<1>5. Named(q, p) = Named(queue, p)
  BY <1>3 DEF Named
<1>6. Ahead(q, p) = Ahead(queue, p)
  BY <1>4, <1>5 DEF Ahead
<1> QED BY <1>6 DEF p

\* The steps of a callback, for the items of its root.
LEMMA AheadOfFire ==
  ASSUME TypeInv, NEW r \in Root, Fire(r), clearing'[r] # Idle,
         NEW i \in Item, RootOf(i) = r, Listed(queue, i)
  PROVE  i \in Ahead(queue, clearing'[r])
<1> DEFINE n == clearing'[r]
<1>1. /\ r \in DOMAIN queue
      /\ \/ i = r /\ Below(queue, r) = {}
         \/ i \in Below(queue, r)
         \/ \E s \in Below(queue, r) : i \in Below(queue, s)
  BY ListedWhere DEF TypeInv
<1>2. /\ n.seasons = Below(queue, r) /\ n.item = r
      /\ \/ n.step = "announce" /\ n.group = TRUE /\ n.back = "clear"
         \/ n.step = "seasons" /\ queue[r] # {}
         \/ n.step = "announce" /\ n.group = FALSE /\ n.back = "clear" /\ queue[r] = {}
  BY <1>1, FireCases
<1>3. queue[r] = Below(queue, r)
  BY <1>1 DEF Below
<1> HIDE DEF n
<1>4. CASE n.step = "announce" /\ n.group = TRUE
  <2>1. Named(queue, n) = {r} \cup Below(queue, r) \cup UNION {Below(queue, c) : c \in Below(queue, r)}
    BY <1>2, <1>4 DEF Named
  <2>2. i \in Named(queue, n)
    BY <1>1, <2>1
  <2> QED BY <1>4, <2>2 DEF Ahead, n
<1>5. CASE n.step = "seasons" /\ queue[r] # {}
  <2>1. i \in InLoops(queue, n)
    BY <1>1, <1>2, <1>3, <1>5 DEF InLoops, At
  <2> QED BY <2>1 DEF Ahead, n
<1>6. CASE n.step = "announce" /\ queue[r] = {}
  <2>1. i = r
    BY <1>1, <1>3, <1>6
  <2>2. i \in Named(queue, n)
    BY <1>2, <2>1 DEF Named
  <2> QED BY <1>6, <2>2 DEF Ahead, n
<1> QED BY <1>2, <1>4, <1>5, <1>6

LEMMA AheadOfNextSeason ==
  ASSUME TypeInv, NEW r \in Root, NextSeason(r), clearing'[r] # Idle,
         NEW i \in Item, RootOf(i) = r, Listed(queue, i), i \in Ahead(queue, clearing[r])
  PROVE  i \in Ahead(queue, clearing'[r])
<1> DEFINE n == clearing'[r]
           p == clearing[r]
<1>1. /\ p.step = "seasons" /\ p.seasons \subseteq Season
  BY NextSeasonCases DEF Process
<1>2. i \in p.seasons \cup UNION {Below(queue, s) : s \in p.seasons}
  BY <1>1 DEF Ahead, InLoops, At
<1>3. \/ p.seasons = {}
      \/ \E s \in p.seasons :
           /\ n.seasons = p.seasons \ {s}
           /\ \/ /\ n.step = "announce" /\ n.item = s /\ n.back = "seasons"
                 /\ n.group = TRUE \/ (n.group = FALSE /\ Below(queue, s) = {})
              \/ /\ n.step = "episodes" /\ n.episodes = Below(queue, s) /\ Below(queue, s) # {}
  BY NextSeasonCases
<1> HIDE DEF n, p
<1>4. PICK s \in p.seasons :
        /\ n.seasons = p.seasons \ {s}
        /\ \/ /\ n.step = "announce" /\ n.item = s /\ n.back = "seasons"
              /\ n.group = TRUE \/ (n.group = FALSE /\ Below(queue, s) = {})
           \/ /\ n.step = "episodes" /\ n.episodes = Below(queue, s) /\ Below(queue, s) # {}
  BY <1>2, <1>3
<1>5. CASE i \in n.seasons \cup UNION {Below(queue, c) : c \in n.seasons}
  <2>1. At(n) \in {"seasons", "episodes"}
    BY <1>4 DEF At
  <2>2. i \in InLoops(queue, n)
    BY <1>5, <2>1 DEF InLoops
  <2> QED BY <2>2 DEF Ahead, n
<1>6. CASE i = s \/ i \in Below(queue, s)
  <2>1. CASE n.step = "announce"
    <3>1. i \in Named(queue, n)
      BY <1>4, <1>6, <2>1 DEF Named
    <3> QED BY <2>1, <3>1 DEF Ahead, n
  <2>2. CASE n.step = "episodes" /\ n.episodes = Below(queue, s) /\ Below(queue, s) # {}
    <3>1. i # s
      BY <1>1, <1>4, <2>2, Roots DEF Listed
    <3>2. i \in InLoops(queue, n)
      BY <1>6, <2>2, <3>1 DEF InLoops, At
    <3> QED BY <3>2 DEF Ahead, n
  <2> QED BY <1>4, <2>1, <2>2
<1> QED BY <1>2, <1>4, <1>5, <1>6

LEMMA AheadOfNextEpisode ==
  ASSUME TypeInv, NEW r \in Root, NextEpisode(r), clearing'[r] # Idle,
         NEW i \in Item, i \in Ahead(queue, clearing[r])
  PROVE  i \in Ahead(queue, clearing'[r])
<1> DEFINE n == clearing'[r]
           p == clearing[r]
<1>1. p.step = "episodes"
  BY NextEpisodeCases
<1>2. i \in p.episodes \cup p.seasons \cup UNION {Below(queue, s) : s \in p.seasons}
  <2>1. i \in Ahead(queue, p)
    OBVIOUS
  <2> HIDE DEF p
  <2>2. i \in InLoops(queue, p)
    BY <1>1, <2>1 DEF Ahead
  <2> QED BY <1>1, <2>2 DEF InLoops, At
<1>3. /\ n.seasons = p.seasons
      /\ \/ p.episodes = {} /\ n.step = "seasons"
         \/ \E e \in p.episodes :
              /\ n.step = "announce" /\ n.item = e /\ n.group = FALSE
              /\ n.back = "episodes" /\ n.episodes = p.episodes \ {e}
  BY NextEpisodeCases
<1> HIDE DEF n, p
<1>4. CASE i \in p.seasons \cup UNION {Below(queue, s) : s \in p.seasons}
  <2>1. At(n) \in {"seasons", "episodes"}
    BY <1>3 DEF At
  <2>2. i \in InLoops(queue, n)
    BY <1>3, <1>4, <2>1 DEF InLoops
  <2> QED BY <2>2 DEF Ahead, n
<1>5. CASE i \in p.episodes
  <2>1. PICK e \in p.episodes :
          /\ n.step = "announce" /\ n.item = e
          /\ n.back = "episodes" /\ n.episodes = p.episodes \ {e}
    BY <1>3, <1>5
  <2>2. CASE i = e
    <3>1. i \in Named(queue, n)
      BY <2>1, <2>2 DEF Named
    <3> QED BY <2>1, <3>1 DEF Ahead, n
  <2>3. CASE i # e
    <3>1. i \in InLoops(queue, n)
      BY <1>5, <2>1, <2>3 DEF InLoops, At
    <3> QED BY <3>1 DEF Ahead, n
  <2> QED BY <2>2, <2>3
<1> QED BY <1>2, <1>4, <1>5

LEMMA AheadOfAnnounce ==
  ASSUME TypeInv, NEW r \in Root, Announce(r), clearing'[r] # Idle,
         NEW i \in Item, i \in Ahead(queue, clearing[r]), i \notin told' \cup recorded'
  PROVE  i \in Ahead(queue, clearing'[r])
<1> DEFINE n == clearing'[r]
           p == clearing[r]
<1>1. p.step = "announce" /\ recorded' = recorded
  BY AnnounceCases
<1>2. /\ (p.item \in recorded /\ ~p.group) \/ told' = told \cup Named(queue, p)
      /\ n.step = "record" /\ n.back = p.back /\ n.seasons = p.seasons /\ n.episodes = p.episodes
  BY AnnounceCases
<1>3. i \in InLoops(queue, p) \cup Named(queue, p)
  BY DEF Ahead
<1> HIDE DEF n, p
<1>4. i \notin Named(queue, p)
  <2>1. CASE p.item \in recorded /\ ~p.group
    BY <1>1, <2>1 DEF Named
  <2>2. CASE told' = told \cup Named(queue, p)
    BY <2>2
  <2> QED BY <1>2, <2>1, <2>2
<1>5. InLoops(queue, n) = InLoops(queue, p)
  BY <1>1, <1>2 DEF InLoops, At
<1> QED BY <1>3, <1>4, <1>5 DEF Ahead, n

LEMMA AheadOfRecord ==
  ASSUME TypeInv, NEW r \in Root, Record(r), clearing'[r] # Idle,
         NEW i \in Item, i \in Ahead(queue, clearing[r])
  PROVE  i \in Ahead(queue, clearing'[r])
<1> DEFINE n == clearing'[r]
           p == clearing[r]
<1>1. p.step = "record" /\ p.back \in {"clear", "seasons", "episodes"}
  BY RecordCases DEF Process, Loops
<1>2. n.step = p.back /\ n.seasons = p.seasons /\ n.episodes = p.episodes
  BY RecordCases
<1> HIDE DEF n, p
<1>3. i \in InLoops(queue, p)
  BY <1>1 DEF Ahead, p
<1>4. InLoops(queue, n) = InLoops(queue, p)
  BY <1>1, <1>2 DEF InLoops, At
<1> QED BY <1>3, <1>4 DEF Ahead, n

\* The same for a step of any kind: other roots, and what the listener does.
LEMMA AheadOfCallback ==
  ASSUME TypeInv, AheadInv, NEW r \in Root, Fire(r) \/ Work(r)
  PROVE  AheadInv'
<1>1. late' = late /\ \A o \in Root \ {r} : clearing'[o] = clearing[o]
  BY CallbackStep
<1>2. library' = library /\ told \subseteq told' /\ recorded \subseteq recorded'
  <2>1. CASE Announce(r)
    BY <2>1, AnnounceCases DEF server
  <2>2. CASE Record(r)
    BY <2>2, RecordCases DEF server
  <2>3. CASE ~Announce(r) /\ ~Record(r)
    BY <2>3 DEF Fire, Work, NextSeason, NextEpisode, Clear, server, record
  <2> QED BY <2>1, <2>2, <2>3
<1>3. QueueOK
  BY DEF TypeInv
<1>4. ASSUME NEW i \in Item, clearing'[RootOf(i)].step # "idle", Waiting(i)', i \notin late'
      PROVE  i \in Ahead(queue', clearing'[RootOf(i)])
  <2>0. RootOf(i) \in Root
    BY Roots
  <2>1. i \in library' /\ i \notin told' \cup recorded' /\ Listed(queue', i)
    BY <1>4 DEF Waiting, Listed, Below
  <2>2. CASE RootOf(i) = r
    <3>1. clearing'[r] # Idle
      BY <1>4, <2>2 DEF Idle
    <3>2. queue' = queue
      BY <3>1, CallbackStep
    <3>3. Waiting(i) /\ i \notin late /\ Listed(queue, i)
      BY <1>1, <1>2, <1>4, <2>1, <3>2, WaitingListed
    <3>4. Busy(r) => i \in Ahead(queue, clearing[r])
      BY <2>2, <3>3 DEF AheadInv
    <3>5. i \in Ahead(queue, clearing'[r])
      <4>1. CASE Fire(r)
        BY <2>2, <3>1, <3>3, <4>1, AheadOfFire
      <4>2. CASE NextSeason(r)
        BY <2>2, <3>1, <3>3, <3>4, <4>2, AheadOfNextSeason, NextSeasonCases
      <4>3. CASE NextEpisode(r)
        BY <3>1, <3>4, <4>3, AheadOfNextEpisode, NextEpisodeCases
      <4>4. CASE Announce(r)
        BY <2>1, <3>1, <3>4, <4>4, AheadOfAnnounce, AnnounceCases
      <4>5. CASE Record(r)
        BY <3>1, <3>4, <4>5, AheadOfRecord, RecordCases
      <4>6. CASE Clear(r)
        BY <3>1, <4>6, ClearCases
      <4> QED BY <4>1, <4>2, <4>3, <4>4, <4>5, <4>6 DEF Work
    <3> QED BY <2>2, <3>2, <3>5
  <2>3. CASE RootOf(i) # r
    <3> DEFINE o == RootOf(i)
    <3>1. clearing'[o] = clearing[o] /\ Busy(o)
      BY <1>1, <1>4, <2>0, <2>3 DEF Busy
    <3>2. CASE queue' = queue
      <4>1. Waiting(i) /\ i \notin late
        BY <1>1, <1>2, <1>4, <2>1, <3>2, WaitingListed
      <4>2. i \in Ahead(queue, clearing[o])
        BY <3>1, <4>1 DEF AheadInv
      <4> QED BY <3>1, <3>2, <4>2
    <3>3. CASE queue' = DelKeys(queue, r)
      <4>1. /\ DOMAIN queue' \subseteq DOMAIN queue
            /\ \A x \in Item : RootOf(x) # r => Below(queue', x) = Below(queue, x)
        <5>1. /\ DOMAIN DelKeys(queue, r) = {x \in DOMAIN queue : RootOf(x) # r}
              /\ \A x \in Item : RootOf(x) # r => Below(DelKeys(queue, r), x) = Below(queue, x)
          BY <1>3, DelRoot
        <5> QED BY <3>3, <5>1
      <4>2. i \in Season => Parent[i] \in Item /\ RootOf(Parent[i]) = RootOf(i)
        BY Roots DEF Item
      <4>3. Listed(queue, i)
        BY <2>1, <2>3, <4>1, <4>2 DEF Listed
      <4>4. Waiting(i) /\ i \notin late
        BY <1>1, <1>2, <1>4, <2>1, <4>3, WaitingListed
      <4>5. i \in Ahead(queue, clearing[o])
        BY <3>1, <4>4 DEF AheadInv
      <4>6. Ahead(queue', clearing[o]) = Ahead(queue, clearing[o])
        BY <2>0, <2>3, <3>1, <4>1, AheadElsewhere
      <4> QED BY <3>1, <4>5, <4>6
    <3> QED BY <3>2, <3>3, CallbackStep
  <2> QED BY <2>2, <2>3
<1> QED BY <1>4 DEF AheadInv, Busy, Ahead, InLoops, Named, Below, At, RootOf

\* While a callback is left alone, what waits behind it only grows less, and what is below
\* the keys does not.
LEMMA AheadWhileStill ==
  ASSUME TypeInv, AheadInv, UNCHANGED clearing, late \subseteq late',
         \A x \in Item : Below(queue, x) \subseteq Below(queue', x),
         \A x \in Item : Waiting(x)' => Waiting(x) \/ x \in late' \/ ~Busy(RootOf(x))
  PROVE  AheadInv'
<1>1. ASSUME NEW i \in Item, clearing'[RootOf(i)].step # "idle", Waiting(i)', i \notin late'
      PROVE  i \in Ahead(queue', clearing'[RootOf(i)])
  <2>1. Busy(RootOf(i)) /\ RootOf(i) \in Root
    BY <1>1, Roots DEF Busy
  <2>2. Waiting(i) /\ i \notin late
    BY <1>1, <2>1
  <2>3. i \in Ahead(queue, clearing[RootOf(i)])
    BY <2>1, <2>2 DEF AheadInv
  <2>4. i \in Ahead(queue', clearing[RootOf(i)])
    BY <2>1, <2>3, AheadGrows
  <2> QED BY <2>4
<1> QED BY <1>1 DEF AheadInv, Busy, Ahead, InLoops, Named, Below, At, RootOf

LEMMA AheadStep ==
  ASSUME TypeInv, AheadInv, [Next]_vars
  PROVE  AheadInv'
<1>1. ASSUME NEW i \in Item, Vanish(i) PROVE AheadInv'
  <2>1. UNCHANGED <<queue, clearing, told, recorded, late>> /\ library' \subseteq library
    BY <1>1 DEF Vanish, state, record, ghosts
  <2>2. \A x \in Item : Waiting(x)' => Waiting(x)
    BY <2>1 DEF Waiting, Below
  <2> QED BY <2>1, <2>2, AheadWhileStill
<1>2. ASSUME NEW i \in Item, Created(i) PROVE AheadInv'
  <2>1. /\ UNCHANGED clearing /\ queue' = Enqueued(i)
        /\ late' = IF Busy(RootOf(i)) THEN late \cup {i} ELSE late
    BY <1>2 DEF Created
  <2>2. \A x \in Item : Below(queue, x) \subseteq Below(queue', x)
    BY <2>1, EnqueuedFacts DEF TypeInv
  <2>3. \A x \in Item : x # i /\ Waiting(x)' => Waiting(x)
    BY <1>2, WaitingOfCreated
  <2>4. late \subseteq late' /\ (i \in late' \/ ~Busy(RootOf(i)))
    BY <2>1
  <2> QED BY <2>1, <2>2, <2>3, <2>4, AheadWhileStill
<1>3. ASSUME NEW i \in Item, Deleted(i) PROVE AheadInv'
  <2>1. UNCHANGED <<library, clearing, told, recorded, late>>
    BY <1>3 DEF Deleted, server, record, ghosts
  <2>2. DOMAIN queue' \subseteq DOMAIN queue /\ \A x \in Item : Below(queue', x) = Below(queue, x)
    BY <1>3, DeletedBelow
  <2>3. ASSUME NEW x \in Item, Waiting(x)' PROVE Waiting(x)
    <3>1. x \in library /\ x \notin told \cup recorded /\ Listed(queue', x)
      BY <2>1, <2>3 DEF Waiting, Listed, Below
    <3>2. x \in Season => Parent[x] \in Item
      BY Roots DEF Item
    <3>3. Listed(queue, x)
      BY <2>2, <3>1, <3>2 DEF Listed
    <3> QED BY <3>1, <3>3, WaitingListed
  <2> QED BY <2>1, <2>2, <2>3, AheadWhileStill
<1>4. CASE LookForJob \/ Schedule \/ UNCHANGED vars
  <2>1. UNCHANGED <<library, queue, clearing, told, recorded, late>>
    BY <1>4 DEF LookForJob, Schedule, vars, state, server, record, ghosts
  <2>2. \A x \in Item : Waiting(x)' => Waiting(x)
    BY <2>1 DEF Waiting, Below
  <2> QED BY <2>1, <2>2, AheadWhileStill
<1>5. ASSUME NEW r \in Root, Fire(r) \/ Work(r) PROVE AheadInv'
  BY <1>5, AheadOfCallback
<1>6. CASE Restart
  <2>1. \A r \in Root : clearing'[r] = Idle
    BY <1>6 DEF Restart
  <2> QED BY <2>1, Roots DEF AheadInv, Busy, Idle, RootOf
<1> QED BY <1>1, <1>2, <1>3, <1>4, <1>5, <1>6 DEF Next

DropInv == TypeInv /\ GoneInv /\ AheadInv

LEMMA DropAlways == Spec => []DropInv
<1>1. Init => DropInv
  <2>1. Init => AheadInv
    BY DEF Init, AheadInv, Waiting
  <2>2. Init => GoneInv
    BY DEF Init, GoneInv
  <2> QED BY <2>1, <2>2, TypeInit DEF DropInv
<1>2. DropInv /\ [Next]_vars => DropInv'
  BY TypeStep, GoneStep, AheadStep DEF DropInv
<1> QED BY <1>1, <1>2, PTL DEF Spec

\* What waits leaves the queue by being announced, by its deletion, or as a late arrival.
LEMMA DropStep ==
  ASSUME DropInv, [Next]_vars, NEW i \in Item, Waiting(i), i \notin late'
  PROVE  Queued(queue', i) \/ i \in told' \cup gone'
<1>0. TypeInv /\ GoneInv /\ AheadInv /\ QueueOK /\ RootOf(i) \in Root
  BY Roots DEF DropInv, TypeInv
<1>1. i \in library /\ Listed(queue, i)
  BY WaitingListed
<1>2. Queued(queue, i)
  BY <1>1, Roots DEF Listed, Queued
<1>3. CASE queue' = queue
  BY <1>2, <1>3
<1>4. ASSUME NEW x \in Item, Created(x) PROVE Queued(queue', i)
  <2>1. /\ DOMAIN queue \subseteq DOMAIN queue'
        /\ \A y \in Item : Below(queue, y) \subseteq Below(queue', y)
    BY <1>0, <1>4, EnqueuedFacts DEF Created
  <2>2. i \notin Root => Parent[i] \in Item
    BY Roots DEF Item
  <2> QED BY <1>2, <2>1, <2>2 DEF Queued
<1>5. ASSUME NEW r \in Root, queue' = DelKeys(queue, r), RootOf(i) # r PROVE Queued(queue', i)
  <2>1. /\ DOMAIN queue' = {x \in DOMAIN queue : RootOf(x) # r}
        /\ \A x \in Item : RootOf(x) # r => Below(queue', x) = Below(queue, x)
    <3>1. /\ DOMAIN DelKeys(queue, r) = {x \in DOMAIN queue : RootOf(x) # r}
          /\ \A x \in Item : RootOf(x) # r => Below(DelKeys(queue, r), x) = Below(queue, x)
      BY <1>0, DelRoot
    <3> QED BY <1>5, <3>1
  <2>2. i \notin Root => Parent[i] \in Item /\ RootOf(Parent[i]) = RootOf(i)
    BY Roots DEF Item
  <2> QED BY <1>2, <1>5, <2>1, <2>2 DEF Queued
<1>6. ASSUME NEW x \in Item, Deleted(x) PROVE Queued(queue', i) \/ i \in gone'
  <2>1. x \in Root /\ x \in gone /\ gone' = gone /\ queue' = DelKeys(queue, x)
    BY <1>0, <1>6, DeletedBelow DEF Deleted, server
  <2>2. CASE RootOf(i) = x
    <3>1. i \in Tree(x)
      BY <2>1, <2>2, Roots DEF Tree
    <3> QED BY <1>0, <2>1, <3>1 DEF GoneInv
  <2>3. CASE RootOf(i) # x
    BY <1>5, <2>1, <2>3
  <2> QED BY <2>2, <2>3
<1>7. ASSUME NEW r \in Root, Fire(r) \/ Work(r) PROVE Queued(queue', i)
  <2>1. CASE queue' = queue
    BY <1>3, <2>1, <1>2
  <2>2. CASE Clear(r) /\ queue' = DelKeys(queue, r)
    <3>1. RootOf(i) # r
      <4>1. Busy(r) /\ clearing[r].step = "clear"
        BY <1>0, <2>2, ClearCases
      <4>2. Ahead(queue, clearing[r]) = {}
        BY <4>1 DEF Ahead, InLoops, At
      <4>3. late' = late
        BY <1>0, <1>7, CallbackStep
      <4> QED BY <1>0, <4>1, <4>2, <4>3 DEF AheadInv
    <3> QED BY <1>5, <2>2, <3>1
  <2> QED BY <1>0, <1>7, <2>1, <2>2, CallbackStep
<1>8. CASE Restart
  <2>1. RootOf(i) \in DOMAIN queue
    BY <1>0, <1>1, ListedWhere
  <2> QED BY <1>8, <2>1 DEF Restart
<1>9. queue' = queue \/ (\E x \in Item : Created(x) \/ Deleted(x))
      \/ (\E r \in Root : Fire(r) \/ Work(r)) \/ Restart
  BY DEF Next, vars, state, Vanish, LookForJob, Schedule
<1> QED BY <1>3, <1>4, <1>6, <1>7, <1>8, <1>9

\* clear_recently_added_queue: emptying the queue, by a callback's del_keys, a deletion event
\* or the end of the process, takes no item that nobody was told of, unless it arrived while
\* its root was being cleared, was lost with the process, or is gone from the server.
THEOREM DroppedCorrect == Spec => DroppedWasTold
<1>1. DropInv /\ [Next]_vars =>
        [\A i \in Item : Waiting(i) /\ i \notin late' =>
                           Queued(queue', i) \/ i \in told' \cup gone']_vars
  BY DropStep
<1> QED BY <1>1, DropAlways, PTL DEF Spec, DroppedWasTold
=============================================================================
