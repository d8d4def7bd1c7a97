---------------------------- MODULE RecentlyAdded ----------------------------
(***************************************************************************)
(* What Tautulli tells of new items in a library: TimelineHandler and      *)
(* clear_recently_added_queue (plexpy/activity_handler.py).                *)
(*                                                                         *)
(* The websocket listener puts each new item into RECENTLY_ADDED_QUEUE, a  *)
(* dictionary in memory from a key to the keys below it, and pushes back   *)
(* the one-shot job of the item's root (a movie, show or artist).  The job *)
(* walks over what is queued for the root, announces it item by item or in *)
(* groups, and empties the root's part of the queue.  No lock is held: the *)
(* listener goes on while the job waits for the server.                    *)
(***************************************************************************)
EXTENDS Naturals, FiniteSets

CONSTANTS
  Root,          \* movies, shows and artists
  Season,        \* seasons and albums
  Episode,       \* episodes and tracks
  Parent,        \* the root of each season, the season of each episode
  GroupRoot,     \* NOTIFY_GROUP_RECENTLY_ADDED_GRANDPARENT
  GroupSeason,   \* NOTIFY_GROUP_RECENTLY_ADDED_PARENT
  MaxCreated,    \* bound: created items reported
  MaxDeleted,    \* bound: deletions
  MaxFaults      \* bound: failed requests to the server and restarts

Item == Root \cup Season \cup Episode

ASSUME RecentlyAddedAssumption ==
  /\ Root \cap Season = {} /\ Root \cap Episode = {} /\ Season \cap Episode = {}
  /\ Parent \in [Season \cup Episode -> Root \cup Season]
  /\ \A s \in Season : Parent[s] \in Root
  /\ \A e \in Episode : Parent[e] \in Season
  /\ {GroupRoot, GroupSeason} \subseteq BOOLEAN
  /\ {MaxCreated, MaxDeleted, MaxFaults} \subseteq Nat

VARIABLES
  library,   \* the items the server has
  gone,      \* the items it deleted; their keys are not used again
  queue,     \* RECENTLY_ADDED_QUEUE
  jobs,      \* roots with a pending clear_recently_added_queue
  listener,  \* what the listener has left to do for its event
  clearing,  \* per root: the running clear_recently_added_queue
  recorded,  \* the recently_added table
  told,      \* items announced, alone or in a group
  alone,     \* how often each item was announced on its own
  late,      \* items queued while their root was being cleared, or lost with the process
  failed,    \* roots whose clearing stopped at an item the server did not return
  created, deleted, failures, restarts  \* bounded inputs

state == <<queue, jobs, listener, clearing>>
record == <<recorded, told, alone>>
ghosts == <<late, failed>>
bounds == <<created, deleted, failures, restarts>>
server == <<library, gone>>
vars == <<server, state, record, ghosts, bounds>>

RootOf(i) == IF i \in Root THEN i ELSE IF i \in Season THEN Parent[i] ELSE Parent[Parent[i]]

(***************************************************************************)
(* The queue.                                                              *)
(***************************************************************************)
Below(q, k) == IF k \in DOMAIN q THEN q[k] ELSE {}

Put(q, k, S) == [x \in DOMAIN q \cup {k} |-> IF x = k THEN S ELSE q[x]]

\* del_keys: the key and what is below it.
DelKeys(q, k) ==
  LET dropped == {k} \cup Below(q, k) \cup UNION {Below(q, c) : c \in Below(q, k)}
  IN [x \in DOMAIN q \ dropped |-> q[x]]

\* process(), a created item.  A mistake: a season is queued by itself.
SeasonByItself(i) ==
  IF i \in Season THEN Put(queue, i, {})
  ELSE IF i \in Episode
  THEN LET seasons == Put(queue, RootOf(i), Below(queue, RootOf(i)) \cup {Parent[i]})
           episodes == Put(seasons, Parent[i], Below(queue, Parent[i]) \cup {i})
       IN Put(episodes, i, {RootOf(i)})
  ELSE Put(queue, i, Below(queue, i))
Enqueued(i) ==
  IF i \in Episode
  THEN LET seasons == Put(queue, RootOf(i), Below(queue, RootOf(i)) \cup {Parent[i]})
           episodes == Put(seasons, Parent[i], Below(queue, Parent[i]) \cup {i})
       IN Put(episodes, i, {RootOf(i)})
  ELSE IF i \in Season
  THEN Put(queue, Parent[i], Below(queue, Parent[i]) \cup {i})
  ELSE Put(queue, i, Below(queue, i))

(***************************************************************************)
(* The server and the listener.                                            *)
(***************************************************************************)
Free == [step |-> "free"]
Idle == [step |-> "idle"]
Busy(r) == clearing[r].step # "idle"

Tree(i) == {j \in Item : j = i \/ (j \notin Root /\ (Parent[j] = i \/ RootOf(j) = i))}

\* The server deletes an item with all below it; the events follow, or do not.
Vanish(i) ==
  /\ deleted < MaxDeleted
  /\ i \in library
  /\ library' = library \ Tree(i)
  /\ gone' = gone \cup Tree(i)
  /\ deleted' = deleted + 1
  /\ UNCHANGED <<state, record, ghosts, created, failures, restarts>>

\* An item is created, or reported once more.
Created(i) ==
  /\ listener = Free
  /\ created < MaxCreated
  /\ i \notin gone
  /\ library' = library \cup {j \in Item : i \in Tree(j)}
  /\ UNCHANGED gone
  /\ queue' = Enqueued(i)
  /\ listener' = [step |-> "look", root |-> RootOf(i), remove |-> FALSE]
  /\ late' = IF Busy(RootOf(i)) THEN late \cup {i} ELSE late
  /\ created' = created + 1
  /\ UNCHANGED <<jobs, clearing, record, failed, deleted, failures, restarts>>

\* A deleted item leaves the queue when nothing is below its key there.
Deleted(i) ==
  /\ listener = Free
  /\ i \in gone
  /\ i \in DOMAIN queue /\ queue[i] = {}
  /\ queue' = DelKeys(queue, i)
  /\ listener' = [step |-> "look", root |-> RootOf(i), remove |-> TRUE]
  /\ UNCHANGED <<server, jobs, clearing, record, ghosts, bounds>>

\* schedule_callback: ask for the job, then move, remove or add it; both calls
\* raise when the job has gone in between.
LookForJob ==
  /\ listener.step = "look"
  /\ listener' = [step |-> "act", root |-> listener.root, remove |-> listener.remove,
                  found |-> listener.root \in jobs]
  /\ UNCHANGED <<server, queue, jobs, clearing, record, ghosts, bounds>>

\* A mistake: a job is moved, but never added.
MovedOnly(r, remove, found) == IF remove THEN jobs \ {r} ELSE jobs
Scheduled(r, remove, found) ==
  IF found /\ r \notin jobs THEN jobs
  ELSE IF remove THEN jobs \ {r} ELSE jobs \cup {r}

Schedule ==
  /\ listener.step = "act"
  /\ jobs' = Scheduled(listener.root, listener.remove, listener.found)
  /\ listener' = Free
  /\ UNCHANGED <<server, queue, clearing, record, ghosts, bounds>>

(***************************************************************************)
(* clear_recently_added_queue.  The loops walk over the live sets, and     *)
(* raise when one changed its size.                                        *)
(***************************************************************************)
Becomes(r, process) == clearing' = [clearing EXCEPT ![r] = process]

\* on_created(item) or on_created(item, child_keys), then back to a loop.
Announcing(process, item, group, back) ==
  [process EXCEPT !.step = "announce", !.item = item, !.group = group, !.back = back]

\* The loop's next season.  A mistake: the loop begins again.
Again(process, s) == process
Rest(process, s) == [process EXCEPT !.seasons = @ \ {s}]

Started(r) ==
  [step |-> "seasons", seasons |-> queue[r], size |-> Cardinality(queue[r]),
   season |-> r, episodes |-> {}, count |-> 0, item |-> r, group |-> FALSE, keys |-> {},
   back |-> "clear"]

\* A job leaves the store when it is submitted, and raises when nothing is queued.
\* The delay is taken to be longer than a root is being cleared.
Fire(r) ==
  /\ r \in jobs
  /\ ~Busy(r)
  /\ jobs' = jobs \ {r}
  /\ IF r \notin DOMAIN queue THEN UNCHANGED clearing
     ELSE IF GroupRoot /\ Cardinality(queue[r]) > 1
     THEN Becomes(r, Announcing(Started(r), r, TRUE, "clear"))
     ELSE IF queue[r] # {} THEN Becomes(r, Started(r))
     ELSE Becomes(r, Announcing(Started(r), r, FALSE, "clear"))
  /\ UNCHANGED <<server, queue, listener, record, ghosts, bounds>>

NextSeason(r) ==
  LET process == clearing[r] IN
  /\ process.step = "seasons"
  /\ IF Cardinality(Below(queue, r)) # process.size
     THEN Becomes(r, Idle)
     ELSE \/ process.seasons = {} /\ Becomes(r, [process EXCEPT !.step = "clear"])
          \/ \E s \in process.seasons :
               LET rest == Rest(process, s)
                   episodes == Below(queue, s)
               IN Becomes(r,
                    IF GroupSeason /\ Cardinality(episodes) > 1
                    THEN Announcing(rest, s, TRUE, "seasons")
                    ELSE IF episodes # {}
                    THEN [rest EXCEPT !.step = "episodes", !.season = s, !.episodes = episodes,
                                      !.count = Cardinality(episodes)]
                    ELSE Announcing(rest, s, FALSE, "seasons"))
  /\ UNCHANGED <<server, queue, jobs, listener, record, ghosts, bounds>>

NextEpisode(r) ==
  LET process == clearing[r] IN
  /\ process.step = "episodes"
  /\ IF Cardinality(Below(queue, process.season)) # process.count
     THEN Becomes(r, Idle)
     ELSE \/ process.episodes = {} /\ Becomes(r, [process EXCEPT !.step = "seasons"])
          \/ \E e \in process.episodes :
               Becomes(r, Announcing([process EXCEPT !.episodes = @ \ {e}], e, FALSE, "episodes"))
  /\ UNCHANGED <<server, queue, jobs, listener, record, ghosts, bounds>>

\* The server did not return an item: the callback ends there, and the queue is
\* left as it is.  A mistake: it is emptied all the same.
StopAndClear(r, broken) ==
  /\ broken \/ failures + restarts < MaxFaults
  /\ failures' = IF broken THEN failures ELSE failures + 1
  /\ failed' = failed \cup {r}
  /\ Becomes(r, [clearing[r] EXCEPT !.step = "clear"])
Stop(r, broken) ==
  /\ broken \/ failures + restarts < MaxFaults
  /\ failures' = IF broken THEN failures ELSE failures + 1
  /\ failed' = failed \cup {r}
  /\ Becomes(r, Idle)

\* get_recently_added_item.  A mistake: nobody looks.
Blind(i) == FALSE
AddedAlready(i) == i \in recorded

\* on_created up to the notification.
Announce(r) ==
  LET process == clearing[r]
      i == process.item
      notify == process.group \/ ~AddedAlready(i)
      below == IF process.group THEN Below(queue, i) ELSE {}
  IN /\ process.step = "announce"
     /\ \/ /\ i \in library
           /\ IF notify
              THEN /\ told' = told \cup {i} \cup below \cup UNION {Below(queue, c) : c \in below}
                   /\ alone' = IF process.group THEN alone ELSE [alone EXCEPT ![i] = @ + 1]
              ELSE UNCHANGED <<told, alone>>
           /\ Becomes(r, [process EXCEPT !.step = "record", !.keys = {i} \cup below])
           /\ UNCHANGED <<failed, failures>>
        \/ Stop(r, i \notin library) /\ UNCHANGED <<told, alone>>
     /\ UNCHANGED <<server, queue, jobs, listener, recorded, late, created, deleted,
                    restarts>>

\* set_recently_added_item, which asks the server again for every key.
Record(r) ==
  LET process == clearing[r] IN
  /\ process.step = "record"
  /\ \/ /\ process.keys \subseteq library
        /\ recorded' = recorded \cup process.keys
        /\ Becomes(r, [process EXCEPT !.step = process.back, !.item = r, !.group = FALSE,
                                      !.keys = {}, !.back = "clear"])
        /\ UNCHANGED <<failed, failures>>
     \/ \E done \in SUBSET (process.keys \cap library) \ {process.keys} :
          /\ done # {} => process.item \in done
          /\ Stop(r, process.keys \ library # {})
          /\ recorded' = recorded \cup done
  /\ UNCHANGED <<server, queue, jobs, listener, told, alone, late, created, deleted,
                    restarts>>

Clear(r) ==
  /\ clearing[r].step = "clear"
  /\ queue' = DelKeys(queue, r)
  /\ Becomes(r, Idle)
  /\ UNCHANGED <<server, jobs, listener, record, ghosts, bounds>>

Work(r) == NextSeason(r) \/ NextEpisode(r) \/ Announce(r) \/ Record(r) \/ Clear(r)

\* The queue and the jobs are in memory only.
Restart ==
  /\ failures + restarts < MaxFaults
  /\ restarts' = restarts + 1
  /\ late' = late \cup {i \in Item : RootOf(i) \in DOMAIN queue}
  /\ queue' = [x \in {} |-> {}]
  /\ jobs' = {}
  /\ listener' = Free
  /\ clearing' = [r \in Root |-> Idle]
  /\ UNCHANGED <<server, record, failed, created, deleted, failures>>

-----------------------------------------------------------------------------
Init ==
  /\ library = {}
  /\ gone = {}
  /\ queue = [x \in {} |-> {}]
  /\ jobs = {}
  /\ listener = Free
  /\ clearing = [r \in Root |-> Idle]
  /\ recorded = {}
  /\ told = {}
  /\ alone = [i \in Item |-> 0]
  /\ late = {}
  /\ failed = {}
  /\ created = 0
  /\ deleted = 0
  /\ failures = 0
  /\ restarts = 0

Next ==
  \/ \E i \in Item : Vanish(i) \/ Created(i) \/ Deleted(i)
  \/ LookForJob
  \/ Schedule
  \/ \E r \in Root : Fire(r) \/ Work(r)
  \/ Restart

\* The listener finishes its event, due jobs are run and threads go on; nothing
\* is assumed of the server's events.
Fairness ==
  /\ WF_vars(LookForJob \/ Schedule)
  /\ \A r \in Root : WF_vars(Fire(r)) /\ WF_vars(Work(r))

Spec == Init /\ [][Next]_vars /\ Fairness

-----------------------------------------------------------------------------
(***************************************************************************)
(* Properties.                                                             *)
(***************************************************************************)
\* What is in the queue for an item that nobody was told of yet.
Waiting(i) ==
  /\ i \in library
  /\ i \notin told \cup recorded
  /\ \/ i \in DOMAIN queue /\ (i \in Episode \/ queue[i] = {})
     \/ i \in Season /\ i \in Below(queue, Parent[i]) /\ Below(queue, i) = {}

\* Types; the queue's keys are what process() builds: an episode's key never
\* stands alone, and every season with episodes hangs below its root.
TypeOK ==
  /\ library \subseteq Item
  /\ DOMAIN queue \subseteq Item
  /\ \A i \in DOMAIN queue :
       /\ i \in Root => queue[i] \subseteq {s \in Season : Parent[s] = i}
       /\ i \in Season => /\ queue[i] \subseteq {e \in Episode : Parent[e] = i}
                          /\ queue[i] # {} /\ i \in Below(queue, Parent[i])
       /\ i \in Episode => queue[i] = {RootOf(i)} /\ i \in Below(queue, Parent[i])
  /\ jobs \subseteq Root
  /\ listener.step \in {"free", "look", "act"}
  /\ \A r \in Root :
       clearing[r].step \in {"idle", "seasons", "episodes", "announce", "record", "clear"}
  /\ recorded \cup told \cup late \subseteq Item
  /\ alone \in [Item -> Nat]

\* An item is announced on its own once, however often the server reports it
\* and whichever callback comes to it; only a request that failed, or a death,
\* between the notification and its record lets one through again.
TwiceNeedsFailure ==
  \A i \in Item : alone[i] <= 1 + failures + restarts

\* What is queued has somebody to announce it: the job, the listener that is
\* about to set it, or the callback.  Only a callback that the server's answer
\* stopped, or one that an item's arrival overtook, leaves something behind.
QueuedIsScheduled ==
  \A r \in Root : r \in DOMAIN queue =>
    \/ r \in jobs
    \/ listener.step # "free" /\ listener.root = r
    \/ Busy(r)
    \/ r \in failed
    \/ \E i \in late : RootOf(i) = r

\* The job does not empty the queue of an item it has not announced, unless the
\* item arrived while it was at work.
Queued(q, i) == i \in DOMAIN q \/ (i \notin Root /\ i \in Below(q, Parent[i]))
DroppedWasTold ==
  [][\A i \in Item : Waiting(i) /\ i \notin late' => Queued(queue', i) \/ i \in told' \cup gone']_vars

\* A new item does not wait for ever: it is announced, if it stays, came when its
\* root was not being cleared, and no item of its root was missing from the
\* server.
AddedIsAnnounced ==
  \A i \in Item : Waiting(i) ~> ~Waiting(i) \/ i \in late \/ RootOf(i) \in failed
=============================================================================
