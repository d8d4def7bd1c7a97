# Tautulli (camcoreau) in TLA+

TLA+ models, TLC runs and TLAPS proofs of the parts of this repository whose
correctness depends on order: threads that share the `sessions` table without a
common lock, listeners that share the connection to the server, and two programs
that together must not send a member too many messages. The models are translated from the source; `PROJECT.json` names the
source lines of every definition, the runs, the hazards and the theorems.

    tlc -workers 2 -config session_threads.cfg MCSessionMonitor   # one run
    tlapm NotificationGate_proofs.tla                             # the proofs

## 1. Inventory

### Tautulli, the monitor (`src/plexpy`)

| Component | State | Operations | What must hold |
|---|---|---|---|
| Session monitor: `activity_handler.py` (ActivityHandler, force_stop_stream), `activity_processor.py`, `activity_pinger.py` | `sessions` table, `session_history`, one-shot jobs of ACTIVITY_SCHED, the metadata cache | websocket events, timer jobs, the check of all sessions at start-up and reconnection, history write, retry and give-up | every play is recorded or accounted for; once; retried until the attempts are used up; a vanished client's row goes in the end; a recorded play is announced |
| Websocket supervisor: `web_socket.py` | WS_CONNECTED, ws_shutdown, pong counter and timer, PLEX_SERVER_UP, the on_intdown job | connect, reconnect, ping, lost connection, shutdown | somebody listens or looks for the server; a server that stays is found; down and up notifications alternate; a short outage is not announced |
| Recently added: TimelineHandler, clear_recently_added_queue | RECENTLY_ADDED_QUEUE, jobs per root, the recently_added table | timeline events, delayed flush | an added item is announced, and once; what is queued has a job; the flush drops nothing it did not announce |
| Reachability: ReachabilityHandler | the on_extdown job, remote-access state | reachability events | as for the server's up and down |
| Notifications: `notification_handler.py`, `notifiers.py` | NOTIFY_QUEUE, notify_log | enqueue, worker threads, conditions | each enabled agent gets each event once |
| Newsletters: `newsletters.py`, `newsletter_handler.py` | cron jobs, newsletter log | schedule, render, send | a job per active newsletter |
| Play grouping: group_history, regroup_history in `activity_processor.py` | reference ids of the history | group one play, regroup all | an entry is one user's plays of one item; a play joins by the rule and no other; each written play has an entry |
| Process and scheduler: `__init__.py`, `config.py` | SCHED, configuration | start, shut down, reschedule | jobs follow the connection's state |
| Database: `database.py` | SQLite, db_lock | select, action, upsert | a statement is atomic; an upsert is two |
| Plex clients, users, libraries, tables, exporter, web interface, API, import, update check, platform glue | — | requests, queries, conversions | formatting and I/O |

The threads: the websocket listener handles one event at a time; the scheduler's
pool runs jobs; the check runs in the thread that starts the listener; web
request threads and queue workers come and go. They meet in the database and in
module globals. A row of `sessions` is read, kept across requests to the server,
and written back or deleted later.

### The account audit (`src/camcore-account-audit`, `src/youtrack-app`, `src/youtrack-workflows`)

| Component | State | Operations | What must hold |
|---|---|---|---|
| Audit worker: `audit.py` | registry file (users, permit history, gate, baseline), its lock | one cycle: observe, suppress pass, permits | an attempt is on disk before it is made; attempts are a window apart; onboarding is confirmed only by proof |
| App endpoint: `account-sync.js` | AppGlobalStorage list of reservations, the tickets | suppress (read-only), permit (one transaction) | at most the limit of notifications in any window; one welcome per member |
| Audit runner: `runner.py` | the provisioning breaker, consecutive failures | schedule, provision reporters, stop | a questionable account stops the process; one account per member |
| Review workflow: `cma-account-review/*.js`, account-sync.js's decision | stage, Outcome, State, delivery state of the message | decisions, rules on change, replies, catch-up rules | a stage is left only after its message and the promised time; each message once; repair is silent |
| Due-date notifications | issue fields | one scheduled rule | — |

The worker talks to the app by HTTP; an answer may be lost after the app has
committed. YouTrack rejects one of two transactions that changed the same
storage, and the worker repeats only that case.

### What is hard

Interleavings without a lock (listener, timer job, check); state read before a
request and used after it; death between the history write and the removal of
the row; jobs that live in memory only; events handled late; retries that meet
the next event; two permit transactions that saw the same budget; a timeout
whose request is committed later; clocks that disagree; an old storage format;
rules that run in any order within a transaction; a queue the listener fills
while a job empties it; a directory that changes between its pages; a row that
is on disk before its description.
`PROJECT.json` lists them by line under "hazards", each with the properties that
watch it, or the reason none does.

## 2. Modules and plan

| Module | Models | Status |
|---|---|---|
| `SessionMonitor` | the life of a stream in the `sessions` table | done |
| `SessionMonitor_proofs` | its types; no row is lost; rows are given up only after all attempts; with one thread at a time on a key, no play is written twice and no stream loses its timer | proved |
| `MCSessionMonitor` | its instances | done |
| `NotificationBudget` | abstract: what the notification gate promises | done |
| `NotificationBudget_proofs` | the promise follows from the rule | proved |
| `NotificationGate` | worker cycle, registry, permit transaction | done |
| `NotificationGate_proofs` | types, implementation of the budget, reservations, attempts, welcomes, onboarding, completed requests | proved |
| `MCNotificationGate` | its clocks and symmetry | done |
| `OutageNotices` | abstract: what a user is told of outages | done |
| `WebSocketSupervisor` | connection, ping/pong, server up/down, listener threads | done |
| `WebSocketSupervisor_proofs` | its types; somebody always watches; one listener implements the notices, which alternate | proved |
| `MCWebSocketSupervisor` | its instances | done |
| `ReviewPromises` | abstract: when the audit may move an account on | done |
| `ReviewLifecycle` | a ticket's stages, rules, messages and repairs | done |
| `ReviewLifecycle_proofs` | its types; one post per delivery, one message per request, a silent repair; it implements the promises | proved |
| `RecentlyAdded` | the queue of added items and its delayed jobs | done |
| `RecentlyAdded_proofs` | its types; announced once; what is queued is scheduled; what is dropped was told | proved |
| `ReporterProvisioning` | lookup, creation and check of a reporter, and the breaker | done |
| `ReporterProvisioning_proofs` | its types and three safety properties | proved |
| `PlayGrouping` | history rows, the grouping of one play and of all | done |
| `PlayGrouping_proofs` | its types; an entry is one user's plays of one item; the rule holds; no play is without an entry | proved |
| `MCReviewLifecycle`, `MCRecentlyAdded`, `MCReporterProvisioning`, `MCPlayGrouping` | their instances | done |
| `NotifyQueue` | queue, workers, notify log | plan, 1 |
| `RemoteAccess` | reachability events and the on_extdown job | plan, 2 |
| `NewsletterJobs` | newsletter jobs against the configuration | plan, 3 |

Where a reconnection overlaps the old listener, `SessionMonitor` has a constant
set `Listener` and `WebSocketSupervisor` a set `Thread`. The gate's two halves,
worker and app, are composed in one module because their order is the property.
Each invariant and each action property that a run checks is also a theorem
(section 11). Theorems planned next: what the modules of the plan promise.

## 3. SessionMonitor

*State.* `table` is the `sessions` table, a function from ids to rows of session
key, item (rating key), state, whether the paused time is set, and write
attempts; `next` is SQLite's next id. `jobs` are the pending force_stop_stream
jobs. `listener[l].todo` lists what is left of the handler of one event, `row`
is the copy of the database row the handler holds and `live` the last session it
saw at the server. `callback[k]` is a running force_stop_stream, `pinger` a
running check_active_sessions. `playing` is the server's session list.
`history`, `skipped`, `announced`, `abandoned` and `flushed` record what became
of each row.

*Actions.* `Receive` is ActivityHandler.process up to the choice of the handler;
the steps after it are cut where a handler asks the server (`look`, `start`,
`update`) and around the history write (`settle`, `record`, `finish`), because
there other threads run. `Fire`, `CallbackRecord`, `CallbackFinish` are
force_stop_stream; `PingerList` to `PingerDone` the check; `Restart` and
`Reconnect` start it again. `Plays` is the server and external. A write of
several columns by one statement is one step (db_lock). The upserts that key on
the session key alone insert a bare row when there is none, as the code does,
and change all rows of the key when there are several. A bare row has neither
rating key nor live uuid: an event of any item counts as one of the same item, a
stop event raises in on_stop, and the check closes the row.

*Exceptions.* `HandlerRaises` and `CallbackRaises` end a handler or a job at any
cut, `PingerRaises` the check, with the sessions emptied as start_thread does.
Around the history write an exception comes before the play is in the history or
after it (`RecordRaises`), because what follows the INSERT is done in other
transactions (`PlayGrouping`), and with or without the state that
write_session_history gives the row first. Nothing is undone: the row stays, and a
job or handler that dies sets no timer. `breaks` counts them.

*Runs.*

| Run | Shows | Bounds |
|---|---|---|
| `session_threads` | `TypeOK`, `NothingLost` with listener, timer and check free to meet | 1 key of a DLNA client, 2 items (one not logged), 2 events, 2 failed writes, 1 restart, 1 exception |
| `session_listeners` | `NothingLost`, `GivenUpOnlyAfterAllAttempts` with two listeners alive | 1 item, 2 events, 2 failures, 1 reconnection, 1 exception |
| `session_stale` | `DuplicatesNeedInterruption`, `StaleStreamWatched`, `StreamEventuallyClosed` with one listener | 2 items, events that report playing, paused or stopped, 2 events, 2 failures, 1 restart, 1 exception |

Keys do not share rows, jobs or callbacks, so one key carries every interference
except the check's list of several rows, which two items of one key provide. Two
failures with two attempts allowed are the fewest that reach both retry and
give-up; two events reach a start and a stop, or a start and a change of item,
which closes the first row; one exception and one death can hit the same row.
`TimerRaces = FALSE` says that a job does not fire while an event of its key is
being handled or while the check runs. The timer is set five minutes ahead by each event,
so this is what normally happens; `session_threads` and `session_listeners` do
without it. `DuplicatesNeedInterruption` and `StaleStreamWatched` need it, and one
listener: with a second listener, or with a timer that fires during an event, TLC
finds a play written twice, and a row that the event writes again after the timer
removed it, with no timer.
`timed` are the keys whose timer was set for all of their rows. When a thread closes
a row and another row of the session, of an item it had moved to, outlives it, the
timer is gone with the first: such a key leaves `timed` (`Outlives`), and section 10
has the counterexample to the unrestricted statement (`EveryStreamWatched`). A key
whose handler or job an exception ended leaves `timed` as well, unless a job is still
pending (`Untimed`): the retry of a one-shot job is lost with it, and the row waits
for the next event or a restart.

*Fairness.* A thread that has work goes on (weak fairness of each listener's
steps, each callback, the check), and a due job is run by the scheduler. Nothing
is assumed of the server, of events, of failures, exceptions or restarts; failures are
bounded, which stands for a database that is not broken for ever.

What the model shows beyond these runs is in section 10.

## 4. NotificationBudget and NotificationGate

*The promise.* `NotificationBudget` releases notifications one by one, each dated
no earlier than the ones before, and only when fewer than `Limit` of them are
younger than `Window`. `RollingBudget`: no window holds more than `Limit`.

*State of the gate.* `storage` is the app's list; `sent` everything ever
committed; `inflight` the permit requests the server has not answered, which
survive the worker's timeout; `registry[w]` the file and `worker[w]` the process
with its copy `mem` of it, the candidates found, and where it is in the cycle.
`attempts` records every reservation saved. Times are ticks; each worker reads a
clock given by `Reading`, and accepts a reservation up to `Skew` ahead of it
(MAX_FUTURE_CLOCK_SKEW); one further ahead ends the cycle (`FromTheFuture`). Tickets are abstracted to none, a quiet stage or a
stage that releases messages; the decisions that depend on facts of the account
are a choice in `Plans`.

*Actions.* `StartCycle` (lock, inventory, handshake, load, observe), `Suppress`
one account, `OpenPermits` (clock, budget, candidates free), `DryRun`, `Choose`
(priority, reservation saved), `Post`, `TakeReceipt`, `TakeConflict`, `Timeout`,
`NoneLeft`, `Crash`. The app: `Begin` reads clock, list and ticket; `Commit`
writes reservation and ticket if the list is still what it read; `Decline`;
`Conflict`; `Lose` for what fails or gets lost. `MoveTicket` is staff and the
workflows, `Tick` the server's clock; both are external. Two workers stand for
two registries (another installation, a restored backup); on one registry the
lock lets one process run.

*Runs.*

| Run | Shows | Bounds |
|---|---|---|
| `gate_budget` | `RollingBudget`, `KeepsBudget` (refinement), `WelcomedOnce` | 2 workers, 1 member, limit 1, window 2, time 0..2, 2 cycles, 1 move |
| `gate_registry` | `ReservedBeforeSent`, `AttemptsApart`, `AttemptsBudget`, `OnboardedHasTicket`, `CompletedIsDeterminate`, `TypeOK` | 1 worker, 3 members (symmetric), limit 2, window 2, worker's clock reads 1..3, `Skew` 1, 2 cycles |

In `gate_budget` two requests compete for the one place, and time 0..2 with
window 2 reaches the tick at which a reservation expires. In `gate_registry` the
limit binds with members to spare, so the per-member spacing and the budget can
each be exceeded alone; the worker's clock goes from one reading to any other,
back by one tick, which the worker tolerates, and by two, which it does not,
and the server's clock, which the worker never sees, stands still. The first
state has registries with and without a completed baseline: a member can be new
only to the former. The theorems cover every other limit and size. The limit is a constant: the app
advertises 15, where two of the repository's READMEs speak of one in any 24 hours. No liveness is claimed: a candidate may starve
behind others, and the code promises nothing else.

## 5. OutageNotices and WebSocketSupervisor

*The rule.* `OutageNotices`: an outage is announced once it has lasted for the
threshold, and its end only if the outage lasted that long or was there at the start. The
announcement takes time (`announcing`) and its end does not wait for it.

*State.* `connected`, `ws_shutdown`, `serverUp`, `socket` are the module globals
and WEBSOCKET; `open` are the connections this side takes for open, by number.
`thread[t]` is where run() is in a listener thread, with the connection it reads
and its reconnection counter; `starter` a running connect_server, `settings` a
request that changes the server. `pong` is the pong timer and counter: `strays`
are timers a later ping replaced, `closing` a timer's thread inside close().
`jobs` are the three scheduled jobs that matter, `asking` says that on_intdown runs
and waits for plex.tv, `notices` is what was queued.

*Actions.* The steps of a listener (`Begin` to `Settle`) are cut at every read or
write of a global that another thread writes: run() between resetting
ws_shutdown, opening, and each look at WS_CONNECTED; close() between closing and
resetting WS_CONNECTED, for the closing handshake waits. `Lost` is receive()
raising, with the two handlers and ws_shutdown; `Retry` an attempt, which need
not succeed and leaves WS_CONNECTED as it is. `ConnectJob` and `StartThread`
start listeners, `SwitchServer` and `Shutdown` are reconnect(), `PingJob`,
`WaitPong` and `PongClosed` send_ping and wait_pong. `FireDown` is the scheduler,
which takes the job of on_intdown away before it runs it, and `SayDown` the end of
on_intdown, after notify_token_expired: in between a connection finds no job. A job
that is due while another on_intdown runs is skipped (max_instances is one).
notify_token_expired answers when plex.tv does not: http_handler.py:166-185 catches
what a request raises. `GoAway` and `ComeBack` are
the server and external.

*Runs.*

| Run | Shows | Bounds |
|---|---|---|
| `supervisor_single` | `KeepsNotices` (refinement), `OutageIsAnnounced`, `ServerIsFound` | 1 listener, ping and pong on, 3 outages, 2 attempts |
| `supervisor_switch` | `Supervised`, `ServerIsFound` while an old listener and a new one share the globals | 2 listeners, no ping and pong (the default), 2 outages, 1 change or rescheduling, 1 attempt |

Two attempts reach both a retry and giving up, and both one missed pong and too
many; three outages let notices alternate beyond one outage. Beside a second
listener one attempt is enough: it fails, or it connects and is lost. The refinement maps a listener
that has noted a change of the server and not yet acted on it to the state before.

What is assumed of time: the job starts a listener only when earlier attempts, a pong's timer
and a closing handshake are over (30 seconds against 15, 5 and 3), the first
ping comes before the ping job's, an event is handled within the five seconds of
a pong, and the threshold does not pass between the two calls that cancel the
notice. `EarlyEnd = FALSE` says that a connection lives until its first ping;
section 10 says what happens without it.

*Fairness.* Threads go on, due jobs and timers run, requests are finished. The
read of a dead connection ends (PMS_TIMEOUT), and a live server sends frames.
Nothing is assumed of the server: `ServerIsFound` speaks of one that stays.

## 6. ReviewPromises and ReviewLifecycle

*The promise.* `ReviewPromises` has a stage, when its message was posted during
this visit, and who made the last change. The audit goes from a stage to the
next only when the message was posted and the whole promised time has passed
since; the reporter and the repair only end a review; staff may do anything.

*State.* `ticket` is the issue: its stage, Status, Outcome and State, the fields
the audit sets, and the delivery state the workflow keeps (`observed`,
`sequence`, `pending`, `delivered`, `deliveredAt`, `suppressed`). `comments` are
the messages posted. `due` are the on-change rules the running transaction still
has to run, in any order, and `before` what an exception takes everything back to.

*Actions.* `Sync` is a permitted request of the audit (planReviewDecision,
applyFacts, the confirmation), `Reply` a member's comment, `Staff` a change by
hand, `Repair` lifecycle-catchup, `CatchUp` communication-catchup, which may run and
is promised nothing: the workflow's README (lines 100 and 119) keeps it detached for now.
`RunLifecycle`, `RunMessage` and `RunBridge` are the rules of a stage change and
of a confirmation; the bridge calls the notice's and the deadlines' transitions
in the order of the code. Each may raise where the code posts, for posting can fail.

| Run | Shows | Bounds |
|---|---|---|
| `review_promises` | `TypeOK`, `OncePerDelivery`, `KeepsPromises` (refinement), `OneMessagePerRequest`, `RepairIsSilent`, `ComesInOrder` | one ticket, or none at first, or one without a stage; time 1..5, 5 requests, 2 replies, streams or changes by staff |

Tickets do not share state, so one carries everything. The waits are shortened (2, 1 and 1
ticks, a day of two ticks, a confirmation fresh for two) with their order kept: a confirmation is fresh for no
longer than the shortest pair of stages lasts, and five requests in five ticks
go from the new ticket to Removal Due. Of the stages staff set, Final Reminder is gated but left alone by
the stage rule and Access Removed is an outcome; the stages the audit sets itself are gated and counted. A new ticket's Outcome is unset; dates for display
and the reason of a removal are left out. A request reads its facts and is
applied within one tick. *Fairness*: transactions end and the hourly repair
runs; nothing is assumed of the retry, the audit, members and staff. `ComesInOrder`
speaks of Outcome and State, which the repair settles; a message that waits for the retry
has no such promise.

## 7. RecentlyAdded

*State.* `queue` is RECENTLY_ADDED_QUEUE, from a key to the keys below it;
`jobs` the roots with a pending job; `listener` what is left of the handler of
one event; `clearing[r]` the running clear_recently_added_queue with its loop
variables; `recorded` the recently_added table. `told` and `alone` record what
was announced, `late` the items the code may drop: queued while their root was
being cleared, or in memory when the process died.

*Actions.* `Created` and `Deleted` are the handler's two branches up to
schedule_callback, whose question (`LookForJob`) and answer (`Schedule`) are
apart; `Fire` starts the job, `NextSeason` and `NextEpisode` are the loops over
the live sets, which raise when a set changes its size, `Announce` and `Record`
on_created and set_recently_added_item, each of which asks the server and stops
when it returns nothing, `Clear` del_keys. `Restart` loses queue and jobs.

| Run | Shows | Bounds |
|---|---|---|
| `recently_queue` | `TypeOK`, `TwiceNeedsFailure`, `QueuedIsScheduled`, `DroppedWasTold`, `AddedIsAnnounced` | a show of two seasons, one with two episodes; 3 events, 1 deletion, 1 failed request or restart; grouped by season |

Two episodes are the fewest that form a group, and the other season the fewest
that leave one item alone; three events queue a group, an
item beside it and one more while the job runs. Roots share nothing but the
dictionary, whose keys are apart. The delay (60 seconds at least) is taken to be
longer than the clearing of one root; the listener's update of the dictionary is
one step; a failing upsert is left out; a deleted key is not used again.
`AddedIsAnnounced` and `DroppedWasTold` except `late` items, which the job
really drops when it empties the root's part of the queue, and roots where the
server did not return an item. Such a root keeps its queue, and an item that was
deleted stays in it, so with grouping off the job stops at it again each time
until a restart. *Fairness*: the listener finishes its event, due jobs run.

## 8. ReporterProvisioning

*State.* `directory` is YouTrack's list of accounts in the order of its pages,
`posts` every creation sent, with what the server did and what the worker learnt
of it; `worker` the step, the member at hand, the page and what it has seen;
`todo` the members this cycle has not asked about, `count` and `tripped` the
cycle's budget and the breaker. A member stands for its email.

*Actions.* `Ask` is the request that finds no unique account; `ReadPage`,
`Keep`, `Post` the lookup and its end; `Told`, `NotTold`, `ReadBack` the
creation; `AskAgain` the second plan. `Answer` is the server, which may carry
out a creation after the worker gave up, may make something else than was asked
for and may say so or not. `Arrive` and `Leave` are others who change the directory.

| Run | Shows | Bounds |
|---|---|---|
| `reporter_accounts` | `TypeOK`, `BreakerHolds`, `OneAccountPerMember`, `DuplicateNeedsRace` | 2 members (symmetric), pages of 2, up to 3 pages, 1 account a cycle, 2 cycles, 1 restart, 1 failed request, 1 change by others |
| `reporter_questionable` | a process that leaves two questionable accounts | finding |

Pages of two make three accounts take two pages, so a removal can move an
account from a page not yet read to one that was. Two cycles and a restart let a
late creation meet the next cycle's and the next process's. That a login is
taken once is the server's. An answer that is not JSON is a timeout; whether
emails are visible is fixed for a run.

*Finding.* The README of the audit says that a process makes at most one
questionable account. `reporter_questionable`: a creation whose answer does not
come in time is not checked at all, so the next member's creation can be
questionable as well. `BreakerHolds` states what the code does keep. The budget,
for the same reason, counts only the accounts the worker was told of. An account
that duplicates an email keeps its member out, for the app matches unique emails only.

## 9. PlayGrouping

*State.* `rows` is the history on disk, from ids (AUTOINCREMENT, never reused)
to user, item, position, reference, whether the metadata is there and whether
the row is older than a day; `plays` what every id was. `writer[t]` is a thread
in write_session_history, `regroup` the walk of regroup_history. `upset` says
that something came between a grouping and its rule.

*Actions.* `Insert`, `Select`, `Update`, `Describe` are the statements of a
history write, cut at each for another thread may write between; `Break` is a
statement that fails, or the end of the process. `StartRegroup` to `EndRegroup` group every
row with metadata again, in the order of ids. `Delete`, `Configure` and `Day`
are the administrator and the clock. The percentage and the markers are both a
position compared with a `threshold`.

| Run | Shows | Bounds |
|---|---|---|
| `history_grouping` | `TypeOK`, `EntryIsOneTitle`, `AlwaysReferred`, `GroupedByRule` | 2 writers and 2 users (symmetric), an item and a live programme, 2 positions, 2 thresholds, 3 rows, 2 troubles, 1 regrouping |

Three rows are the fewest in which a row joins one that joined before; two
troubles let a deletion meet a failure. `GroupedByRule` is for items of a
library; live programmes join only within a day, and regrouping asks the same of
the day it runs, so rows older than a day lose their entry (`RegroupKeepsLive`
states that they should not; it is not among the runs). A missing reference, which a
half-written row leaves, is copied onwards by grouping and not repaired by
regrouping; `AlwaysReferred` says exactly when. Each regrouping request starts
a thread of its own; that two overlap is left out.

## 10. Counterexamples kept beside the runs

These configurations each check one statement of a comment, a document or a test
that the model does not keep. They are not in the list of runs; each is run like the others.

| Configuration | What it shows |
|---|---|
| `session_late_event` | an event handled late leaves a second row under the key without a timer (`EveryStreamWatched`) |
| `session_unannounced` | a play is recorded without on_stop (`RecordedIsAnnounced`) |
| `session_dlna` | the second look at a DLNA client cannot find the session gone (`BrowsingIsNotAStream`) |
| `gate_receipts` | a receipt the app gives and the worker refuses in every cycle (`ReceiptsAccepted`) |
| `supervisor_ping` | a connection that ends before its first ping leaves nobody looking for the server (`Supervised`, with `EarlyEnd = TRUE`) |
| `review_welcome` | a welcomed member's first public message is not the inactivity notice (`WelcomedStaysQuiet`) |

What follows needs no configuration of its own, only other constants or another
property in one of the runs.

- *A play is written twice.* `session_stale` with `TimerRaces = TRUE`, or with two
  listeners: the stop event and the timer of a session, or two stop events, each
  hold a copy of the row and write it (`DuplicatesNeedInterruption`).
- *A retry is lost.* An exception out of the history write of a one-shot job ends the
  job before increment_write_attempts and the next timer. The row stays without a
  timer until the next event of its session or a restart; it is what `Untimed` excuses.
- *"Down" after "back".* An outage passes its threshold, the job of on_intdown is
  taken and on_intdown asks plex.tv; the server comes back, on_connect finds no job
  and queues on_intup; then on_intdown queues its own. While the server is up the
  last a user reads is that it is down, and the next outage says so again: `UpToDate`
  and `Alternating` of `OutageNotices`, checked in `supervisor_single` through `Told`,
  fail so in 25 states.

## 11. What is proved

All with no assumption but the types of the constants and the
hypotheses named below (`Proper`, `GateAssumption`, `ProvisioningAssumption`, `GroupingAssumption`,
`SessionAssumption`, `ReviewAssumption` and so on, and `Serial`: finitely many members, positive limits, windows,
waiting periods and attempts, clocks that read positive numbers, members and markers apart, no item
both a library title and a live programme).

- `BudgetHolds`: `Budget => []RollingBudget`. A release raises its own window by
  one, below the limit, and no earlier window contains it.
- `GateTypeOK`: `Spec => []TypeOK`, one lemma per action. `TypeOK` alone is
  not inductive: the number of a reservation is a cardinality, so `sent` must be
  finite, which `Numbered` adds.
- `GateKeepsBudget`: `Spec => KeepsBudget`, and `GateRollingBudget`:
  `Spec => []RollingBudget`. `BudgetInv` strengthens the types by three facts.
  `Numbered`: `sent` is finite and nothing is dated in the future. `Forgotten`:
  an entry the list dropped is a window older than some entry it still holds;
  without it the list could forget a reservation that counts. `Snapshot`: an open
  transaction is dated no earlier than all it read. At a commit the list is still
  what was read, hence what the list holds of the window is all of `sent` in the
  window (`ActiveIsRecent`), and the commit is a `Release`; every other step
  leaves the budget alone.
- `GateReservedBeforeSent`: `Spec => []ReservedBeforeSent`. Alone it says nothing
  of the worker about to ask. `ReserveInv` adds, for each process and its file
  (`Fits`): while a cycle runs, the copy in memory has the file's reservations,
  and the file's gate is not from a later cycle; from `Choose` on, the file holds
  the member's reservation of this cycle. `Choose` writes that file in the step
  that makes `Post` possible, so a crash in between loses a permit, never a
  reservation; the other steps reserve nothing, and no step takes one back.

- `TypeCorrect`, `WatchCorrect`, `NoticesCorrect`, `NoticesAlternate` and
  `NoticesUpToDate` of `WebSocketSupervisor`, for any number of threads. `WatchCorrect`
  is stated for `~PingPong`, the default, because with pings it is false: that is the
  counterexample of `supervisor_ping`. `WatchInv` says that a thread follows every
  `ws_shutdown`, that somebody serves a connection taken for live, and that at least
  one thread lives or the job does. `NoticesCorrect` is stated for behaviours without
  a `SwitchServer` step: a second listener notes outages by itself, and the two
  together follow no rule. Without that step one thread at most is past the start
  ((`OneListener`), the job of the notice is armed exactly while the outage waits
  (`NotedInv`), and every step is one of the rule's or stutters (`Follows`). That the
  notices alternate and are up to date is proved for behaviours in which, besides, the
  server does not come back while on_intdown asks plex.tv (`InOrder`); section 10 has
  what happens otherwise. It follows from the rule: an outage that waits has not been
  announced, one that does not wait is being announced, was announced or was found at
  the start.

- `GateAttemptsApart` and `GateAttemptsBudget`: `Spec => []AttemptsApart`,
  `Spec => []AttemptsBudget`. `AttemptInv`: the registry file remembers every
  attempt that was made. A reservation may be later than the time the worker asks at,
  by the tolerance or by any amount: while it is ahead it counts as in the window, so
  its member is not free and it takes a place of the budget. The
  budget then follows by an injection of the counted attempts into those the file
  holds in the window.
- `GateWelcomedOnce`, `GateOnboardedHasTicket`, `GateCompletedIsDeterminate`: of
  an open transaction, what it read is part of what was sent, and while nobody
  disturbed the list it is all of it; a file knows a member only through a
  proof the app gave (`Known`, `Knows`); of the requests of a member at most the
  one the worker waits for has no fate yet (`FateOf`).
- `TypeCorrect`, `BreakerCorrect`, `OneAccountCorrect`, `NoDuplicateAlone` of
  `ReporterProvisioning`. `ProvisioningInv` adds: an account a creation made has
  that creation's login (`AccountInv`); while nobody overtakes it, a creation on its
  way, and a lookup on the pages it has read, find the email at most at accounts of
  earlier creations (`PostInv`, `LookupInv`); a creation found questionable has
  tripped its process's breaker (`VerdictInv`).
- `TypeCorrect`, `EntryCorrect`, `RuleCorrect` and `ReferredCorrect` of
  `PlayGrouping`. `GroupingInv`: a
  reference points to a row of the same user and item (`RefInv`), and so do the
  rows a thread has read and carries (`CarriedInv`); ids are never reused, so that
  stays so when rows are deleted in between. The rule needs more (`HistoryInv`): while
  nothing upset the history, the row a writer read last is still the last one of its
  item (`LiveInv`), and the rows a regrouping has passed agree with the rule already
  (`RuleInv`), whichever writer added one beside it.
- `TypeCorrect`, `OnceCorrect`, `ScheduledCorrect` and `DroppedCorrect` of
  `RecentlyAdded`. `TypeInv` describes the shape of the nested queue: an episode's key
  never stands alone, and a season with episodes hangs below its root. `OnceInv`
  charges every second announcement of an item to a failure or a death; an item a
  callback is about to announce is not recorded. `ScheduleInv` follows a root from the
  listener's look at the job to its act. The last theorem is an action property: the
  callback that removes the keys has announced each item it started from.
- `TypeCorrect`, `OnceCorrect`, `PromisesKept`, `SingleCorrect` and `SilentCorrect` of
  `ReviewLifecycle`. `Delivery` ties the posted messages to the counters: each posted
  token was counted, and the pending one is among them only if it counts as delivered,
  so a message prepared or sent is a new one. `Course` compares a running transaction
  with what it began with: at the same stage, at most one message was posted, now; at
  another one, the actor may go there (`Permitted`) and its message was posted now or
  not yet. So the bridge, which waits for a message older than now, can only escalate
  from the stage and the message that the transaction found (`BridgeCourse`), and a
  transaction ends in one step of `ReviewPromises`. `Mute` and `Single` are the parts
  for the repair and for a request's one message.
- `MonitorTypeOK`, `MonitorNothingLost` and `MonitorGivenUp` of `SessionMonitor`,
  for any number of listeners. `MonitorInv` says of every copy of a row some thread
  holds that the row was in the table and that its attempts are not ahead of the
  failed writes of its key (`Held`); that what a thread takes for saved is in the
  history or was not wanted; and that the attempts of a row together with the
  failures no thread has counted yet (`Pending`) are at most the failed writes
  (`Accounts`), without which two threads that fail at once could count an
  attempt more than was made.
- `MonitorDuplicates` and `MonitorWatched` of `SessionMonitor`, assuming `Serial`: one
  listener, and timers that race neither events nor the check. Both are false without
  it (section 3). `SerialInv`, on top of `MonitorInv`: threads that work on the same key
  exclude each other (`Alone`); every row of the table may be written once more since the
  last death or exception (`Interruptions`, `Spare`) or was just written by the one thread that will remove
  it (`Closing`); the row a thread holds before its write is in the table and may be
  written (`Minding`, `Minded`), or is one of the check's copies, each of which it has
  once (`Checkable`); the handler's key has rows and a job until its session is closed.
  `Stated` says that no row lacks a state: `set_session_last_paused`, whose upsert would
  insert one, only ever finds rows, because whoever removes them is not at work. Without
  it the time of stopping that `write_session_history` gives such a row would be an
  upsert too, which could bring back a row the check has just given up.

Only model-checked is what is beyond the prover: liveness
(`StreamEventuallyClosed`, `ServerIsFound`, `OutageIsAnnounced`, `ComesInOrder`,
`AddedIsAnnounced`), because it rests on fairness and ENABLED, and what a recursive
definition computes for every input; no module here declares a RECURSIVE operator.

## 12. What is not modelled

In the session monitor: the callbacks of scheduled markers, and the filters and
wording of notifications; the history write is one step that succeeds, is not
wanted, fails, or raises before or after the play is in the history (its statements
are `PlayGrouping`'s). An upsert is one step: two threads that both find nothing and
both insert are left out. In the supervisor: a
threshold that passes between the two calls that cancel a notice, where
remove_job raises and the listener dies; an attempt that lasts longer than the
job's interval, which starts a second listener; a death of the process. In the gate: malformed
registries, lists and answers (both sides refuse them), how accounts are read
and classified, what a ticket contains; a candidate of low priority may starve,
and the code promises nothing else. In the review: dates for display, the
wording, and YouTrack's rule engine beyond what the rules rely on.

The components of the inventory without a module are listed in `PROJECT.json`
with the reason. Most lines of this repository are vendored libraries
(`src/lib`), the handlers of single web requests, templates, tables and
conversions: a request reads, formats and returns, and what it could do wrong is
its output, which tests reach. What is left with state and order of its own is in
the plan of section 2.
