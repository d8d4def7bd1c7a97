---------------------------- MODULE SessionMonitor ----------------------------
(***************************************************************************)
(* The life of a stream in Tautulli's temporary `sessions` table, from the *)
(* websocket event that starts it to the row of `session_history` that     *)
(* records it (plexpy/activity_handler.py, activity_processor.py,          *)
(* activity_pinger.py).  Three kinds of thread work on the table without a *)
(* common lock:                                                            *)
(*   - a listener handles one websocket event at a time                    *)
(*     (ActivityHandler.process);                                          *)
(*   - the scheduler runs one-shot force_stop_stream jobs, one per session *)
(*     key, five minutes after the last event or 30 seconds after a failed *)
(*     write;                                                              *)
(*   - the pinger (check_active_sessions) compares the table with the      *)
(*     server's session list at start-up and at every reconnection.        *)
(* A handler is cut into steps where it waits for the server and around    *)
(* the write to the history; the statements between two cuts are one step. *)
(* An exception may end a handler, a job or the check at every cut, and    *)
(* within the write to the history and what follows it.                    *)
(***************************************************************************)
EXTENDS Naturals, Sequences, FiniteSets

CONSTANTS
  Key,          \* session keys of the server
  Item,         \* rating keys of what can be played (live TV, known by its uuid, is left out)
  Dlna,         \* session keys of DLNA clients
  Unlogged,     \* items whose plays are not kept (media type, too short, keep_history off)
  Listener,     \* websocket threads
  EventState,   \* states the server's events report
  NoItem,       \* rating key of a row inserted by an upsert on the session key alone
  Attempts,     \* SESSION_DB_WRITE_ATTEMPTS
  TimerRaces,   \* FALSE: a stream's timer never fires while its event is handled
  MaxEvents,    \* bound: events received
  MaxFailures,  \* bound: failed history writes of a session key
  MaxRestarts,  \* bound: restarts of the process
  MaxReconnects, \* bound: websocket reconnections
  MaxBreaks     \* bound: exceptions that end a handler or a job

State == {"playing", "paused", "buffering", "error", "stopped"}

ASSUME SessionAssumption ==
  /\ NoItem \notin Item
  /\ EventState \subseteq State
  /\ Unlogged \subseteq Item
  /\ Dlna \subseteq Key
  /\ Attempts \in Nat \ {0}
  /\ TimerRaces \in BOOLEAN
  /\ {MaxEvents, MaxFailures, MaxRestarts, MaxReconnects, MaxBreaks} \subseteq Nat

VARIABLES
  table,     \* the sessions table: its rows by id and the next id
  jobs,      \* session keys with a pending force_stop_stream job
  timed,     \* session keys whose timer was set for all of their rows, see Outlives
  listener,  \* per listener: the event, the row it holds and the steps left
  callback,  \* per session key: the running force_stop_stream, if any
  pinger,    \* the running check_active_sessions, if any
  playing,   \* the server's session list: what each session key plays, NoItem if nothing
  history,   \* session_history: the table ids of the rows recorded, in order
  skipped,   \* rows whose play was not to be logged
  failures,  \* failed writes to the history, per session key
  announced, \* rows whose on_stop notification was queued
  abandoned, \* rows removed after the last write attempt
  flushed,   \* rows removed by delete_sessions
  events, restarts, reconnects, breaks  \* bounded inputs

timers == <<jobs, timed>>
records == <<history, skipped, failures>>
fates == <<records, announced, abandoned, flushed>>
bounds == <<events, restarts, reconnects, breaks>>
vars == <<table, timers, listener, callback, pinger, playing, fates, bounds>>

NoState == "none"
Nobody == [id |-> 0]

(***************************************************************************)
(* The table.                                                              *)
(***************************************************************************)
Ids == DOMAIN table.rows
RowsOf(t, k) == {i \in DOMAIN t.rows : t.rows[i].key = k}

Lowest(S) == CHOOSE i \in S : \A j \in S : i <= j

\* get_session_by_key: the first row with the key, or none.
FirstRow(t, k) == IF RowsOf(t, k) = {} THEN Nobody ELSE t.rows[Lowest(RowsOf(t, k))]

Insert(t, k, item, state) ==
  [rows |-> [i \in DOMAIN t.rows \cup {t.next} |->
               IF i = t.next
               THEN [id |-> i, key |-> k, item |-> item, state |-> state,
                     lastPaused |-> FALSE, attempts |-> 0]
               ELSE t.rows[i]],
   next |-> t.next + 1]

Update(t, S, f(_)) ==
  [t EXCEPT !.rows = [i \in DOMAIN @ |-> IF i \in S THEN f(@[i]) ELSE @[i]]]

Delete(t, S) == [t EXCEPT !.rows = [i \in DOMAIN @ \ S |-> @[i]]]

\* delete_session(row_id=...) once the play is in the history; two mistakes.
RemoveByKey(t, row) == Delete(t, RowsOf(t, row.key))
RemoveNothing(t, row) == t
RemoveRecorded(t, row) == Delete(t, {row.id})

\* Is the write that just failed the last one allowed?  An off-by-one.
LastButOne(row) == row.attempts + 2 >= Attempts
LastAttempt(row) == row.attempts + 1 >= Attempts

\* set_session_state: an upsert on the session key alone.
SetState(t, k, state) ==
  LET set(row) == [row EXCEPT !.state = state]
  IN IF RowsOf(t, k) = {} THEN Insert(t, k, NoItem, state)
                          ELSE Update(t, RowsOf(t, k), set)

\* set_session_last_paused: an upsert on the session key alone.
SetLastPaused(t, k, paused) ==
  LET set(row) == [row EXCEPT !.lastPaused = paused]
      seen == IF RowsOf(t, k) = {} THEN Insert(t, k, NoItem, NoState) ELSE t
  IN Update(seen, RowsOf(seen, k), set)

\* write_session: an upsert on the session key and the rating key.
WriteSession(t, k, item, state) ==
  LET same == {i \in RowsOf(t, k) : t.rows[i].item = item}
      set(row) == [row EXCEPT !.state = state]
  IN IF same = {} THEN Insert(t, k, item, state) ELSE Update(t, same, set)

\* increment_write_attempts: the first row's count plus one, for every row of
\* the key.  A mistake: one for each of them.
IncrementPerRow(t, k) ==
  LET set(row) == [row EXCEPT !.attempts = @ + Cardinality(RowsOf(t, k))]
  IN Update(t, RowsOf(t, k), set)
IncrementAttempts(t, k) ==
  LET set(row) == [row EXCEPT !.attempts = FirstRow(t, k).attempts + 1]
  IN Update(t, RowsOf(t, k), set)

(***************************************************************************)
(* write_session_history for a row some thread holds.  It reports failure  *)
(* only when the metadata of a play that is to be logged is missing.  It   *)
(* may also raise, before the play is in the history or after it: what     *)
(* follows the INSERT is done in transactions of its own.                  *)
(***************************************************************************)
Logged(row) == row.item \notin Unlogged \cup {NoItem}

\* A row without a time of stopping gets one, and its state; a disconnection may
\* have given it one already.
Stamp(row) ==
  {table, IF row.state = NoState THEN SetState(table, row.key, "stopped") ELSE table}

RecordOk(row) ==
  /\ history' = IF Logged(row) THEN Append(history, row.id) ELSE history
  /\ skipped' = IF Logged(row) THEN skipped ELSE skipped \cup {row.id}
  /\ UNCHANGED failures

RecordFails(row) ==
  /\ Logged(row)
  /\ failures[row.key] < MaxFailures
  /\ failures' = [failures EXCEPT ![row.key] = @ + 1]
  /\ UNCHANGED <<history, skipped>>

RecordRaises(row) ==
  history' \in IF Logged(row) THEN {history, Append(history, row.id)} ELSE {history}

(***************************************************************************)
(* The server: sessions start, move to another item and end.               *)
(***************************************************************************)
Plays(k, item) ==
  /\ item # playing[k]
  /\ events < MaxEvents
  /\ playing' = [playing EXCEPT ![k] = item]
  /\ UNCHANGED <<table, timers, listener, callback, pinger, fates, bounds>>

(***************************************************************************)
(* A listener.  `todo` lists the steps the handler of the event has left.  *)
(***************************************************************************)
Refresh == <<"update">> \* update_db_session

\* on_start: a DLNA client's session is looked up twice.
StartSteps(k) ==
  IF k \in Dlna THEN <<"look", "start", "watchdog">> ELSE <<"start", "watchdog">>

Quiet(k) == \A l \in Listener : listener[l].todo # <<>> => listener[l].key # k
SetTimer(k) == jobs' = jobs \cup {k} /\ timed' = timed \cup {k}

\* An exception ended the handler or the job that would have set the timer again.
Untimed(k) == timed' = IF k \in jobs' THEN timed ELSE timed \ {k}

Break == breaks < MaxBreaks /\ breaks' = breaks + 1

\* What the timer of a session key closes is its first row: rows that outlive that
\* one, of items the session moved to, are not its business any more.
Outlives(k) ==
  timed' = IF RowsOf(table', k) = {} THEN timed ELSE timed \ {k}

\* The write failed: force_stop_stream tries again in 30 seconds.  A mistake.
NoRetry(k) == UNCHANGED timers
Retry(k) == SetTimer(k)

Undisturbed(k) == TimerRaces \/ (callback[k].step = "idle" /\ pinger.step = "idle")

\* A bare row's rating key and live uuid are NULL, as is the uuid of an event.
SameItem(row, item) == row.item \in {item, NoItem}

\* process(): what a changed or repeated state of the same item leads to.  on_stop
\* of a bare row raises once it set last_paused: its duration is NULL.
StateSteps(row, state) ==
  CASE state = "stopped" /\ row.state # state /\ row.item = NoItem -> <<"touch">>
    [] state = "stopped" /\ row.state # state /\ row.item # NoItem ->
         <<"settle", "record", "finish">>
    [] state = "paused" -> <<"pause">> \o Refresh
    [] state = "playing" /\ row.state # state /\ row.lastPaused -> <<"resume">> \o Refresh
    [] state = "error" /\ row.state # state -> Refresh
    [] state = "buffering" -> Refresh
    [] OTHER -> <<>>

Receive(l, k, item, state) ==
  LET row == FirstRow(table, k)
      begin(todo) ==
        listener' = [listener EXCEPT ![l] =
          IF todo = <<>> THEN [todo |-> <<>>]
          ELSE [todo |-> todo, key |-> k, state |-> state, row |-> row,
                live |-> NoItem, saved |-> FALSE]]
  IN /\ listener[l].todo = <<>>
     /\ pinger.step = "idle" \/ Cardinality(Listener) > 1
     /\ Undisturbed(k)
     /\ events < MaxEvents
     /\ events' = events + 1
     /\ \/ /\ row = Nobody
           /\ begin(IF state = "buffering" THEN <<>> ELSE StartSteps(k))
           /\ UNCHANGED timers
        \/ /\ row # Nobody
           /\ SetTimer(k)
           /\ \/ \E refresh, change \in {<<>>, Refresh} :
                   begin(refresh \o
                     (IF SameItem(row, item)
                      THEN StateSteps(row, state) \o (IF state = "stopped" THEN <<>> ELSE change)
                      ELSE <<"touch", "record", "finish">> \o StartSteps(k)))
              \* check_markers raises when the item's metadata is missing
              \/ begin(<<>>)
     /\ UNCHANGED <<table, callback, pinger, playing, fates, restarts, reconnects, breaks>>

At(l, step) == listener[l].todo # <<>> /\ Head(listener[l].todo) = step
Pop(l) == IF Len(listener[l].todo) = 1 THEN [todo |-> <<>>]
          ELSE [listener[l] EXCEPT !.todo = Tail(@)]
Advance(l) == listener' = [listener EXCEPT ![l] = Pop(l)]

\* get_live_session: what the server's session list showed the handler, which
\* keeps the last session it saw; the list may not be available.
Look(l) == {IF seen = NoItem THEN listener[l].live ELSE seen :
              seen \in {playing[listener[l].key], NoItem}}

\* update_db_session: the session, if there is one, is written, then the
\* event's state is set on every row of the key and the row is read again.
WriteLive(l, live) ==
  LET k == listener[l].key
      state == listener[l].state
      seen == IF live = NoItem THEN table ELSE WriteSession(table, k, live, state)
  IN /\ table' = SetState(seen, k, state)
     /\ listener' = [listener EXCEPT ![l] =
          IF Pop(l).todo = <<>> THEN Pop(l)
          ELSE [Pop(l) EXCEPT !.live = live, !.row = FirstRow(table', k)]]

HandlerUpdate(l) ==
  /\ At(l, "update")
  /\ \E live \in Look(l) :
       WriteLive(l, IF listener[l].live = NoItem THEN live ELSE listener[l].live)
  /\ UNCHANGED <<timers, callback, pinger, playing, fates, bounds>>

\* set_session_last_paused of on_pause, on_resume and a forced on_stop.
HandlerPaused(l) ==
  /\ At(l, "pause") \/ At(l, "resume") \/ At(l, "touch")
  /\ table' = SetLastPaused(table, listener[l].key, At(l, "pause"))
  /\ Advance(l)
  /\ UNCHANGED <<timers, callback, pinger, playing, fates, bounds>>

\* on_stop before the write: the state is set and the row is read again.
HandlerSettle(l) ==
  LET k == listener[l].key
      settled == SetState(SetLastPaused(table, k, FALSE), k, "stopped")
  IN /\ At(l, "settle")
     /\ table' = settled
     /\ listener' = [listener EXCEPT ![l] = [Pop(l) EXCEPT !.row = FirstRow(settled, k)]]
     /\ UNCHANGED <<timers, callback, pinger, playing, fates, bounds>>

HandlerRecord(l) ==
  /\ At(l, "record")
  /\ table' \in Stamp(listener[l].row)
  /\ \/ /\ RecordOk(listener[l].row)
        /\ listener' = [listener EXCEPT ![l] = [Pop(l) EXCEPT !.saved = TRUE]]
     \/ /\ RecordFails(listener[l].row)
        /\ listener' = [listener EXCEPT ![l] = [Pop(l) EXCEPT !.saved = FALSE]]
  /\ UNCHANGED <<timers, callback, pinger, playing, announced, abandoned, flushed, bounds>>

\* on_stop after the write: notify and remove the row, or retry in 30 seconds.
HandlerFinish(l) ==
  LET k == listener[l].key
      row == listener[l].row
  IN /\ At(l, "finish")
     /\ IF listener[l].saved
        THEN /\ announced' = announced \cup {row.id}
             /\ jobs' = jobs \ {k}
             /\ table' = RemoveRecorded(table, row)
             /\ Outlives(k)
        ELSE /\ Retry(k)
             /\ UNCHANGED <<table, announced>>
     /\ Advance(l)
     /\ UNCHANGED <<callback, pinger, playing, records, abandoned, flushed, bounds>>

\* on_start: nothing happens unless the handler saw the session.
HandlerLook(l) ==
  /\ At(l, "look")
  /\ \E live \in Look(l) :
       listener' = [listener EXCEPT ![l] =
         IF live = NoItem THEN [todo |-> <<>>] ELSE [Pop(l) EXCEPT !.live = live]]
  /\ UNCHANGED <<table, timers, callback, pinger, playing, fates, bounds>>

HandlerStart(l) ==
  /\ At(l, "start")
  /\ \E live \in Look(l) :
       IF live = NoItem
       THEN /\ listener' = [listener EXCEPT ![l] = [todo |-> <<>>]]
            /\ UNCHANGED table
       ELSE WriteLive(l, live)
  /\ UNCHANGED <<timers, callback, pinger, playing, fates, bounds>>

HandlerWatchdog(l) ==
  /\ At(l, "watchdog")
  /\ SetTimer(listener[l].key)
  /\ Advance(l)
  /\ UNCHANGED <<table, callback, pinger, playing, fates, bounds>>

\* An exception ends the handler; the websocket thread logs it and goes on.
HandlerRaises(l) ==
  LET k == listener[l].key
      row == listener[l].row
  IN /\ listener[l].todo # <<>>
     /\ Break
     /\ listener' = [listener EXCEPT ![l] = [todo |-> <<>>]]
     /\ \/ /\ At(l, "record")
           /\ RecordRaises(row)
           /\ table' \in Stamp(row)
           /\ UNCHANGED <<jobs, announced>>
        \/ /\ At(l, "finish") /\ listener[l].saved  \* delete_session raises
           /\ announced' = announced \cup {row.id}
           /\ jobs' = jobs \ {k}
           /\ UNCHANGED <<table, history>>
        \/ UNCHANGED <<table, history, jobs, announced>>
     /\ Untimed(k)
     /\ UNCHANGED <<callback, pinger, playing, skipped, failures, abandoned, flushed,
                    events, restarts, reconnects>>

Handle(l) ==
  \/ HandlerUpdate(l)
  \/ HandlerPaused(l)
  \/ HandlerSettle(l)
  \/ HandlerRecord(l)
  \/ HandlerFinish(l)
  \/ HandlerLook(l)
  \/ HandlerStart(l)
  \/ HandlerWatchdog(l)

(***************************************************************************)
(* force_stop_stream.  A one-shot job leaves the job store when it is      *)
(* submitted; a second one for the same id is discarded while the first    *)
(* still runs.                                                             *)
(***************************************************************************)
Idle == [step |-> "idle"]

Fire(k) ==
  LET row == FirstRow(table, k) IN
  /\ k \in jobs
  /\ jobs' = jobs \ {k}
  /\ TimerRaces \/ (Quiet(k) /\ pinger.step = "idle")
  /\ callback' = [callback EXCEPT ![k] =
       IF @.step # "idle" THEN @
       ELSE IF row = Nobody THEN Idle          \* write_session_history(None) raises
       ELSE [step |-> "record", row |-> row, saved |-> FALSE]]
  /\ UNCHANGED <<table, timed, listener, pinger, playing, fates, bounds>>

CallbackRecord(k) ==
  /\ callback[k].step = "record"
  /\ table' \in Stamp(callback[k].row)
  /\ \/ /\ RecordOk(callback[k].row)
        /\ callback' = [callback EXCEPT ![k].step = "finish", ![k].saved = TRUE]
     \/ /\ RecordFails(callback[k].row)
        /\ callback' = [callback EXCEPT ![k].step = "finish"]
  /\ UNCHANGED <<timers, listener, pinger, playing, announced, abandoned, flushed, bounds>>

GiveUp(k) ==
  /\ table' = Delete(table, RowsOf(table, k))
  /\ abandoned' = abandoned \cup RowsOf(table, k)

CallbackFinish(k) ==
  LET row == callback[k].row IN
  /\ callback[k].step = "finish"
  /\ callback' = [callback EXCEPT ![k] = Idle]
  /\ \/ /\ callback[k].saved
        /\ announced' = announced \cup {row.id}
        /\ table' = RemoveRecorded(table, row)
        /\ Outlives(k)
        /\ UNCHANGED <<jobs, abandoned>>
     \/ /\ ~callback[k].saved
        /\ ~LastAttempt(row)
        /\ IF RowsOf(table, k) = {}
           THEN UNCHANGED <<table, timers>>   \* increment_write_attempts(None) raises
           ELSE /\ table' = IncrementAttempts(table, k)
                /\ Retry(k)
        /\ UNCHANGED <<announced, abandoned>>
     \/ /\ ~callback[k].saved
        /\ LastAttempt(row)
        /\ GiveUp(k)
        /\ UNCHANGED <<announced, timers>>
  /\ UNCHANGED <<listener, pinger, playing, records, flushed, bounds>>

\* An exception ends the job, and with it the attempts to write the row.
CallbackRaises(k) ==
  LET row == callback[k].row IN
  /\ callback[k].step # "idle"
  /\ Break
  /\ callback' = [callback EXCEPT ![k] = Idle]
  /\ \/ /\ callback[k].step = "record"
        /\ RecordRaises(row)
        /\ table' \in Stamp(row)
        /\ UNCHANGED announced
     \/ /\ callback[k].step = "finish" /\ callback[k].saved
        /\ announced' = announced \cup {row.id}
        /\ UNCHANGED <<table, history>>
     \/ UNCHANGED <<table, history, announced>>
  /\ UNCHANGED jobs
  /\ Untimed(k)
  /\ UNCHANGED <<listener, pinger, playing, skipped, failures, abandoned, flushed,
                 events, restarts, reconnects>>

(***************************************************************************)
(* check_active_sessions, under monitor_lock, before a listener starts.    *)
(***************************************************************************)
\* get_sessions: the rows of the table, which are then taken in the order of their ids.
StartPinger == pinger' = [step |-> "list", todo |-> {table.rows[i] : i \in Ids}]

\* The process dies and starts again: only the database survives.
Restart ==
  /\ restarts < MaxRestarts
  /\ restarts' = restarts + 1
  /\ jobs' = {}
  /\ timed' = {}
  /\ listener' = [l \in Listener |-> [todo |-> <<>>]]
  /\ callback' = [k \in Key |-> Idle]
  /\ StartPinger
  /\ UNCHANGED <<table, playing, fates, events, reconnects, breaks>>

\* The websocket is opened again; jobs and a listener's last event go on.
Reconnect ==
  /\ pinger.step = "idle"
  /\ reconnects < MaxReconnects
  /\ \A k \in Key : TimerRaces \/ (Quiet(k) /\ callback[k].step = "idle")
  /\ reconnects' = reconnects + 1
  /\ StartPinger
  /\ UNCHANGED <<table, timers, listener, callback, playing, fates, events, restarts, breaks>>

Current == CHOOSE row \in pinger.todo : \A other \in pinger.todo : row.id <= other.id
StillActive(row) == row.item # NoItem /\ pinger.live[row.key] = row.item

NextStream == [pinger EXCEPT !.step = "check", !.todo = @ \ {Current}]

\* An exception in the check makes start_thread empty the table.
PingerRaises ==
  /\ pinger.step # "idle"
  /\ pinger' = Idle
  /\ table' = Delete(table, Ids)
  /\ flushed' = flushed \cup Ids
  /\ IF pinger.step = "record" THEN RecordRaises(Current) ELSE UNCHANGED history
  /\ UNCHANGED <<timers, listener, callback, playing, skipped, failures, announced, abandoned,
                 bounds>>

\* The server's session list is read after the table; without one nothing is done.
PingerList ==
  /\ pinger.step = "list"
  /\ pinger' \in {Idle, [step |-> "check", todo |-> pinger.todo, live |-> playing,
                         left |-> {k \in Key : playing[k] # NoItem}, saved |-> FALSE]}
  /\ UNCHANGED <<table, timers, listener, callback, playing, fates, bounds>>

\* A stream that ended is announced before it is written.
PingerCheck ==
  /\ pinger.step = "check"
  /\ pinger.todo # {}
  /\ IF StillActive(Current)
     THEN pinger' = NextStream /\ UNCHANGED announced
     ELSE /\ pinger' = [pinger EXCEPT !.step = "record"]
          /\ announced' = IF Current.state = "stopped" THEN announced
                          ELSE announced \cup {Current.id}
  /\ UNCHANGED <<table, timers, listener, callback, playing, records, abandoned, flushed,
                 bounds>>

PingerRecord ==
  /\ pinger.step = "record"
  /\ \/ RecordOk(Current) /\ pinger' = [pinger EXCEPT !.step = "finish", !.saved = TRUE]
     \/ RecordFails(Current) /\ pinger' = [pinger EXCEPT !.step = "finish", !.saved = FALSE]
  /\ UNCHANGED <<table, timers, listener, callback, playing, announced, abandoned, flushed, bounds>>

PingerFinish ==
  LET k == Current.key IN
  /\ pinger.step = "finish"
  /\ pinger' = NextStream
  /\ \/ /\ pinger.saved
        /\ table' = RemoveRecorded(table, Current)
        /\ UNCHANGED abandoned
     \/ /\ ~pinger.saved
        /\ ~LastAttempt(Current)
        /\ RowsOf(table, k) # {}   \* increment_write_attempts(None) raises
        /\ table' = IncrementAttempts(table, k)
        /\ UNCHANGED abandoned
     \/ /\ ~pinger.saved
        /\ LastAttempt(Current)
        /\ GiveUp(k)
  /\ UNCHANGED <<timers, listener, callback, playing, records, announced, flushed, bounds>>

\* The sessions the server listed are written, one by one.
PingerSync(k) ==
  LET left == pinger.left \ {k} IN
  /\ pinger.step = "check"
  /\ pinger.todo = {}
  /\ k \in pinger.left
  /\ table' = WriteSession(table, k, pinger.live[k], "playing")
  /\ pinger' = [pinger EXCEPT !.left = left]
  /\ timed' = IF table'.next = table.next THEN timed ELSE timed \ {k}
  /\ UNCHANGED <<jobs, listener, callback, playing, fates, bounds>>

PingerDone ==
  /\ pinger.step = "check"
  /\ pinger.todo = {}
  /\ pinger.left = {}
  /\ pinger' = Idle
  /\ UNCHANGED <<table, timers, listener, callback, playing, fates, bounds>>

Ping ==
  \/ PingerList
  \/ PingerCheck
  \/ PingerRecord
  \/ PingerFinish
  \/ \E k \in Key : PingerSync(k)
  \/ PingerDone
  \/ PingerRaises

-----------------------------------------------------------------------------
Init ==
  /\ table = [rows |-> [i \in {} |-> Nobody], next |-> 1]
  /\ jobs = {}
  /\ timed = {}
  /\ listener = [l \in Listener |-> [todo |-> <<>>]]
  /\ callback = [k \in Key |-> Idle]
  /\ pinger = Idle
  /\ playing = [k \in Key |-> NoItem]
  /\ history = <<>>
  /\ announced = {}
  /\ skipped = {}
  /\ abandoned = {}
  /\ flushed = {}
  /\ failures = [k \in Key |-> 0]
  /\ events = 0
  /\ restarts = 0
  /\ reconnects = 0
  /\ breaks = 0

Next ==
  \/ \E k \in Key, item \in Item \cup {NoItem} : Plays(k, item)
  \/ \E l \in Listener, k \in Key, item \in Item, state \in EventState : Receive(l, k, item, state)
  \/ \E l \in Listener : Handle(l) \/ HandlerRaises(l)
  \/ \E k \in Key : Fire(k) \/ CallbackRecord(k) \/ CallbackFinish(k) \/ CallbackRaises(k)
  \/ Restart
  \/ Reconnect
  \/ Ping

\* Threads that have work go on with it and due jobs are run; nothing is
\* assumed of the server, of the network or of restarts.
Fairness ==
  /\ \A l \in Listener : WF_vars(Handle(l))
  /\ \A k \in Key : WF_vars(Fire(k)) /\ WF_vars(CallbackRecord(k) \/ CallbackFinish(k))
  /\ WF_vars(Ping)

Spec == Init /\ [][Next]_vars /\ Fairness

-----------------------------------------------------------------------------
(***************************************************************************)
(* Properties.                                                             *)
(***************************************************************************)
Row == [id : Nat, key : Key, item : Item \cup {NoItem}, state : State \cup {NoState},
        lastPaused : BOOLEAN, attempts : Nat]

\* Types; every row has its own id below the next one and counts at most
\* the writes that failed for its session key.
TypeOK ==
  /\ table.next \in Nat \ {0}
  /\ Ids \subseteq 1..(table.next - 1)
  /\ \A i \in Ids : /\ table.rows[i] \in Row
                    /\ table.rows[i].id = i
                    /\ table.rows[i].attempts <= failures[table.rows[i].key]
  /\ jobs \subseteq Key
  /\ timed \subseteq Key
  /\ \A l \in Listener : listener[l].todo # <<>> =>
       listener[l].key \in Key /\ listener[l].state \in State
  /\ \A k \in Key : callback[k].step \in {"idle", "record", "finish"}
  /\ pinger.step \in {"idle", "list", "check", "record", "finish"}
  /\ playing \in [Key -> Item \cup {NoItem}]
  /\ \A n \in DOMAIN history : history[n] \in 1..(table.next - 1)
  /\ failures \in [Key -> Nat]

Recorded == {history[n] : n \in DOMAIN history}

\* A row never leaves the sessions table unaccounted for: it is in the
\* history, was not to be logged, used up its key's write attempts, or went
\* in the reset that follows a failed start-up check.
NothingLost ==
  1..(table.next - 1) \subseteq Ids \cup Recorded \cup skipped \cup abandoned \cup flushed

\* Rows are given up only when as many writes as SESSION_DB_WRITE_ATTEMPTS
\* allows have failed for their session key, whichever threads made them.
GivenUpOnlyAfterAllAttempts ==
  [][\A i \in abandoned' \ abandoned : failures[table.rows[i].key] >= Attempts]_vars

\* A play is written to the history once, whether its stop event, its timer or
\* the start-up check closes it.  A death of the process or an exception between the
\* write and the removal of the row has it written again: each of them once at most.
DuplicatesNeedInterruption ==
  \A i \in Recorded :
    Cardinality({n \in DOMAIN history : history[n] = i}) <= 1 + restarts + breaks

\* Once a timer was set for a stream, its rows are never left without one: a job
\* is pending, or a thread that will set one or remove them is at work.  Two kinds of
\* rows are the exception: those that outlived another row of their session (see
\* Outlives) and those whose handler or job an exception ended (see Untimed).
Watched(k) == k \in jobs \/ callback[k].step # "idle" \/ ~Quiet(k)
StaleStreamWatched == \A k \in timed : RowsOf(table, k) # {} => Watched(k)

\* activity_handler.py:133 makes no exception: a row that the listener wrote has a
\* timer (but for restarts, which lose it, and the check, which sets none).
EveryStreamWatched == \A k \in Key : RowsOf(table, k) # {} => Watched(k)

\* A stream whose timer was set does not stay in the table for ever, even
\* when no stop event comes and writes fail (a restart loses the timer, and so
\* does an exception of the job itself).
StreamEventuallyClosed ==
  \A i \in 1..(MaxEvents + 1) :
    (i \in Ids /\ table.rows[i].key \in timed)
      ~> (i \notin Ids \/ table.rows[i].key \notin timed)

\* Whoever records a play announces it: no play reaches the history without
\* an on_stop notification, not even when the process dies in between.
RecordedIsAnnounced ==
  \A i \in 1..(MaxEvents + 1) : (i \in Recorded) ~> (i \in announced \cup flushed)

\* A DLNA client's session that is gone when it is looked up again was only
\* browsing: it is not written to the table.
BrowsingIsNotAStream ==
  [][\A l \in Listener :
       /\ At(l, "start")
       /\ listener[l].key \in Dlna
       /\ playing[listener[l].key] = NoItem
       /\ listener'[l] # listener[l]
       => table' = table]_vars
=============================================================================
