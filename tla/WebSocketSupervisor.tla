------------------------ MODULE WebSocketSupervisor ------------------------
(***************************************************************************)
(* The websocket connection to the Plex server and the threads that keep   *)
(* it: web_socket.py, connect_server of activity_pinger.py and the jobs    *)
(* initialize_scheduler sets up by it.                                     *)
(*                                                                         *)
(* run() is the body of a listener thread.  Threads are started by the     *)
(* program's start, by the job that looks for the server and by a change   *)
(* of the server in the settings; they share the module's globals without  *)
(* a lock.  What a listener does with an event is SessionMonitor's matter. *)
(***************************************************************************)
EXTENDS Naturals, Sequences, FiniteSets

CONSTANTS
  Thread,     \* bound: listener threads alive at a time
  Attempts,   \* WEBSOCKET_CONNECTION_ATTEMPTS
  PingPong,   \* WEBSOCKET_MONITOR_PING_PONG
  EarlyEnd,   \* a connection may end before its first ping
  MaxOutages, \* bound: how often the server goes away
  MaxSwitches \* bound: changes of the server in the settings

ASSUME SupervisorAssumption ==
  /\ IsFiniteSet(Thread)
  /\ Attempts \in Nat \ {0}
  /\ PingPong \in BOOLEAN
  /\ EarlyEnd \in BOOLEAN
  /\ MaxOutages \in Nat
  /\ MaxSwitches \in Nat

VARIABLES
  connected,   \* WS_CONNECTED
  ws_shutdown,
  serverUp,    \* PLEX_SERVER_UP: None, True or False
  socket,      \* WEBSOCKET: the connection made last
  open,        \* connections that this side takes for open
  thread,      \* per thread: where run() is, its connection, its reconnects
  starter,     \* connect_server, called by the job or at the start
  settings,    \* the request that changes the server
  pong,        \* pong_timer and pong_count, and the timer's thread
  jobs,        \* what the schedulers hold
  asking,      \* on_intdown runs, and asks plex.tv before it says anything
  notices,     \* on_intdown and on_intup, in the order they are queued
  plex,        \* the server answers
  outages, switches

vars == <<connected, ws_shutdown, serverUp, socket, open, thread, starter, settings, pong,
          jobs, asking, notices, plex, outages, switches>>

NoSocket == 0
Idle == [pc |-> "idle", on |-> NoSocket, reconnects |-> 0]

Goes(t, pc) == thread' = [thread EXCEPT ![t].pc = pc]
At(pcs) == {t \in Thread : thread[t].pc \in pcs}
Active == {t \in Thread : thread[t].pc # "idle"}

\* create_connection: a new connection, or an exception.  The number is one that
\* nothing refers to.
Used == open \cup {socket} \cup {thread[t].on : t \in Thread} \cup {pong.on}
NewSocket == CHOOSE n \in 1..(Cardinality(Used) + 1) : n \notin Used
Opened ==
  /\ plex
  /\ socket' = NewSocket
  /\ open' = open \cup {NewSocket}
  /\ connected' = TRUE
NotOpened == ~plex /\ UNCHANGED <<socket, open, connected>>

\* Unless it may end early, nothing ends a connection that is still to be pinged.
Connecting == {"opened", "cancel", "remove", "say", "jobs", "ping"}
MayEnd == ~PingPong \/ EarlyEnd \/ At(Connecting) = {}

(***************************************************************************)
(* Jobs.                                                                   *)
(***************************************************************************)
\* initialize_scheduler, as far as the connection goes.  A mistake: all jobs of
\* a lost connection are cancelled and the one that looks for it is forgotten.
CancelledAll(set) ==
  IF connected THEN (set \ {"connect"}) \cup (IF PingPong THEN {"ping"} ELSE {})
  ELSE set \ {"ping", "connect"}
Scheduled(set) ==
  IF connected THEN (set \ {"connect"}) \cup (IF PingPong THEN {"ping"} ELSE {})
  ELSE (set \ {"ping"}) \cup {"connect"}

\* Every 30 seconds while there is no connection; the job does not overlap itself.
\* By then an attempt, a pong's timer and a closing handshake are over.
Over == Active = {} /\ pong.timer # "running" /\ pong.strays = 0 /\ ~pong.closing
ConnectJob ==
  /\ "connect" \in jobs
  /\ starter = "idle"
  /\ Over
  /\ starter' = "checking"
  /\ UNCHANGED <<connected, ws_shutdown, serverUp, socket, open, thread, settings, pong, jobs,
                 asking, notices, plex, outages, switches>>

\* start_thread: the sessions are checked, then a listener is started.
StartThread ==
  \E t \in Thread \ Active :
    /\ thread' = [thread EXCEPT ![t] = [Idle EXCEPT !.pc = "begin"]]
    /\ \/ starter = "checking" /\ starter' = "idle" /\ UNCHANGED settings
       \/ settings = "start" /\ settings' = "idle" /\ UNCHANGED starter
    /\ UNCHANGED <<connected, ws_shutdown, serverUp, socket, open, pong, jobs, asking, notices,
                   plex, outages, switches>>

\* Saved settings, the first page and an update check set the jobs up again.
Reschedule ==
  /\ switches < MaxSwitches
  /\ switches' = switches + 1
  /\ jobs' = Scheduled(jobs)
  /\ UNCHANGED <<connected, ws_shutdown, serverUp, socket, open, thread, starter, settings, pong,
                 asking, notices, plex, outages>>

\* on_intdown is run after the threshold, which does not pass while a listener is
\* about to cancel the job.  The scheduler skips a run while another one is under way.
FireDown ==
  /\ "intdown" \in jobs
  /\ At({"cancel", "remove"}) = {}
  /\ jobs' = jobs \ {"intdown"}
  /\ asking' = TRUE
  /\ UNCHANGED <<connected, ws_shutdown, serverUp, socket, open, thread, starter, settings, pong,
                 notices, plex, outages, switches>>

\* notify_token_expired has its answer from plex.tv, or none.
SayDown ==
  /\ asking
  /\ asking' = FALSE
  /\ notices' = Append(notices, "down")
  /\ UNCHANGED <<connected, ws_shutdown, serverUp, socket, open, thread, starter, settings, pong,
                 jobs, plex, outages, switches>>

(***************************************************************************)
(* Ping and pong.                                                          *)
(***************************************************************************)
\* A ping is out and its timer runs; a timer that ran already goes on unseen.
Pinged == [pong EXCEPT !.timer = "running", !.on = socket,
                       !.strays = IF pong.timer = "running" THEN @ + 1 ELSE @]

\* send_ping, every 10 seconds, which is after the first ping.  On a closed
\* connection it raises an exception, which the scheduler logs.
PingJob ==
  /\ "ping" \in jobs
  /\ At({"ping"}) = {}
  /\ connected /\ socket \in open
  /\ pong.timer # "running"
  /\ pong' = Pinged
  /\ UNCHANGED <<connected, ws_shutdown, serverUp, socket, open, thread, starter, settings, jobs,
                 asking, notices, plex, outages, switches>>

\* wait_pong: five seconds without an answer, because the server or the connection
\* is gone or nobody reads it, or by a timer that nobody can stop any more.  Too many
\* in a row close the connection that is current by now.
TooManyMissed(count) == count >= Attempts
Reads(t) == IF thread[t].pc = "loop" THEN socket ELSE thread[t].on
Unanswered ==
  ~plex \/ pong.on \notin open \/ \A t \in At({"loop", "recv"}) : Reads(t) # pong.on
WaitPong ==
  /\ \E expired \in {[pong EXCEPT !.timer = "expired"], [pong EXCEPT !.strays = @ - 1]} :
       /\ expired.strays = pong.strays => pong.timer = "running" /\ Unanswered
       /\ expired.strays >= 0
       /\ IF TooManyMissed(pong.count + 1)
          THEN /\ ~pong.closing /\ MayEnd
               /\ pong' = [expired EXCEPT !.count = 0, !.closing = TRUE]
               /\ open' = open \ {socket}
          ELSE pong' = [expired EXCEPT !.count = @ + 1] /\ UNCHANGED open
  /\ UNCHANGED <<connected, ws_shutdown, serverUp, socket, thread, starter, settings, jobs,
                 asking, notices, plex, outages, switches>>

\* close() waits for the server's close frame before it resets WS_CONNECTED.
PongClosed ==
  /\ pong.closing
  /\ connected' = FALSE
  /\ pong' = [pong EXCEPT !.closing = FALSE]
  /\ UNCHANGED <<ws_shutdown, serverUp, socket, open, thread, starter, settings, jobs, asking,
                 notices, plex, outages, switches>>

(***************************************************************************)
(* The settings request: reconnect().                                      *)
(***************************************************************************)
SwitchServer ==
  /\ settings = "idle" /\ connected /\ switches < MaxSwitches
  /\ switches' = switches + 1
  /\ settings' = "shutdown"
  /\ UNCHANGED <<connected, ws_shutdown, serverUp, socket, open, thread, starter, pong, jobs,
                 asking, notices, plex, outages>>

Shutdown ==
  /\ \/ /\ settings = "shutdown" /\ settings' = "close"
        /\ ws_shutdown' = TRUE
        /\ UNCHANGED <<open, connected>>
     \/ /\ settings = "close" /\ settings' = "clear" /\ MayEnd
        /\ open' = open \ {socket}
        /\ UNCHANGED <<ws_shutdown, connected>>
     \/ /\ settings = "clear" /\ settings' = "start"
        /\ connected' = FALSE
        /\ UNCHANGED <<ws_shutdown, open>>
  /\ UNCHANGED <<serverUp, socket, thread, starter, pong, jobs, asking, notices, plex, outages,
                 switches>>

(***************************************************************************)
(* The listener thread: run().                                             *)
(***************************************************************************)
Begin(t) ==
  /\ thread[t].pc = "begin"
  /\ ws_shutdown' = FALSE
  /\ Goes(t, "open")
  /\ UNCHANGED <<connected, serverUp, socket, open, starter, settings, pong, jobs, asking,
                 notices, plex, outages, switches>>

Open(t) ==
  /\ thread[t].pc = "open"
  /\ NotOpened \/ Opened
  /\ Goes(t, "opened")
  /\ UNCHANGED <<ws_shutdown, serverUp, starter, settings, pong, jobs, asking, notices, plex,
                 outages, switches>>

\* An exception ends the thread and nothing else.
Dies(t) == thread' = [thread EXCEPT ![t] = Idle]

\* on_connect: after an outage it is either too short to mention, or over.
OnConnect(t) ==
  /\ thread[t].pc = "opened"
  /\ IF connected
     THEN /\ serverUp' = "up"
          /\ Goes(t, IF serverUp # "down" THEN "jobs"
                     ELSE IF "intdown" \in jobs THEN "cancel" ELSE "say")
     ELSE Goes(t, "leave") /\ UNCHANGED serverUp
  /\ UNCHANGED <<connected, ws_shutdown, socket, open, starter, settings, pong, jobs, asking,
                 notices, plex, outages, switches>>

\* schedule_callback(remove_job=True) looks at the job again and then removes it,
\* which raises an exception if it is gone.  A mistake: the job is kept.
Kept(set) == set
Removed(set) == set \ {"intdown"}
CancelDown(t) ==
  /\ \/ /\ thread[t].pc = "cancel"
        /\ Goes(t, IF "intdown" \in jobs THEN "remove" ELSE "jobs")
        /\ UNCHANGED jobs
     \/ /\ thread[t].pc = "remove"
        /\ jobs' = Removed(jobs)
        /\ IF "intdown" \in jobs THEN Goes(t, "jobs") ELSE Dies(t)
  /\ UNCHANGED <<connected, ws_shutdown, serverUp, socket, open, starter, settings, pong, asking,
                 notices, plex, outages, switches>>

\* on_intup.
SayUp(t) ==
  /\ thread[t].pc = "say"
  /\ notices' = Append(notices, "up")
  /\ Goes(t, "jobs")
  /\ UNCHANGED <<connected, ws_shutdown, serverUp, socket, open, starter, settings, pong, jobs,
                 asking, plex, outages, switches>>

SetJobs(t) ==
  /\ thread[t].pc = "jobs"
  /\ jobs' = Scheduled(jobs)
  /\ Goes(t, IF PingPong THEN "ping" ELSE "loop")
  /\ UNCHANGED <<connected, ws_shutdown, serverUp, socket, open, starter, settings, pong, asking,
                 notices, plex, outages, switches>>

\* send_ping in on_connect, which no `except` encloses.
FirstPing(t) ==
  /\ thread[t].pc = "ping"
  /\ IF connected /\ socket \notin open
     THEN Dies(t) /\ UNCHANGED pong
     ELSE Goes(t, "loop") /\ pong' = IF connected THEN Pinged ELSE pong
  /\ UNCHANGED <<connected, ws_shutdown, serverUp, socket, open, starter, settings, jobs, asking,
                 notices, plex, outages, switches>>

\* while WS_CONNECTED: the connection is read anew each time.
Loop(t) ==
  /\ thread[t].pc = "loop"
  /\ thread' = [thread EXCEPT ![t] = IF connected THEN [@ EXCEPT !.pc = "recv", !.on = socket]
                                     ELSE [@ EXCEPT !.pc = "leave"]]
  /\ UNCHANGED <<connected, ws_shutdown, serverUp, socket, open, starter, settings, pong, jobs,
                 asking, notices, plex, outages, switches>>

\* A frame arrives, and it may be the awaited pong (receive_pong).
Receive(t) ==
  /\ thread[t].pc = "recv" /\ thread[t].on \in open /\ plex
  /\ thread' = [thread EXCEPT ![t].pc = "loop", ![t].reconnects = 0]
  /\ \/ UNCHANGED pong
     \/ /\ pong.timer # "none" /\ pong.on = thread[t].on
        /\ pong' = [pong EXCEPT !.timer = "none", !.count = 0]
  /\ UNCHANGED <<connected, ws_shutdown, serverUp, socket, open, starter, settings, jobs, asking,
                 notices, plex, outages, switches>>

\* receive() raises: the connection is closed, which is worth some attempts, or
\* another exception, a silence of PMS_TIMEOUT among them.
Lost(t) ==
  /\ thread[t].pc = "recv"
  /\ \/ /\ ws_shutdown
        /\ thread[t].on \notin open \/ ~plex
        /\ Goes(t, "leave")
     \/ /\ ~ws_shutdown /\ thread[t].on \notin open
        /\ thread[t].reconnects < Attempts
        /\ thread' = [thread EXCEPT ![t].pc = "retry", ![t].reconnects = @ + 1]
     \/ /\ ~ws_shutdown
        /\ thread[t].on \notin open \/ ~plex
        /\ Goes(t, "close")
  /\ UNCHANGED <<connected, ws_shutdown, serverUp, socket, open, starter, settings, pong, jobs,
                 asking, notices, plex, outages, switches>>

Retry(t) ==
  /\ thread[t].pc = "retry"
  /\ NotOpened \/ Opened
  /\ Goes(t, "loop")
  /\ UNCHANGED <<ws_shutdown, serverUp, starter, settings, pong, jobs, asking, notices, plex,
                 outages, switches>>

\* close(), called by the listener.  A mistake: WS_CONNECTED keeps its value.
StillConnected == TRUE
Disconnected == FALSE
Close(t) ==
  /\ \/ /\ thread[t].pc = "close" /\ MayEnd
        /\ open' = open \ {socket}
        /\ Goes(t, "clear")
        /\ UNCHANGED connected
     \/ /\ thread[t].pc = "clear"
        /\ connected' = Disconnected
        /\ Goes(t, "leave")
        /\ UNCHANGED open
  /\ UNCHANGED <<ws_shutdown, serverUp, socket, starter, settings, pong, jobs, asking, notices,
                 plex, outages, switches>>

Leave(t) ==
  /\ thread[t].pc = "leave"
  /\ IF connected \/ ws_shutdown THEN thread' = [thread EXCEPT ![t] = Idle] ELSE Goes(t, "down")
  /\ UNCHANGED <<connected, ws_shutdown, serverUp, socket, open, starter, settings, pong, jobs,
                 asking, notices, plex, outages, switches>>

\* on_disconnect.  A server that was never up is not missed.
OnDisconnect(t) ==
  /\ thread[t].pc = "down"
  /\ serverUp' = "down"
  /\ Goes(t, IF serverUp = "up" THEN "arm" ELSE "settle")
  /\ UNCHANGED <<connected, ws_shutdown, socket, open, starter, settings, pong, jobs, asking,
                 notices, plex, outages, switches>>

\* A mistake: nothing is scheduled.
NotArmed(set) == set
Armed(set) == set \cup {"intdown"}
ScheduleDown(t) ==
  /\ thread[t].pc = "arm"
  /\ jobs' = Armed(jobs)
  /\ Goes(t, "settle")
  /\ UNCHANGED <<connected, ws_shutdown, serverUp, socket, open, starter, settings, pong, asking,
                 notices, plex, outages, switches>>

\* set_temp_stopped, and the jobs of a lost connection; the thread is over.
Settle(t) ==
  /\ thread[t].pc = "settle"
  /\ jobs' = Scheduled(jobs)
  /\ thread' = [thread EXCEPT ![t] = Idle]
  /\ UNCHANGED <<connected, ws_shutdown, serverUp, socket, open, starter, settings, pong, asking,
                 notices, plex, outages, switches>>

(***************************************************************************)
(* The server.                                                             *)
(***************************************************************************)
\* It stops or restarts its connections, which are closed or just fall silent.
GoAway ==
  /\ plex /\ outages < MaxOutages
  /\ outages' = outages + 1
  /\ \/ plex' = FALSE /\ open' \in {open, {}}
     \/ plex' = TRUE /\ open' = {}
  /\ open' = open \/ MayEnd
  /\ UNCHANGED <<connected, ws_shutdown, serverUp, socket, thread, starter, settings, pong, jobs,
                 asking, notices, switches>>

\* It is back, and knows nothing of earlier connections.
ComeBack ==
  /\ ~plex
  /\ plex' = TRUE
  /\ open' = {} /\ MayEnd
  /\ UNCHANGED <<connected, ws_shutdown, serverUp, socket, thread, starter, settings, pong, jobs,
                 asking, notices, outages, switches>>

-----------------------------------------------------------------------------
Init ==
  /\ connected = FALSE /\ ws_shutdown = FALSE
  /\ serverUp = "unknown"
  /\ socket = NoSocket /\ open = {}
  /\ thread = [t \in Thread |-> Idle]
  /\ starter = "checking" /\ settings = "idle"
  /\ pong = [timer |-> "none", strays |-> 0, on |-> NoSocket, count |-> 0, closing |-> FALSE]
  /\ jobs = {} /\ asking = FALSE /\ notices = <<>>
  /\ plex \in BOOLEAN
  /\ outages = 0 /\ switches = 0

Run(t) ==
  \/ Begin(t) \/ Open(t) \/ OnConnect(t) \/ CancelDown(t) \/ SayUp(t) \/ SetJobs(t)
  \/ FirstPing(t) \/ Loop(t) \/ Receive(t) \/ Lost(t) \/ Retry(t) \/ Close(t) \/ Leave(t)
  \/ OnDisconnect(t) \/ ScheduleDown(t) \/ Settle(t)

Next ==
  \/ ConnectJob \/ StartThread \/ Reschedule \/ FireDown \/ SayDown
  \/ PingJob \/ WaitPong \/ PongClosed
  \/ SwitchServer \/ Shutdown
  \/ \E t \in Thread : Run(t)
  \/ GoAway \/ ComeBack

\* Threads go on, due jobs are run, and a server that is up sends frames (the
\* connection's timeout ends a silence).  It need not come back.
Fairness ==
  /\ WF_vars(ConnectJob) /\ WF_vars(StartThread) /\ WF_vars(FireDown) /\ WF_vars(SayDown)
  /\ WF_vars(WaitPong) /\ WF_vars(PongClosed) /\ WF_vars(Shutdown)
  /\ \A t \in Thread : WF_vars(Run(t))

Spec == Init /\ [][Next]_vars
FairSpec == Spec /\ Fairness

-----------------------------------------------------------------------------
(***************************************************************************)
(* Properties.                                                             *)
(***************************************************************************)
\* The globals, the threads and the jobs are what the code makes of them: no
\* more pongs are counted than end a connection, and every ping has its timer.
TypeOK ==
  /\ connected \in BOOLEAN /\ ws_shutdown \in BOOLEAN /\ plex \in BOOLEAN /\ asking \in BOOLEAN
  /\ serverUp \in {"unknown", "up", "down"}
  /\ socket \in Nat /\ open \subseteq Nat
  /\ thread \in [Thread -> [pc : {"idle", "begin", "open", "opened", "cancel", "remove", "say",
                                  "jobs", "ping", "loop", "recv", "retry", "close", "clear",
                                  "leave", "down", "arm", "settle"},
                            on : Nat, reconnects : 0..Attempts]]
  /\ starter \in {"idle", "checking"}
  /\ settings \in {"idle", "shutdown", "close", "clear", "start"}
  /\ pong \in [timer : {"none", "running", "expired"}, strays : Nat, on : Nat,
               count : 0..(Attempts - 1), closing : BOOLEAN]
  /\ jobs \subseteq {"connect", "ping", "intdown"}
  /\ notices \in Seq({"up", "down"})
  /\ outages \in 0..MaxOutages /\ switches \in 0..MaxSwitches

\* CHANGELOG.md:83: Tautulli does not have to be restarted to find the server
\* again.  Somebody listens, or is about to start a listener, or the job will.
Supervised == Active # {} \/ starter = "checking" \/ settings # "idle" \/ "connect" \in jobs

\* A server that stays is found, whatever happened before: in the end a listener
\* reads the connection that is open.
ServerIsFound ==
  <>[]plex => <>[](\E t \in Thread : connected /\ socket \in open /\ thread[t].pc \in {"loop", "recv"})

\* An outage that does not end is announced, unless the server was never up.
OutageIsAnnounced ==
  (serverUp = "up" /\ []~plex) ~> (notices # <<>> /\ notices[Len(notices)] = "down")

\* notifiers.py:395 and :403: what the user is told of outages follows the rule.
\* A listener that has noted a change and not acted on it has not changed it yet.
Told == INSTANCE OutageNotices WITH
  up <- IF At({"say"}) # {} THEN "down" ELSE IF At({"arm"}) # {} THEN "up" ELSE serverUp,
  pending <- "intdown" \in jobs /\ At({"cancel", "remove"}) = {},
  announcing <- asking
KeepsNotices == Told!Notices
=============================================================================
