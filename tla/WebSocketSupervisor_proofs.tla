--------------------- MODULE WebSocketSupervisor_proofs ---------------------
(***************************************************************************)
(* Proofs about WebSocketSupervisor, for every number of threads, outages  *)
(* and attempts: its types, that somebody always looks after the           *)
(* connection, and that a user is told of outages by the rule.             *)
(***************************************************************************)
EXTENDS WebSocketSupervisor, FiniteSetTheorems, TLAPS

Pcs == {"idle", "begin", "open", "opened", "cancel", "remove", "say", "jobs", "ping", "loop",
        "recv", "retry", "close", "clear", "leave", "down", "arm", "settle"}
Record == [pc : Pcs, on : Nat, reconnects : 0..Attempts]

TypeInv == TypeOK /\ IsFiniteSet(open)

-----------------------------------------------------------------------------
(***************************************************************************)
(* Threads and connections.                                                *)
(***************************************************************************)
\* One thread goes on, the others stay where they are.
LEMMA Placed ==
  ASSUME thread \in [Thread -> Record], NEW t \in Thread, NEW r \in Record,
         thread' = [thread EXCEPT ![t] = r]
  PROVE  /\ thread' \in [Thread -> Record] /\ thread'[t] = r
         /\ \A u \in Thread \ {t} : thread'[u] = thread[u]
OBVIOUS

LEMMA Gone ==
  ASSUME thread \in [Thread -> Record], NEW t \in Thread, NEW pc \in Pcs, Goes(t, pc)
  PROVE  /\ thread' \in [Thread -> Record] /\ thread'[t].pc = pc
         /\ \A u \in Thread \ {t} : thread'[u] = thread[u]
<1>1. thread[t] \in Record
  OBVIOUS
<1> DEFINE r == [thread[t] EXCEPT !.pc = pc]
<1>2. r \in Record /\ r.pc = pc
  BY <1>1 DEF Record
<1>3. thread' = [thread EXCEPT ![t] = r]
  BY DEF Goes
<1> HIDE DEF r
<1> QED BY <1>2, <1>3, Placed

LEMMA IdleRecord == Idle \in Record
BY SupervisorAssumption DEF Idle, Record, Pcs, NoSocket

LEMMA Died ==
  ASSUME thread \in [Thread -> Record], NEW t \in Thread, thread' = [thread EXCEPT ![t] = Idle]
  PROVE  /\ thread' \in [Thread -> Record] /\ thread'[t] = Idle /\ thread'[t].pc = "idle"
         /\ \A u \in Thread \ {t} : thread'[u] = thread[u]
<1>1. thread' \in [Thread -> Record] /\ thread'[t] = Idle /\ \A u \in Thread \ {t} : thread'[u] = thread[u]
  BY IdleRecord, Placed
<1> QED BY <1>1 DEF Idle

LEMMA ThreadTypes == TypeInv => thread \in [Thread -> Record]
BY DEF TypeInv, TypeOK, Record, Pcs

\* A new connection has a number that nothing refers to.
LEMMA NewSocketFresh ==
  ASSUME TypeInv
  PROVE  NewSocket \in Nat /\ NewSocket \notin Used
<1> DEFINE on == [t \in Thread |-> thread[t].on]
           of == {thread[t].on : t \in Thread}
           k == Cardinality(Used)
<1>1. IsFiniteSet(Used)
  <2>1. IsFiniteSet(of)
    <3>1. on \in Surjection(Thread, of)
      BY DEF Surjection
    <3> HIDE DEF on, of
    <3> QED BY <3>1, SupervisorAssumption, FS_Surjection
  <2> HIDE DEF of
  <2>2. IsFiniteSet({socket}) /\ IsFiniteSet({pong.on})
    BY FS_Singleton
  <2>3. IsFiniteSet(open \cup {socket})
    BY <2>2, FS_Union DEF TypeInv
  <2>4. IsFiniteSet(open \cup {socket} \cup of)
    BY <2>1, <2>3, FS_Union
  <2>5. IsFiniteSet(open \cup {socket} \cup of \cup {pong.on})
    BY <2>2, <2>4, FS_Union
  <2> QED BY <2>5 DEF Used, of
<1>2. k \in Nat
  BY <1>1, FS_CardinalityType
<1>3. \E n \in 1..(k + 1) : n \notin Used
  <2> SUFFICES ASSUME 1..(k + 1) \subseteq Used PROVE FALSE
    OBVIOUS
  <2>1. Cardinality(1..(k + 1)) <= k
    BY <1>1, FS_Subset
  <2>2. Cardinality(1..(k + 1)) = k + 1
    <3> HIDE DEF k
    <3>1. 1 \in Int /\ k + 1 \in Int /\ ~(1 > k + 1)
      BY <1>2
    <3>2. Cardinality(1..(k + 1)) = (k + 1) - 1 + 1
      BY <3>1, FS_Interval
    <3> QED BY <1>2, <3>2
  <2> HIDE DEF k
  <2> QED BY <1>2, <2>1, <2>2
<1>4. NewSocket = CHOOSE n \in 1..(k + 1) : n \notin Used
  BY DEF NewSocket
<1> HIDE DEF k
<1> QED BY <1>2, <1>3, <1>4

-----------------------------------------------------------------------------
(***************************************************************************)
(* Where a listener goes in each step.                                     *)
(***************************************************************************)
\* The other threads stay where they are.
Alone(t) ==
  /\ thread' \in [Thread -> Record]
  /\ \A u \in Thread \ {t} : thread'[u] = thread[u]

LEMMA BeginMoves ==
  ASSUME TypeInv, NEW t \in Thread, Begin(t)
  PROVE  Alone(t) /\ thread[t].pc = "begin" /\ thread'[t].pc = "open"
<1>1. thread[t].pc = "begin" /\ Goes(t, "open")
  BY DEF Begin
<1>2. "open" \in Pcs
  BY DEF Pcs
<1> QED BY <1>1, <1>2, ThreadTypes, Gone DEF Alone

LEMMA OpenMoves ==
  ASSUME TypeInv, NEW t \in Thread, Open(t)
  PROVE  Alone(t) /\ thread[t].pc = "open" /\ thread'[t].pc = "opened"
<1>1. thread[t].pc = "open" /\ Goes(t, "opened")
  BY DEF Open
<1>2. "opened" \in Pcs
  BY DEF Pcs
<1> QED BY <1>1, <1>2, ThreadTypes, Gone DEF Alone

LEMMA OnConnectMoves ==
  ASSUME TypeInv, NEW t \in Thread, OnConnect(t)
  PROVE  /\ Alone(t) /\ thread[t].pc = "opened"
         /\ \/ ~connected /\ thread'[t].pc = "leave"
            \/ connected /\ serverUp # "down" /\ thread'[t].pc = "jobs"
            \/ connected /\ serverUp = "down" /\ "intdown" \in jobs /\ thread'[t].pc = "cancel"
            \/ connected /\ serverUp = "down" /\ "intdown" \notin jobs /\ thread'[t].pc = "say"
<1>1. {"jobs", "cancel", "say", "leave"} \subseteq Pcs /\ thread[t].pc = "opened"
  BY DEF Pcs, OnConnect
<1>2. CASE ~connected
  BY <1>1, <1>2, ThreadTypes, Gone DEF Alone, OnConnect
<1>3. CASE connected /\ serverUp # "down"
  BY <1>1, <1>3, ThreadTypes, Gone DEF Alone, OnConnect
<1>4. CASE connected /\ serverUp = "down" /\ "intdown" \in jobs
  BY <1>1, <1>4, ThreadTypes, Gone DEF Alone, OnConnect
<1>5. CASE connected /\ serverUp = "down" /\ "intdown" \notin jobs
  BY <1>1, <1>5, ThreadTypes, Gone DEF Alone, OnConnect
<1> QED BY <1>2, <1>3, <1>4, <1>5

LEMMA CancelDownMoves ==
  ASSUME TypeInv, NEW t \in Thread, CancelDown(t)
  PROVE  /\ Alone(t)
         /\ \/ /\ thread[t].pc = "cancel" /\ jobs' = jobs
               /\ \/ "intdown" \in jobs /\ thread'[t].pc = "remove"
                  \/ "intdown" \notin jobs /\ thread'[t].pc = "jobs"
            \/ /\ thread[t].pc = "remove" /\ jobs' = jobs \ {"intdown"}
               /\ \/ "intdown" \in jobs /\ thread'[t].pc = "jobs"
                  \/ "intdown" \notin jobs /\ thread'[t].pc = "idle"
<1>1. {"remove", "jobs"} \subseteq Pcs
  BY DEF Pcs
<1>2. CASE thread[t].pc = "cancel"
  <2>1. jobs' = jobs /\ Goes(t, IF "intdown" \in jobs THEN "remove" ELSE "jobs")
    BY <1>2 DEF CancelDown
  <2> QED BY <1>1, <1>2, <2>1, ThreadTypes, Gone DEF Alone
<1>3. CASE thread[t].pc = "remove"
  <2>1. /\ jobs' = jobs \ {"intdown"}
        /\ IF "intdown" \in jobs THEN Goes(t, "jobs") ELSE Dies(t)
    BY <1>3 DEF CancelDown, Removed
  <2>2. CASE "intdown" \in jobs
    BY <1>1, <1>3, <2>1, <2>2, ThreadTypes, Gone DEF Alone
  <2>3. CASE "intdown" \notin jobs
    BY <1>3, <2>1, <2>3, ThreadTypes, Died DEF Alone, Dies
  <2> QED BY <2>2, <2>3
<1> QED BY <1>2, <1>3 DEF CancelDown

LEMMA SayUpMoves ==
  ASSUME TypeInv, NEW t \in Thread, SayUp(t)
  PROVE  Alone(t) /\ thread[t].pc = "say" /\ thread'[t].pc = "jobs"
<1>1. thread[t].pc = "say" /\ Goes(t, "jobs")
  BY DEF SayUp
<1>2. "jobs" \in Pcs
  BY DEF Pcs
<1> QED BY <1>1, <1>2, ThreadTypes, Gone DEF Alone

LEMMA SetJobsMoves ==
  ASSUME TypeInv, NEW t \in Thread, SetJobs(t)
  PROVE  /\ Alone(t) /\ thread[t].pc = "jobs"
         /\ thread'[t].pc = IF PingPong THEN "ping" ELSE "loop"
<1>1. thread[t].pc = "jobs" /\ Goes(t, IF PingPong THEN "ping" ELSE "loop")
  BY DEF SetJobs
<1>2. (IF PingPong THEN "ping" ELSE "loop") \in Pcs
  BY DEF Pcs
<1> QED BY <1>1, <1>2, ThreadTypes, Gone DEF Alone

LEMMA FirstPingMoves ==
  ASSUME TypeInv, NEW t \in Thread, FirstPing(t)
  PROVE  Alone(t) /\ thread[t].pc = "ping" /\ thread'[t].pc \in {"idle", "loop"}
<1>1. thread[t].pc = "ping" /\ (Dies(t) \/ Goes(t, "loop"))
  BY DEF FirstPing
<1>2. "loop" \in Pcs
  BY DEF Pcs
<1>3. CASE Dies(t)
  BY <1>1, <1>3, ThreadTypes, Died DEF Alone, Dies
<1>4. CASE Goes(t, "loop")
  BY <1>1, <1>2, <1>4, ThreadTypes, Gone DEF Alone
<1> QED BY <1>1, <1>3, <1>4

LEMMA LoopMoves ==
  ASSUME TypeInv, NEW t \in Thread, Loop(t)
  PROVE  /\ Alone(t) /\ thread[t].pc = "loop"
         /\ thread'[t].pc = IF connected THEN "recv" ELSE "leave"
<1> DEFINE r == IF connected THEN [thread[t] EXCEPT !.pc = "recv", !.on = socket]
                ELSE [thread[t] EXCEPT !.pc = "leave"]
<1>1. thread[t] \in Record /\ socket \in Nat
  BY ThreadTypes DEF TypeInv, TypeOK
<1>2. r \in Record /\ r.pc = IF connected THEN "recv" ELSE "leave"
  BY <1>1 DEF Record, Pcs
<1>3. thread[t].pc = "loop" /\ thread' = [thread EXCEPT ![t] = r]
  BY DEF Loop
<1> HIDE DEF r
<1> QED BY <1>2, <1>3, ThreadTypes, Placed DEF Alone

LEMMA ReceiveMoves ==
  ASSUME TypeInv, NEW t \in Thread, Receive(t)
  PROVE  Alone(t) /\ thread[t].pc = "recv" /\ thread'[t].pc = "loop"
<1> DEFINE r == [thread[t] EXCEPT !.pc = "loop", !.reconnects = 0]
<1>1. thread[t] \in Record /\ 0 \in 0..Attempts
  BY ThreadTypes, SupervisorAssumption
<1>2. r \in Record /\ r.pc = "loop"
  BY <1>1 DEF Record, Pcs
<1>3. thread[t].pc = "recv" /\ thread' = [thread EXCEPT ![t] = r]
  BY <1>1, ThreadTypes DEF Receive, Record
<1> HIDE DEF r
<1> QED BY <1>2, <1>3, ThreadTypes, Placed DEF Alone

LEMMA LostMoves ==
  ASSUME TypeInv, NEW t \in Thread, Lost(t)
  PROVE  /\ Alone(t) /\ thread[t].pc = "recv"
         /\ \/ ws_shutdown /\ thread'[t].pc = "leave"
            \/ ~ws_shutdown /\ thread'[t].pc \in {"retry", "close"}
<1>0. {"leave", "close"} \subseteq Pcs /\ thread[t].pc = "recv"
  BY DEF Pcs, Lost
<1>1. CASE ws_shutdown /\ Goes(t, "leave")
  BY <1>0, <1>1, ThreadTypes, Gone DEF Alone
<1>2. CASE ~ws_shutdown /\ Goes(t, "close")
  BY <1>0, <1>2, ThreadTypes, Gone DEF Alone
<1>3. CASE /\ ~ws_shutdown /\ thread[t].reconnects < Attempts
           /\ thread' = [thread EXCEPT ![t].pc = "retry", ![t].reconnects = @ + 1]
  <2> DEFINE r == [thread[t] EXCEPT !.pc = "retry", !.reconnects = @ + 1]
  <2>1. thread[t] \in Record /\ Attempts \in Nat
    BY ThreadTypes, SupervisorAssumption
  <2>2. thread[t].reconnects + 1 \in 0..Attempts
    BY <1>3, <2>1 DEF Record
  <2>3. r \in Record /\ r.pc = "retry"
    BY <2>1, <2>2 DEF Record, Pcs
  <2>4. thread' = [thread EXCEPT ![t] = r]
    BY <1>3, <2>1, ThreadTypes DEF Record
  <2> HIDE DEF r
  <2> QED BY <1>0, <1>3, <2>3, <2>4, ThreadTypes, Placed DEF Alone
<1> QED BY <1>1, <1>2, <1>3 DEF Lost

LEMMA RetryMoves ==
  ASSUME TypeInv, NEW t \in Thread, Retry(t)
  PROVE  Alone(t) /\ thread[t].pc = "retry" /\ thread'[t].pc = "loop"
<1>1. thread[t].pc = "retry" /\ Goes(t, "loop")
  BY DEF Retry
<1>2. "loop" \in Pcs
  BY DEF Pcs
<1> QED BY <1>1, <1>2, ThreadTypes, Gone DEF Alone

LEMMA CloseMoves ==
  ASSUME TypeInv, NEW t \in Thread, Close(t)
  PROVE  /\ Alone(t)
         /\ \/ thread[t].pc = "close" /\ thread'[t].pc = "clear" /\ connected' = connected
            \/ thread[t].pc = "clear" /\ thread'[t].pc = "leave" /\ ~connected'
<1>0. {"clear", "leave"} \subseteq Pcs
  BY DEF Pcs
<1>1. CASE thread[t].pc = "close" /\ Goes(t, "clear") /\ connected' = connected
  BY <1>0, <1>1, ThreadTypes, Gone DEF Alone
<1>2. CASE thread[t].pc = "clear" /\ Goes(t, "leave") /\ connected' = Disconnected
  BY <1>0, <1>2, ThreadTypes, Gone DEF Alone, Disconnected
<1> QED BY <1>1, <1>2 DEF Close

LEMMA LeaveMoves ==
  ASSUME TypeInv, NEW t \in Thread, Leave(t)
  PROVE  /\ Alone(t) /\ thread[t].pc = "leave"
         /\ \/ (connected \/ ws_shutdown) /\ thread'[t].pc = "idle"
            \/ ~connected /\ ~ws_shutdown /\ thread'[t].pc = "down"
<1>0. "down" \in Pcs /\ thread[t].pc = "leave"
  BY DEF Pcs, Leave
<1>1. CASE connected \/ ws_shutdown
  BY <1>0, <1>1, ThreadTypes, Died DEF Alone, Leave
<1>2. CASE ~(connected \/ ws_shutdown)
  BY <1>0, <1>2, ThreadTypes, Gone DEF Alone, Leave
<1> QED BY <1>1, <1>2

LEMMA OnDisconnectMoves ==
  ASSUME TypeInv, NEW t \in Thread, OnDisconnect(t)
  PROVE  /\ Alone(t) /\ thread[t].pc = "down"
         /\ thread'[t].pc = IF serverUp = "up" THEN "arm" ELSE "settle"
<1>1. thread[t].pc = "down" /\ Goes(t, IF serverUp = "up" THEN "arm" ELSE "settle")
  BY DEF OnDisconnect
<1>2. (IF serverUp = "up" THEN "arm" ELSE "settle") \in Pcs
  BY DEF Pcs
<1> QED BY <1>1, <1>2, ThreadTypes, Gone DEF Alone

LEMMA ScheduleDownMoves ==
  ASSUME TypeInv, NEW t \in Thread, ScheduleDown(t)
  PROVE  Alone(t) /\ thread[t].pc = "arm" /\ thread'[t].pc = "settle"
<1>1. thread[t].pc = "arm" /\ Goes(t, "settle")
  BY DEF ScheduleDown
<1>2. "settle" \in Pcs
  BY DEF Pcs
<1> QED BY <1>1, <1>2, ThreadTypes, Gone DEF Alone

LEMMA SettleMoves ==
  ASSUME TypeInv, NEW t \in Thread, Settle(t)
  PROVE  Alone(t) /\ thread[t].pc = "settle" /\ thread'[t].pc = "idle"
BY ThreadTypes, Died DEF Alone, Settle

\* A started thread begins.
LEMMA StartThreadMoves ==
  ASSUME TypeInv, StartThread
  PROVE  \E t \in Thread : /\ Alone(t) /\ thread[t].pc = "idle" /\ thread'[t].pc = "begin"
<1>1. PICK t \in Thread \ Active : thread' = [thread EXCEPT ![t] = [Idle EXCEPT !.pc = "begin"]]
  BY DEF StartThread
<1>2. [Idle EXCEPT !.pc = "begin"] \in Record /\ [Idle EXCEPT !.pc = "begin"].pc = "begin"
  BY IdleRecord DEF Record, Pcs
<1>3. thread[t].pc = "idle"
  BY DEF Active
<1>4. /\ thread' \in [Thread -> Record] /\ thread'[t] = [Idle EXCEPT !.pc = "begin"]
      /\ \A u \in Thread \ {t} : thread'[u] = thread[u]
  BY <1>1, <1>2, ThreadTypes, Placed
<1> QED BY <1>2, <1>3, <1>4 DEF Alone

-----------------------------------------------------------------------------
(***************************************************************************)
(* Types.                                                                  *)
(***************************************************************************)
\* What a listener's step leaves alone, or sets within its type.
Globals ==
  /\ connected \in BOOLEAN /\ ws_shutdown \in BOOLEAN /\ plex \in BOOLEAN /\ asking \in BOOLEAN
  /\ serverUp \in {"unknown", "up", "down"}
  /\ starter \in {"idle", "checking"}
  /\ settings \in {"idle", "shutdown", "close", "clear", "start"}
  /\ outages \in 0..MaxOutages /\ switches \in 0..MaxSwitches
Pongs == pong \in [timer : {"none", "running", "expired"}, strays : Nat, on : Nat,
                   count : 0..(Attempts - 1), closing : BOOLEAN]
Sockets == socket \in Nat /\ open \subseteq Nat /\ IsFiniteSet(open)
Queues == jobs \subseteq {"connect", "ping", "intdown"} /\ notices \in Seq({"up", "down"})
Threads == thread \in [Thread -> Record]

LEMMA TypesByPart == TypeInv <=> Globals /\ Pongs /\ Sockets /\ Queues /\ Threads
<1>1. TypeInv => Globals /\ Pongs /\ Sockets /\ Queues
  BY DEF TypeInv, TypeOK, Globals, Pongs, Sockets, Queues
<1>2. TypeInv => Threads
  BY ThreadTypes DEF Threads
<1>3. Globals /\ Pongs /\ Sockets /\ Queues /\ Threads => TypeInv
  BY DEF TypeInv, TypeOK, Globals, Pongs, Sockets, Queues, Threads, Record, Pcs
<1> QED BY <1>1, <1>2, <1>3

LEMMA TypesByPartNext ==
  Globals' /\ Pongs' /\ Sockets' /\ Queues' /\ Threads' => TypeInv'
BY DEF TypeInv, TypeOK, Globals, Pongs, Sockets, Queues, Threads, Record, Pcs

LEMMA JobTypes ==
  ASSUME NEW set \in SUBSET {"connect", "ping", "intdown"}
  PROVE  /\ Scheduled(set) \subseteq {"connect", "ping", "intdown"}
         /\ Removed(set) \subseteq {"connect", "ping", "intdown"}
         /\ Armed(set) \subseteq {"connect", "ping", "intdown"}
BY DEF Scheduled, Removed, Armed

LEMMA SocketTypes ==
  ASSUME TypeInv, NotOpened \/ Opened
  PROVE  Sockets' /\ connected' \in BOOLEAN
<1>1. CASE NotOpened
  BY <1>1 DEF NotOpened, TypeInv, TypeOK, Sockets
<1>2. CASE Opened
  <2>1. NewSocket \in Nat
    BY NewSocketFresh
  <2>2. socket' = NewSocket /\ open' = open \cup {NewSocket} /\ connected' = TRUE
    BY <1>2 DEF Opened
  <2>3. IsFiniteSet(open \cup {NewSocket})
    BY FS_AddElement DEF TypeInv
  <2> HIDE DEF NewSocket
  <2>4. open \cup {NewSocket} \subseteq Nat
    BY <2>1 DEF TypeInv, TypeOK
  <2> QED BY <2>1, <2>2, <2>3, <2>4 DEF Sockets
<1> QED BY <1>1, <1>2

LEMMA CloseTypes ==
  ASSUME TypeInv, NEW gone, open' = open \ gone, socket' = socket
  PROVE  Sockets'
<1>1. IsFiniteSet(open \ gone)
  BY FS_Subset DEF TypeInv
<1> QED BY <1>1 DEF Sockets, TypeInv, TypeOK

LEMMA PingTypes == TypeInv => Pinged \in [timer : {"none", "running", "expired"}, strays : Nat,
                               on : Nat, count : 0..(Attempts - 1), closing : BOOLEAN]
<1> SUFFICES ASSUME TypeInv
             PROVE  Pinged \in [timer : {"none", "running", "expired"}, strays : Nat, on : Nat,
                                count : 0..(Attempts - 1), closing : BOOLEAN]
  OBVIOUS
<1> DEFINE n == IF pong.timer = "running" THEN pong.strays + 1 ELSE pong.strays
<1>1. pong \in [timer : {"none", "running", "expired"}, strays : Nat, on : Nat,
                count : 0..(Attempts - 1), closing : BOOLEAN] /\ socket \in Nat
  BY DEF TypeInv, TypeOK
<1>2. n \in Nat
  BY <1>1
<1>3. Pinged = [pong EXCEPT !.timer = "running", !.on = socket, !.strays = n]
  BY DEF Pinged
<1> HIDE DEF n
<1> QED BY <1>1, <1>2, <1>3

LEMMA RunTypes ==
  ASSUME TypeInv, NEW t \in Thread, Run(t)
  PROVE  TypeInv'
<1> USE DEF Globals, Pongs, Sockets, Queues
<1>0. Globals /\ Pongs /\ Sockets /\ Queues
  BY TypesByPart
<1>1. CASE Begin(t)
  <2>1. Threads'
    BY <1>1, BeginMoves DEF Alone, Threads
  <2> QED BY <1>0, <1>1, <2>1, TypesByPartNext DEF Begin
<1>2. CASE Open(t)
  <2>1. Threads'
    BY <1>2, OpenMoves DEF Alone, Threads
  <2>2. Sockets' /\ connected' \in BOOLEAN
    BY <1>2, SocketTypes DEF Open
  <2>3. UNCHANGED <<ws_shutdown, serverUp, starter, settings, pong, jobs, asking, notices, plex,
                    outages, switches>>
    BY <1>2 DEF Open
  <2> QED BY <1>0, <2>1, <2>2, <2>3, TypesByPartNext
<1>3. CASE OnConnect(t)
  <2>1. Threads'
    BY <1>3, OnConnectMoves DEF Alone, Threads
  <2>2. serverUp' \in {serverUp, "up"}
    BY <1>3 DEF OnConnect
  <2> QED BY <1>0, <1>3, <2>1, <2>2, TypesByPartNext DEF OnConnect
<1>4. CASE CancelDown(t)
  <2>1. Threads'
    BY <1>4, CancelDownMoves DEF Alone, Threads
  <2>2. jobs' \subseteq jobs
    BY <1>4, CancelDownMoves
  <2> QED BY <1>0, <1>4, <2>1, <2>2, TypesByPartNext DEF CancelDown
<1>5. CASE SayUp(t)
  <2>1. Threads'
    BY <1>5, SayUpMoves DEF Alone, Threads
  <2>2. notices' \in Seq({"up", "down"})
    BY <1>0, <1>5 DEF SayUp
  <2> QED BY <1>0, <1>5, <2>1, <2>2, TypesByPartNext DEF SayUp
<1>6. CASE SetJobs(t)
  <2>1. Threads'
    BY <1>6, SetJobsMoves DEF Alone, Threads
  <2>2. jobs' \subseteq {"connect", "ping", "intdown"}
    BY <1>0, <1>6, JobTypes DEF SetJobs
  <2> QED BY <1>0, <1>6, <2>1, <2>2, TypesByPartNext DEF SetJobs
<1>7. CASE FirstPing(t)
  <2>1. Threads'
    BY <1>7, FirstPingMoves DEF Alone, Threads
  <2>2. Pongs'
    BY <1>0, <1>7, PingTypes DEF FirstPing
  <2> QED BY <1>0, <1>7, <2>1, <2>2, TypesByPartNext DEF FirstPing
<1>8. CASE Loop(t)
  <2>1. Threads'
    BY <1>8, LoopMoves DEF Alone, Threads
  <2> QED BY <1>0, <1>8, <2>1, TypesByPartNext DEF Loop
<1>9. CASE Receive(t)
  <2>1. Threads'
    BY <1>9, ReceiveMoves DEF Alone, Threads
  <2>2. Pongs'
    <3>1. 0 \in 0..(Attempts - 1)
      BY SupervisorAssumption
    <3> QED BY <1>0, <1>9, <3>1 DEF Receive
  <2> QED BY <1>0, <1>9, <2>1, <2>2, TypesByPartNext DEF Receive
<1>10. CASE Lost(t)
  <2>1. Threads'
    BY <1>10, LostMoves DEF Alone, Threads
  <2> QED BY <1>0, <1>10, <2>1, TypesByPartNext DEF Lost
<1>11. CASE Retry(t)
  <2>1. Threads'
    BY <1>11, RetryMoves DEF Alone, Threads
  <2>2. Sockets' /\ connected' \in BOOLEAN
    BY <1>11, SocketTypes DEF Retry
  <2>3. UNCHANGED <<ws_shutdown, serverUp, starter, settings, pong, jobs, asking, notices, plex,
                    outages, switches>>
    BY <1>11 DEF Retry
  <2> QED BY <1>0, <2>1, <2>2, <2>3, TypesByPartNext
<1>12. CASE Close(t)
  <2>1. Threads'
    BY <1>12, CloseMoves DEF Alone, Threads
  <2>2. Sockets'
    <3>1. socket' = socket /\ (open' = open \ {socket} \/ open' = open)
      BY <1>12 DEF Close
    <3> QED BY <1>0, <3>1, CloseTypes
  <2>3. connected' \in BOOLEAN
    BY <1>0, <1>12, CloseMoves DEF Close, Disconnected
  <2>4. UNCHANGED <<ws_shutdown, serverUp, starter, settings, pong, jobs, asking, notices, plex,
                    outages, switches>>
    BY <1>12 DEF Close
  <2> QED BY <1>0, <2>1, <2>2, <2>3, <2>4, TypesByPartNext
<1>13. CASE Leave(t)
  <2>1. Threads'
    BY <1>13, LeaveMoves DEF Alone, Threads
  <2> QED BY <1>0, <1>13, <2>1, TypesByPartNext DEF Leave
<1>14. CASE OnDisconnect(t)
  <2>1. Threads'
    BY <1>14, OnDisconnectMoves DEF Alone, Threads
  <2> QED BY <1>0, <1>14, <2>1, TypesByPartNext DEF OnDisconnect
<1>15. CASE ScheduleDown(t)
  <2>1. Threads'
    BY <1>15, ScheduleDownMoves DEF Alone, Threads
  <2>2. jobs' \subseteq {"connect", "ping", "intdown"}
    BY <1>0, <1>15, JobTypes DEF ScheduleDown
  <2> QED BY <1>0, <1>15, <2>1, <2>2, TypesByPartNext DEF ScheduleDown
<1>16. CASE Settle(t)
  <2>1. Threads'
    BY <1>16, SettleMoves DEF Alone, Threads
  <2>2. jobs' \subseteq {"connect", "ping", "intdown"}
    BY <1>0, <1>16, JobTypes DEF Settle
  <2> QED BY <1>0, <1>16, <2>1, <2>2, TypesByPartNext DEF Settle
<1> QED BY <1>1, <1>2, <1>3, <1>4, <1>5, <1>6, <1>7, <1>8, <1>9, <1>10, <1>11, <1>12, <1>13, <1>14,
           <1>15, <1>16 DEF Run

LEMMA TypeKept ==
  ASSUME TypeInv, [Next]_vars
  PROVE  TypeInv'
<1> USE DEF Globals, Pongs, Sockets, Queues
<1>0. Globals /\ Pongs /\ Sockets /\ Queues /\ Threads
  BY TypesByPart
<1>1. CASE ConnectJob
  BY <1>0, <1>1, TypesByPartNext DEF ConnectJob, Threads
<1>2. CASE StartThread
  <2>1. Threads'
    BY <1>2, StartThreadMoves DEF Alone, Threads
  <2>2. starter' \in {"idle", starter} /\ settings' \in {"idle", settings}
    BY <1>2 DEF StartThread
  <2>3. UNCHANGED <<connected, ws_shutdown, serverUp, socket, open, pong, jobs, asking,
                    notices, plex, outages, switches>>
    BY <1>2 DEF StartThread
  <2> QED BY <1>0, <2>1, <2>2, <2>3, TypesByPartNext
<1>3. CASE Reschedule
  <2>1. jobs' \subseteq {"connect", "ping", "intdown"}
    BY <1>0, <1>3, JobTypes DEF Reschedule
  <2>2. switches' \in 0..MaxSwitches
    BY <1>0, <1>3, SupervisorAssumption DEF Reschedule
  <2> QED BY <1>0, <1>3, <2>1, <2>2, TypesByPartNext DEF Reschedule, Threads
<1>4. CASE FireDown
  BY <1>0, <1>4, TypesByPartNext DEF FireDown, Threads
<1>14. CASE SayDown
  <2>1. notices' \in Seq({"up", "down"})
    BY <1>0, <1>14 DEF SayDown
  <2> QED BY <1>0, <1>14, <2>1, TypesByPartNext DEF SayDown, Threads
<1>5. CASE PingJob
  <2>1. Pongs'
    BY <1>5, PingTypes DEF PingJob
  <2> QED BY <1>0, <1>5, <2>1, TypesByPartNext DEF PingJob, Threads
<1>6. CASE WaitPong
  <2>1. PICK expired \in {[pong EXCEPT !.timer = "expired"], [pong EXCEPT !.strays = @ - 1]} :
          /\ expired.strays >= 0
          /\ IF TooManyMissed(pong.count + 1)
             THEN /\ pong' = [expired EXCEPT !.count = 0, !.closing = TRUE]
                  /\ open' = open \ {socket}
             ELSE pong' = [expired EXCEPT !.count = @ + 1] /\ UNCHANGED open
    BY <1>6 DEF WaitPong
  <2>2. expired \in [timer : {"none", "running", "expired"}, strays : Nat, on : Nat,
                     count : 0..(Attempts - 1), closing : BOOLEAN] /\ expired.count = pong.count
    BY <1>0, <2>1
  <2>3. Pongs'
    <3>1. CASE TooManyMissed(pong.count + 1)
      <4>1. 0 \in 0..(Attempts - 1)
        BY SupervisorAssumption
      <4> QED BY <2>1, <2>2, <3>1, <4>1
    <3>2. CASE ~TooManyMissed(pong.count + 1)
      <4>1. pong.count + 1 \in 0..(Attempts - 1)
        BY <1>0, <3>2, SupervisorAssumption DEF TooManyMissed
      <4> QED BY <2>1, <2>2, <3>2, <4>1
    <3> QED BY <3>1, <3>2
  <2>4. Sockets'
    <3>1. socket' = socket /\ (open' = open \ {socket} \/ open' = open)
      BY <1>6, <2>1 DEF WaitPong
    <3> QED BY <1>0, <3>1, CloseTypes
  <2>5. UNCHANGED <<connected, ws_shutdown, serverUp, thread, starter, settings, jobs,
                    asking, notices, plex, outages, switches>>
    BY <1>6 DEF WaitPong
  <2> QED BY <1>0, <2>3, <2>4, <2>5, TypesByPartNext DEF Threads
<1>7. CASE PongClosed
  BY <1>0, <1>7, TypesByPartNext DEF PongClosed, Threads
<1>8. CASE SwitchServer
  <2>1. switches' \in 0..MaxSwitches
    BY <1>0, <1>8, SupervisorAssumption DEF SwitchServer
  <2> QED BY <1>0, <1>8, <2>1, TypesByPartNext DEF SwitchServer, Threads
<1>9. CASE Shutdown
  <2>1. Sockets'
    <3>1. socket' = socket /\ (open' = open \ {socket} \/ open' = open)
      BY <1>9 DEF Shutdown
    <3> QED BY <1>0, <3>1, CloseTypes
  <2>2. /\ settings' \in {"close", "clear", "start"} /\ ws_shutdown' \in {TRUE, ws_shutdown}
        /\ connected' \in {FALSE, connected}
    BY <1>9 DEF Shutdown
  <2>3. UNCHANGED <<serverUp, thread, starter, pong, jobs, asking, notices, plex, outages,
                    switches>>
    BY <1>9 DEF Shutdown
  <2>4. Globals'
    BY <1>0, <2>2, <2>3
  <2>5. Pongs' /\ Queues' /\ Threads'
    BY <1>0, <2>3 DEF Threads
  <2> QED BY <2>1, <2>4, <2>5, TypesByPartNext
<1>10. CASE \E t \in Thread : Run(t)
  BY <1>10, RunTypes
<1>11. CASE GoAway
  <2>1. Sockets'
    <3>1. socket' = socket /\ (open' = open \/ open' = {})
      BY <1>11 DEF GoAway
    <3> QED BY <1>0, <3>1, FS_EmptySet
  <2>2. outages' \in 0..MaxOutages
    <3>1. outages < MaxOutages /\ outages' = outages + 1
      BY <1>11 DEF GoAway
    <3> QED BY <1>0, <3>1, SupervisorAssumption
  <2>4. plex' \in BOOLEAN
    BY <1>11 DEF GoAway
  <2>3. UNCHANGED <<connected, ws_shutdown, serverUp, thread, starter, settings, pong, jobs,
                    asking, notices, switches>>
    BY <1>11 DEF GoAway
  <2> QED BY <1>0, <2>1, <2>2, <2>3, <2>4, TypesByPartNext DEF Threads
<1>12. CASE ComeBack
  <2>1. Sockets'
    BY <1>0, <1>12, FS_EmptySet DEF ComeBack
  <2> QED BY <1>0, <1>12, <2>1, TypesByPartNext DEF ComeBack, Threads
<1>13. CASE UNCHANGED vars
  BY <1>0, <1>13, TypesByPartNext DEF vars, Threads
<1> QED BY <1>1, <1>2, <1>3, <1>4, <1>5, <1>6, <1>7, <1>8, <1>9, <1>10, <1>11, <1>12, <1>13,
           <1>14 DEF Next

LEMMA TypeInit == Init => TypeInv
<1> SUFFICES ASSUME Init PROVE TypeInv
  OBVIOUS
<1>1. Globals
  <2>1. 0 \in 0..MaxOutages /\ 0 \in 0..MaxSwitches
    BY SupervisorAssumption
  <2>2. connected \in BOOLEAN /\ ws_shutdown \in BOOLEAN /\ plex \in BOOLEAN
    BY DEF Init
  <2> QED BY <2>1, <2>2 DEF Init, Globals
<1>4. Pongs
  <2>1. 0 \in 0..(Attempts - 1)
    BY SupervisorAssumption
  <2> QED BY <2>1 DEF Init, Pongs, NoSocket
<1>5. Queues
  BY DEF Init, Queues
<1>2. Sockets
  BY FS_EmptySet DEF Init, Sockets, NoSocket
<1>3. Threads
  BY IdleRecord DEF Init, Threads
<1> QED BY <1>1, <1>2, <1>3, <1>4, <1>5, TypesByPart

LEMMA Typed == Spec => []TypeInv
<1> QED BY TypeInit, TypeKept, PTL DEF Spec

\* The globals, the threads and the jobs keep their types: a pong counter never
\* reaches the number of attempts, and every connection number is fresh.
THEOREM TypeCorrect == Spec => []TypeOK
<1>1. TypeInv => TypeOK
  BY DEF TypeInv
<1> QED BY <1>1, Typed, PTL

-----------------------------------------------------------------------------
(***************************************************************************)
(* Somebody looks after the connection, without pings (the default).       *)
(*                                                                         *)
(* A thread that is about to die does not count: the one that removes the  *)
(* job of an outage after it has gone.  Nobody may go in the belief that   *)
(* another is there: who finds the connection made, or the shutdown asked  *)
(* for, must be right that somebody else reads, or soon will.              *)
(***************************************************************************)
Live(t) == thread[t].pc # "idle" /\ (thread[t].pc = "remove" => "intdown" \in jobs)
Serving(t) == Live(t) /\ thread[t].pc \notin {"leave", "down", "arm", "settle"}
Restarting == settings \in {"close", "clear", "start"}

ShutdownIsFollowed == ws_shutdown => Restarting \/ \E t \in Thread : thread[t].pc = "begin"
ConnectionIsServed == connected => Restarting \/ \E t \in Thread : Serving(t)
SomebodyLives ==
  starter = "checking" \/ settings # "idle" \/ "connect" \in jobs \/ \E t \in Thread : Live(t)
NoFirstPing == \A t \in Thread : thread[t].pc # "ping"

WatchInv == ShutdownIsFollowed /\ ConnectionIsServed /\ SomebodyLives /\ NoFirstPing

\* The rest of the state is as it was for the listeners' watch.
Aside == UNCHANGED <<thread, jobs, ws_shutdown, connected, settings, starter>>

LEMMA AsideWatched == ASSUME WatchInv, Aside PROVE WatchInv'
BY DEF WatchInv, Aside, ShutdownIsFollowed, ConnectionIsServed, SomebodyLives, NoFirstPing, Live,
       Serving, Restarting

\* Whoever serves the connection keeps the watch.
LEMMA ServerWatches ==
  ASSUME WatchInv, NEW t \in Thread, Alone(t), settings' = settings,
         thread'[t].pc \notin {"idle", "leave", "down", "arm", "settle", "ping"},
         thread'[t].pc = "remove" => "intdown" \in jobs',
         ws_shutdown' => ws_shutdown /\ thread[t].pc # "begin"
  PROVE  WatchInv'
<1>1. Serving(t)' /\ Live(t)'
  BY DEF Serving, Live
<1>2. ConnectionIsServed' /\ SomebodyLives'
  BY <1>1 DEF ConnectionIsServed, SomebodyLives
<1>3. ShutdownIsFollowed'
  BY DEF WatchInv, ShutdownIsFollowed, Restarting, Alone
<1>4. NoFirstPing'
  BY DEF WatchInv, NoFirstPing, Alone
<1> QED BY <1>2, <1>3, <1>4 DEF WatchInv

\* The others go on while the job of an outage is not taken from them.
LEMMA OthersServe ==
  ASSUME NEW t \in Thread, Alone(t), "intdown" \in jobs => "intdown" \in jobs'
  PROVE  \A u \in Thread \ {t} : /\ Serving(u) => Serving(u)'
                                 /\ Live(u) => Live(u)'
                                 /\ thread[u].pc = "begin" => thread'[u].pc = "begin"
BY DEF Alone, Serving, Live

\* Whoever does not serve any more finds the connection given up, or leaves it to
\* another; and when he goes, another is there or the job will look.
LEMMA OtherWatches ==
  ASSUME WatchInv, NEW t \in Thread, Alone(t), settings' = settings, ws_shutdown' = ws_shutdown,
         "intdown" \in jobs => "intdown" \in jobs', thread[t].pc # "begin",
         thread'[t].pc # "ping",
         connected' => connected /\ (Serving(t) => ws_shutdown),
         \/ Live(t)'
         \/ "connect" \in jobs'
         \/ connected /\ ~Serving(t)
         \/ ws_shutdown
         \/ ~Live(t) /\ jobs' = jobs /\ starter' = starter
  PROVE  WatchInv'
<1>1. \A u \in Thread \ {t} : /\ Serving(u) => Serving(u)'
                              /\ Live(u) => Live(u)'
                              /\ thread[u].pc = "begin" => thread'[u].pc = "begin"
  BY OthersServe
<1>2. \A u \in Thread : thread[u].pc = "begin" => Serving(u)
  BY DEF Serving, Live
<1>3. \A u \in Thread : Serving(u) => Live(u)
  BY DEF Serving
<1>4. ShutdownIsFollowed'
  BY <1>1 DEF WatchInv, ShutdownIsFollowed, Restarting
<1>5. ws_shutdown => Restarting' \/ \E u \in Thread \ {t} : Serving(u)'
  BY <1>1, <1>2 DEF WatchInv, ShutdownIsFollowed, Restarting
<1>6. connected => Restarting' \/ (\E u \in Thread \ {t} : Serving(u)') \/ Serving(t)
  BY <1>1 DEF WatchInv, ConnectionIsServed, Restarting
<1>7. ConnectionIsServed'
  BY <1>5, <1>6 DEF ConnectionIsServed
<1>8. SomebodyLives'
  <2>1. CASE Live(t)' \/ "connect" \in jobs'
    BY <2>1 DEF SomebodyLives
  <2>2. CASE ~Live(t) /\ jobs' = jobs /\ starter' = starter
    BY <1>1, <2>2 DEF WatchInv, SomebodyLives
  <2>3. CASE (connected /\ ~Serving(t)) \/ ws_shutdown
    <3>1. Restarting' => settings' # "idle"
      BY DEF Restarting
    <3>2. CASE Restarting' \/ \E u \in Thread \ {t} : Serving(u)'
      <4>1. CASE Restarting'
        BY <3>1, <4>1 DEF SomebodyLives
      <4>2. CASE \E u \in Thread \ {t} : Serving(u)'
        BY <4>2 DEF SomebodyLives, Serving
      <4> QED BY <3>2, <4>1, <4>2
    <3> QED BY <1>5, <1>6, <2>3, <3>2
  <2> QED BY <2>1, <2>2, <2>3
<1>9. NoFirstPing'
  BY DEF WatchInv, NoFirstPing, Alone
<1> QED BY <1>4, <1>7, <1>8, <1>9 DEF WatchInv

LEMMA RunWatched ==
  ASSUME TypeInv, WatchInv, ~PingPong, NEW t \in Thread, Run(t)
  PROVE  WatchInv'
<1>1. CASE Begin(t)
  <2>1. Alone(t) /\ thread'[t].pc = "open" /\ settings' = settings /\ ~ws_shutdown'
    BY <1>1, BeginMoves DEF Begin
  <2> QED BY <2>1, ServerWatches
<1>2. CASE Open(t)
  <2>1. /\ Alone(t) /\ thread[t].pc = "open" /\ thread'[t].pc = "opened"
        /\ settings' = settings /\ ws_shutdown' = ws_shutdown
    BY <1>2, OpenMoves DEF Open
  <2> QED BY <2>1, ServerWatches
<1>3. CASE OnConnect(t)
  <2>1. /\ Alone(t) /\ thread[t].pc = "opened" /\ settings' = settings
        /\ ws_shutdown' = ws_shutdown /\ connected' = connected /\ jobs' = jobs
    BY <1>3, OnConnectMoves DEF OnConnect
  <2>2. CASE connected /\ thread'[t].pc \in {"jobs", "cancel", "say"}
    BY <2>1, <2>2, ServerWatches
  <2>3. CASE ~connected /\ thread'[t].pc = "leave"
    <3>1. Live(t)'
      BY <2>3 DEF Live
    <3> QED BY <2>1, <2>3, <3>1, OtherWatches
  <2> QED BY <1>3, <2>2, <2>3, OnConnectMoves
<1>4. CASE CancelDown(t)
  <2>1. Alone(t) /\ settings' = settings /\ ws_shutdown' = ws_shutdown /\ connected' = connected
        /\ starter' = starter
    BY <1>4, CancelDownMoves DEF CancelDown
  <2>2. CASE thread[t].pc = "cancel" /\ thread'[t].pc = "remove" /\ "intdown" \in jobs'
    BY <2>1, <2>2, ServerWatches
  <2>3. CASE thread[t].pc \in {"cancel", "remove"} /\ thread'[t].pc = "jobs"
    BY <2>1, <2>3, ServerWatches
  <2>4. CASE thread[t].pc = "remove" /\ thread'[t].pc = "idle" /\ "intdown" \notin jobs /\ jobs' = jobs
    <3>1. ~Live(t) /\ ~Serving(t)
      BY <2>4 DEF Live, Serving
    <3> QED BY <2>1, <2>4, <3>1, OtherWatches
  <2>5. \/ thread[t].pc = "cancel" /\ thread'[t].pc = "remove" /\ "intdown" \in jobs'
        \/ thread[t].pc \in {"cancel", "remove"} /\ thread'[t].pc = "jobs"
        \/ thread[t].pc = "remove" /\ thread'[t].pc = "idle" /\ "intdown" \notin jobs /\ jobs' = jobs
    BY <1>4, CancelDownMoves
  <2> QED BY <2>2, <2>3, <2>4, <2>5
<1>5. CASE SayUp(t)
  <2>1. /\ Alone(t) /\ thread[t].pc = "say" /\ thread'[t].pc = "jobs"
        /\ settings' = settings /\ ws_shutdown' = ws_shutdown
    BY <1>5, SayUpMoves DEF SayUp
  <2> QED BY <2>1, ServerWatches
<1>6. CASE SetJobs(t)
  <2>1. /\ Alone(t) /\ thread[t].pc = "jobs" /\ thread'[t].pc = "loop"
        /\ settings' = settings /\ ws_shutdown' = ws_shutdown
    BY <1>6, SetJobsMoves DEF SetJobs
  <2> QED BY <2>1, ServerWatches
<1>7. ~FirstPing(t)
  BY FirstPingMoves DEF WatchInv, NoFirstPing
<1>8. CASE Loop(t)
  <2>1. /\ Alone(t) /\ thread[t].pc = "loop" /\ settings' = settings
        /\ ws_shutdown' = ws_shutdown /\ connected' = connected /\ jobs' = jobs
    BY <1>8, LoopMoves DEF Loop
  <2>2. CASE connected /\ thread'[t].pc = "recv"
    BY <2>1, <2>2, ServerWatches
  <2>3. CASE ~connected /\ thread'[t].pc = "leave"
    <3>1. Live(t)'
      BY <2>3 DEF Live
    <3> QED BY <2>1, <2>3, <3>1, OtherWatches
  <2>4. thread'[t].pc = IF connected THEN "recv" ELSE "leave"
    BY <1>8, LoopMoves
  <2> QED BY <2>2, <2>3, <2>4
<1>9. CASE Receive(t)
  <2>1. /\ Alone(t) /\ thread[t].pc = "recv" /\ thread'[t].pc = "loop"
        /\ settings' = settings /\ ws_shutdown' = ws_shutdown
    BY <1>9, ReceiveMoves DEF Receive
  <2> QED BY <2>1, ServerWatches
<1>10. CASE Lost(t)
  <2>1. /\ Alone(t) /\ thread[t].pc = "recv" /\ settings' = settings
        /\ ws_shutdown' = ws_shutdown /\ connected' = connected /\ jobs' = jobs
    BY <1>10, LostMoves DEF Lost
  <2>2. CASE thread'[t].pc \in {"retry", "close"}
    BY <2>1, <2>2, ServerWatches
  <2>3. CASE ws_shutdown /\ thread'[t].pc = "leave"
    <3>1. Live(t)'
      BY <2>3 DEF Live
    <3> QED BY <2>1, <2>3, <3>1, OtherWatches
  <2> QED BY <1>10, <2>2, <2>3, LostMoves
<1>11. CASE Retry(t)
  <2>1. /\ Alone(t) /\ thread[t].pc = "retry" /\ thread'[t].pc = "loop"
        /\ settings' = settings /\ ws_shutdown' = ws_shutdown
    BY <1>11, RetryMoves DEF Retry
  <2> QED BY <2>1, ServerWatches
<1>12. CASE Close(t)
  <2>1. Alone(t) /\ settings' = settings /\ ws_shutdown' = ws_shutdown /\ jobs' = jobs
    BY <1>12, CloseMoves DEF Close
  <2>2. CASE thread[t].pc = "close" /\ thread'[t].pc = "clear"
    BY <2>1, <2>2, ServerWatches
  <2>3. CASE thread[t].pc = "clear" /\ thread'[t].pc = "leave" /\ ~connected'
    <3>1. Live(t)'
      BY <2>3 DEF Live
    <3> QED BY <2>1, <2>3, <3>1, OtherWatches
  <2> QED BY <1>12, <2>2, <2>3, CloseMoves
<1>13. CASE Leave(t)
  <2>1. /\ Alone(t) /\ thread[t].pc = "leave" /\ settings' = settings
        /\ ws_shutdown' = ws_shutdown /\ connected' = connected /\ jobs' = jobs
    BY <1>13, LeaveMoves DEF Leave
  <2>2. ~Serving(t)
    BY <2>1 DEF Serving
  <2>3. CASE thread'[t].pc = "down"
    <3>1. Live(t)'
      BY <2>3 DEF Live
    <3> QED BY <2>1, <2>2, <2>3, <3>1, OtherWatches
  <2>4. CASE (connected \/ ws_shutdown) /\ thread'[t].pc = "idle"
    BY <2>1, <2>2, <2>4, OtherWatches
  <2> QED BY <1>13, <2>3, <2>4, LeaveMoves
<1>14. CASE OnDisconnect(t)
  <2>1. /\ Alone(t) /\ thread[t].pc = "down" /\ settings' = settings
        /\ ws_shutdown' = ws_shutdown /\ connected' = connected /\ jobs' = jobs
        /\ thread'[t].pc \in {"arm", "settle"}
    BY <1>14, OnDisconnectMoves DEF OnDisconnect
  <2>2. ~Serving(t) /\ Live(t)'
    BY <2>1 DEF Serving, Live
  <2> QED BY <2>1, <2>2, OtherWatches
<1>15. CASE ScheduleDown(t)
  <2>1. /\ Alone(t) /\ thread[t].pc = "arm" /\ settings' = settings
        /\ ws_shutdown' = ws_shutdown /\ connected' = connected /\ "intdown" \in jobs'
        /\ thread'[t].pc = "settle"
    BY <1>15, ScheduleDownMoves DEF ScheduleDown, Armed
  <2>2. ~Serving(t) /\ Live(t)'
    BY <2>1 DEF Serving, Live
  <2> QED BY <2>1, <2>2, OtherWatches
<1>16. CASE Settle(t)
  <2>1. /\ Alone(t) /\ thread[t].pc = "settle" /\ settings' = settings
        /\ ws_shutdown' = ws_shutdown /\ connected' = connected
        /\ thread'[t].pc = "idle" /\ jobs' = Scheduled(jobs)
    BY <1>16, SettleMoves DEF Settle
  <2>2. ~Serving(t)
    BY <2>1 DEF Serving
  <2>3. "intdown" \in jobs => "intdown" \in jobs'
    BY <2>1 DEF Scheduled
  <2>4. connected \/ "connect" \in jobs'
    BY <2>1 DEF Scheduled
  <2> QED BY <2>1, <2>2, <2>3, <2>4, OtherWatches
<1> QED BY <1>1, <1>2, <1>3, <1>4, <1>5, <1>6, <1>7, <1>8, <1>9, <1>10, <1>11, <1>12, <1>13, <1>14,
           <1>15, <1>16 DEF Run

LEMMA WatchKept ==
  ASSUME TypeInv, WatchInv, ~PingPong, [Next]_vars
  PROVE  WatchInv'
<1> USE DEF WatchInv, ShutdownIsFollowed, ConnectionIsServed, SomebodyLives, NoFirstPing, Live,
            Serving, Restarting
<1>1. CASE ConnectJob
  BY <1>1 DEF ConnectJob
<1>2. CASE StartThread
  <2>1. PICK t \in Thread : Alone(t) /\ thread[t].pc = "idle" /\ thread'[t].pc = "begin"
    BY <1>2, StartThreadMoves
  <2>2. thread'[t].pc \notin {"remove", "leave", "down", "arm", "settle", "idle"}
    BY <2>1
  <2>3. NoFirstPing'
    BY <2>1 DEF Alone
  <2>4. Serving(t)' /\ Live(t)'
    BY <2>2
  <2> QED BY <2>1, <2>3, <2>4
<1>3. CASE Reschedule
  <2>1. jobs' = Scheduled(jobs) /\ UNCHANGED <<thread, connected, ws_shutdown, settings, starter>>
    BY <1>3 DEF Reschedule
  <2>2. /\ "intdown" \in jobs => "intdown" \in jobs'
        /\ connected \/ "connect" \in jobs'
    BY <2>1 DEF Scheduled
  <2>3. \A t \in Thread : (Serving(t) => Serving(t)') /\ (Live(t) => Live(t)')
    BY <2>1, <2>2
  <2>4. ShutdownIsFollowed' /\ NoFirstPing'
    BY <2>1
  <2>5. ConnectionIsServed'
    BY <2>1, <2>3
  <2>6. SomebodyLives'
    <3>1. CASE connected
      <4>1. CASE Restarting
        BY <2>1, <4>1
      <4>2. CASE \E t \in Thread : Serving(t)
        BY <2>3, <4>2
      <4> QED BY <3>1, <4>1, <4>2
    <3>2. CASE "connect" \in jobs'
      BY <3>2
    <3> QED BY <2>2, <3>1, <3>2
  <2> QED BY <2>4, <2>5, <2>6
<1>4. CASE FireDown
  <2>1. /\ jobs' = jobs \ {"intdown"} /\ UNCHANGED <<thread, connected, ws_shutdown, settings, starter>>
        /\ \A t \in Thread : thread[t].pc # "remove"
    BY <1>4 DEF FireDown, At
  <2>2. \A t \in Thread : (Serving(t) => Serving(t)') /\ (Live(t) => Live(t)')
    BY <2>1
  <2>3. "connect" \in jobs => "connect" \in jobs'
    BY <2>1
  <2>4. ShutdownIsFollowed' /\ NoFirstPing'
    BY <2>1
  <2>5. ConnectionIsServed'
    BY <2>1, <2>2
  <2>6. SomebodyLives'
    BY <2>1, <2>2, <2>3
  <2> QED BY <2>4, <2>5, <2>6
<1>14. CASE SayDown
  BY <1>14, AsideWatched DEF SayDown, Aside
<1>5. CASE PingJob
  BY <1>5, AsideWatched DEF PingJob, Aside
<1>6. CASE WaitPong
  BY <1>6, AsideWatched DEF WaitPong, Aside
<1>7. CASE PongClosed
  BY <1>7 DEF PongClosed
<1>8. CASE SwitchServer
  BY <1>8 DEF SwitchServer
<1>9. CASE Shutdown
  BY <1>9 DEF Shutdown
<1>10. CASE \E t \in Thread : Run(t)
  BY <1>10, RunWatched
<1>11. CASE GoAway
  BY <1>11, AsideWatched DEF GoAway, Aside
<1>12. CASE ComeBack
  BY <1>12, AsideWatched DEF ComeBack, Aside
<1>13. CASE UNCHANGED vars
  BY <1>13, AsideWatched DEF vars, Aside
<1> QED BY <1>1, <1>2, <1>3, <1>4, <1>5, <1>6, <1>7, <1>8, <1>9, <1>10, <1>11, <1>12, <1>13,
           <1>14 DEF Next

LEMMA WatchInit == Init => WatchInv
<1> SUFFICES ASSUME Init PROVE WatchInv
  OBVIOUS
<1>1. \A t \in Thread : thread[t].pc = "idle"
  BY DEF Init, Idle
<1> QED BY <1>1 DEF Init, WatchInv, ShutdownIsFollowed, ConnectionIsServed, SomebodyLives, NoFirstPing

\* CHANGELOG.md:83: without pings, which is the default, somebody always listens, is
\* about to, or the job will look for the server, however many threads there are and
\* whatever the server and the settings do.
THEOREM WatchCorrect == ASSUME ~PingPong PROVE Spec => []Supervised
<1>1. WatchInv => Supervised
  BY DEF WatchInv, SomebodyLives, Live, Supervised, Active
<1>2. TypeInv /\ WatchInv /\ [Next]_vars => WatchInv'
  BY WatchKept
<1> QED BY <1>1, <1>2, WatchInit, Typed, PTL DEF Spec

-----------------------------------------------------------------------------
(***************************************************************************)
(* What the user is told of outages, while the server is not changed.      *)
(*                                                                         *)
(* Then there is one listener at a time, and who starts the next waits     *)
(* until it is gone.  So whoever notes a change of the server's state acts *)
(* on it before anybody notes another, and the job that announces an       *)
(* outage is there only while the outage lasts or its end is being noted.  *)
(***************************************************************************)
OneListener ==
  /\ settings = "idle"
  /\ \A t, u \in Thread : thread[t].pc # "idle" /\ thread[u].pc # "idle" => t = u
  /\ starter = "checking" => \A t \in Thread : thread[t].pc = "idle"

\* Where the listener is, if there is one.
Is(pc) == \E t \in Thread : thread[t].pc = pc

NotedInv ==
  /\ Is("arm") => serverUp = "down" /\ "intdown" \notin jobs
  /\ Is("say") => serverUp = "up" /\ "intdown" \notin jobs
  /\ "intdown" \in jobs => serverUp = "down" \/ Is("cancel") \/ Is("remove")

\* The state of the server and the waiting outage, as the rule sees them.
Shown == IF At({"say"}) # {} THEN "down" ELSE IF At({"arm"}) # {} THEN "up" ELSE serverUp
Waits == "intdown" \in jobs /\ At({"cancel", "remove"}) = {}

\* The same by where the one listener is.
ShownAt(pc, up) == IF pc = "say" THEN "down" ELSE IF pc = "arm" THEN "up" ELSE up
WaitsAt(pc, set) == "intdown" \in set /\ pc \notin {"cancel", "remove"}

Aloof(t) == \A u \in Thread \ {t} : thread[u].pc = "idle"

LEMMA SeenAlone ==
  ASSUME NEW t \in Thread, Aloof(t)
  PROVE  /\ Shown = ShownAt(thread[t].pc, serverUp)
         /\ Waits <=> WaitsAt(thread[t].pc, jobs)
         /\ \A pc \in Pcs \ {"idle"} : Is(pc) <=> thread[t].pc = pc
<1>1. \A pc \in Pcs \ {"idle"} : At({pc}) # {} <=> thread[t].pc = pc
  BY DEF Aloof, At
<1>2. At({"cancel", "remove"}) = {} <=> thread[t].pc \notin {"cancel", "remove"}
  BY DEF Aloof, At
<1>3. At({"say"}) # {} <=> thread[t].pc = "say"
  BY DEF Aloof, At
<1>4. At({"arm"}) # {} <=> thread[t].pc = "arm"
  BY DEF Aloof, At
<1>5. Shown = ShownAt(thread[t].pc, serverUp)
  BY <1>3, <1>4 DEF Shown, ShownAt
<1>6. Waits <=> WaitsAt(thread[t].pc, jobs)
  BY <1>2 DEF Waits, WaitsAt
<1>7. \A pc \in Pcs \ {"idle"} : Is(pc) <=> thread[t].pc = pc
  BY DEF Aloof, Is
<1> QED BY <1>5, <1>6, <1>7

LEMMA SeenAloneNext ==
  ASSUME NEW t \in Thread, Aloof(t)'
  PROVE  /\ Shown' = ShownAt(thread'[t].pc, serverUp')
         /\ Waits' <=> WaitsAt(thread'[t].pc, jobs')
         /\ \A pc \in Pcs \ {"idle"} : Is(pc)' <=> thread'[t].pc = pc
<1>2. At({"cancel", "remove"})' = {} <=> thread'[t].pc \notin {"cancel", "remove"}
  BY DEF Aloof, At
<1>3. At({"say"})' # {} <=> thread'[t].pc = "say"
  BY DEF Aloof, At
<1>4. At({"arm"})' # {} <=> thread'[t].pc = "arm"
  BY DEF Aloof, At
<1>5. Shown' = ShownAt(thread'[t].pc, serverUp')
  BY <1>3, <1>4 DEF Shown, ShownAt
<1>6. Waits' <=> WaitsAt(thread'[t].pc, jobs')
  BY <1>2 DEF Waits, WaitsAt
<1>7. \A pc \in Pcs \ {"idle"} : Is(pc)' <=> thread'[t].pc = pc
  BY DEF Aloof, Is
<1> QED BY <1>5, <1>6, <1>7

\* The steps of the rule, in these words.
First ==
  /\ Shown = "unknown" /\ Shown' \in {"up", "down"}
  /\ Waits' = Waits /\ asking' = asking /\ notices' = notices
Fail == Shown = "up" /\ Shown' = "down" /\ Waits' /\ asking' = asking /\ notices' = notices
Lasts == Waits /\ ~Waits' /\ asking' = TRUE /\ Shown' = Shown /\ notices' = notices
Announce ==
  /\ asking /\ asking' = FALSE
  /\ notices' = Append(notices, "down")
  /\ Shown' = Shown /\ Waits' = Waits
Recover ==
  /\ Shown = "down" /\ Shown' = "up" /\ ~Waits' /\ asking' = asking
  /\ notices' = IF Waits THEN notices ELSE Append(notices, "up")
Unsaid == Shown' = Shown /\ Waits' = Waits /\ asking' = asking /\ notices' = notices

LEMMA RuleInOtherWords ==
  /\ Told!Start <=> Shown = "unknown" /\ ~Waits /\ asking = FALSE /\ notices = <<>>
  /\ First => Told!First
  /\ Fail => Told!Fail
  /\ Lasts => Told!Lasts
  /\ Announce => Told!Announce
  /\ Recover => Told!Recover
  /\ Unsaid => UNCHANGED Told!noticeVars
<1>1. Told!Start <=> Shown = "unknown" /\ ~Waits /\ asking = FALSE /\ notices = <<>>
  BY DEF Told!Start, Shown, Waits
<1>2. First => Told!First
  BY DEF First, Told!First, Shown, Waits
<1>3. Fail => Told!Fail
  BY DEF Fail, Told!Fail, Shown, Waits
<1>7. Lasts => Told!Lasts
  BY DEF Lasts, Told!Lasts, Shown, Waits
<1>4. Announce => Told!Announce
  BY DEF Announce, Told!Announce, Shown, Waits
<1>5. Recover => Told!Recover
  BY DEF Recover, Told!Recover, Shown, Waits
<1>6. Unsaid => UNCHANGED Told!noticeVars
  BY DEF Unsaid, Told!noticeVars, Shown, Waits
<1> QED BY <1>1, <1>2, <1>3, <1>4, <1>5, <1>6, <1>7

\* What is known of the outage, by where the one listener is.
Noted(pc, up, set) ==
  /\ pc = "arm" => up = "down" /\ "intdown" \notin set
  /\ pc = "say" => up = "up" /\ "intdown" \notin set
  /\ "intdown" \in set => up = "down" \/ pc \in {"cancel", "remove"}

Follows == First \/ Fail \/ Lasts \/ Announce \/ Recover \/ Unsaid

\* A step of the one listener is seen by where it was and where it goes.
LEMMA StepOfOne ==
  ASSUME OneListener, NotedInv, NEW t \in Thread, Alone(t), thread[t].pc # "idle",
         settings' = settings, starter' = starter
  PROVE  /\ OneListener'
         /\ Noted(thread[t].pc, serverUp, jobs)
         /\ Noted(thread'[t].pc, serverUp', jobs') => NotedInv'
         /\ Shown = ShownAt(thread[t].pc, serverUp) /\ Shown' = ShownAt(thread'[t].pc, serverUp')
         /\ Waits <=> WaitsAt(thread[t].pc, jobs)
         /\ Waits' <=> WaitsAt(thread'[t].pc, jobs')
<1>1. Aloof(t)
  BY DEF OneListener, Aloof
<1>2. Aloof(t)'
  BY <1>1 DEF Aloof, Alone
<1>3. OneListener'
  BY <1>2 DEF OneListener, Aloof
<1>4. {"arm", "say", "cancel", "remove"} \subseteq Pcs \ {"idle"}
  BY DEF Pcs
<1>5. Noted(thread[t].pc, serverUp, jobs)
  BY <1>1, <1>4, SeenAlone DEF Noted, NotedInv
<1>6. Noted(thread'[t].pc, serverUp', jobs') => NotedInv'
  BY <1>2, <1>4, SeenAloneNext DEF Noted, NotedInv
<1> QED BY <1>1, <1>2, <1>3, <1>5, <1>6, SeenAlone, SeenAloneNext

\* Most steps of a listener have nothing to do with an outage.
LEMMA QuietStep ==
  ASSUME OneListener, NotedInv, NEW t \in Thread, Alone(t),
         thread[t].pc \notin {"idle", "arm", "say", "cancel", "remove"},
         thread'[t].pc \notin {"arm", "say", "cancel", "remove"},
         settings' = settings, starter' = starter, serverUp' = serverUp, asking' = asking,
         notices' = notices,
         "intdown" \in jobs' <=> "intdown" \in jobs
  PROVE  OneListener' /\ NotedInv' /\ Follows
<1>1. OneListener' /\ NotedInv'
  BY StepOfOne DEF Noted
<1>2. Shown' = Shown
  BY StepOfOne DEF ShownAt
<1>3. Waits' <=> Waits
  BY StepOfOne DEF WaitsAt
<1>4. Waits' = Waits
  BY <1>3 DEF Waits
<1> QED BY <1>1, <1>2, <1>4 DEF Follows, Unsaid

LEMMA RunFollows ==
  ASSUME TypeInv, OneListener, NotedInv, NEW t \in Thread, Run(t)
  PROVE  OneListener' /\ NotedInv' /\ Follows
<1>0. serverUp \in {"unknown", "up", "down"}
  BY DEF TypeInv, TypeOK
<1>1. CASE Begin(t)
  BY <1>1, BeginMoves, QuietStep DEF Begin
<1>2. CASE Open(t)
  BY <1>2, OpenMoves, QuietStep DEF Open
<1>3. CASE OnConnect(t)
  <2>1. /\ Alone(t) /\ thread[t].pc = "opened" /\ settings' = settings /\ starter' = starter
        /\ jobs' = jobs /\ asking' = asking /\ notices' = notices
    BY <1>3, OnConnectMoves DEF OnConnect
  <2>2. CASE ~connected /\ thread'[t].pc = "leave"
    <3>1. serverUp' = serverUp
      BY <1>3, <2>2 DEF OnConnect
    <3> QED BY <2>1, <2>2, <3>1, QuietStep
  <2>3. CASE connected /\ serverUp # "down" /\ thread'[t].pc = "jobs"
    <3>1. serverUp' = "up"
      BY <1>3, <2>3 DEF OnConnect
    <3>2. OneListener' /\ NotedInv'
      BY <2>1, <2>3, <3>1, StepOfOne DEF Noted
    <3>3. Shown = serverUp /\ Shown' = "up"
      BY <2>1, <2>3, <3>1, StepOfOne DEF ShownAt
    <3>4. Waits' <=> Waits
      BY <2>1, <2>3, <3>1, StepOfOne DEF WaitsAt
    <3>5. Waits' = Waits
      BY <3>4 DEF Waits
    <3> QED BY <1>0, <2>1, <2>3, <3>2, <3>3, <3>5 DEF Follows, First, Unsaid
  <2>4. CASE connected /\ serverUp = "down" /\ "intdown" \in jobs /\ thread'[t].pc = "cancel"
    <3>1. serverUp' = "up"
      BY <1>3, <2>4 DEF OnConnect
    <3>2. OneListener' /\ NotedInv'
      BY <2>1, <2>4, <3>1, StepOfOne DEF Noted
    <3>3. Shown = "down" /\ Shown' = "up"
      BY <2>1, <2>4, <3>1, StepOfOne DEF ShownAt
    <3>4. Waits /\ ~Waits'
      BY <2>1, <2>4, <3>1, StepOfOne DEF WaitsAt
    <3> QED BY <2>1, <3>2, <3>3, <3>4 DEF Follows, Recover
  <2>5. CASE connected /\ serverUp = "down" /\ "intdown" \notin jobs /\ thread'[t].pc = "say"
    <3>1. serverUp' = "up"
      BY <1>3, <2>5 DEF OnConnect
    <3>2. OneListener' /\ NotedInv'
      BY <2>1, <2>5, <3>1, StepOfOne DEF Noted
    <3>3. Shown = "down" /\ Shown' = "down"
      BY <2>1, <2>5, <3>1, StepOfOne DEF ShownAt
    <3>4. ~Waits /\ ~Waits'
      BY <2>1, <2>5, <3>1, StepOfOne DEF WaitsAt
    <3>5. Waits' = Waits
      BY <3>4 DEF Waits
    <3> QED BY <2>1, <3>2, <3>3, <3>5 DEF Follows, Unsaid
  <2> QED BY <1>3, <2>2, <2>3, <2>4, <2>5, OnConnectMoves
<1>4. CASE CancelDown(t)
  <2>1. /\ Alone(t) /\ settings' = settings /\ starter' = starter /\ serverUp' = serverUp
        /\ asking' = asking /\ notices' = notices /\ thread[t].pc \in {"cancel", "remove"}
    BY <1>4, CancelDownMoves DEF CancelDown
  <2>2. /\ "intdown" \in jobs' => thread'[t].pc = "remove"
        /\ thread'[t].pc \in {"remove", "jobs", "idle"}
    BY <1>4, CancelDownMoves
  <2>3. OneListener' /\ NotedInv'
    BY <2>1, <2>2, StepOfOne DEF Noted
  <2>4. Shown' = Shown
    BY <2>1, <2>2, StepOfOne DEF ShownAt
  <2>5. ~Waits /\ ~Waits'
    BY <2>1, <2>2, StepOfOne DEF WaitsAt
  <2>6. Waits' = Waits
    BY <2>5 DEF Waits
  <2> QED BY <2>1, <2>3, <2>4, <2>6 DEF Follows, Unsaid
<1>5. CASE SayUp(t)
  <2>1. /\ Alone(t) /\ settings' = settings /\ starter' = starter /\ serverUp' = serverUp
        /\ notices' = Append(notices, "up") /\ thread[t].pc = "say" /\ thread'[t].pc = "jobs"
        /\ jobs' = jobs /\ asking' = asking
    BY <1>5, SayUpMoves DEF SayUp
  <2>2. serverUp = "up" /\ "intdown" \notin jobs
    BY <2>1, StepOfOne DEF Noted
  <2>3. OneListener' /\ NotedInv'
    BY <2>1, <2>2, StepOfOne DEF Noted
  <2>4. Shown = "down" /\ Shown' = "up"
    BY <2>1, <2>2, StepOfOne DEF ShownAt
  <2>5. ~Waits /\ ~Waits'
    BY <2>1, <2>2, StepOfOne DEF WaitsAt
  <2> QED BY <2>1, <2>3, <2>4, <2>5 DEF Follows, Recover
<1>6. CASE SetJobs(t)
  <2>1. jobs' = Scheduled(jobs)
    BY <1>6 DEF SetJobs
  <2>2. "intdown" \in jobs' <=> "intdown" \in jobs
    BY <2>1 DEF Scheduled
  <2>3. /\ Alone(t) /\ settings' = settings /\ starter' = starter /\ serverUp' = serverUp
        /\ asking' = asking /\ notices' = notices
        /\ thread[t].pc = "jobs" /\ thread'[t].pc \in {"ping", "loop"}
    BY <1>6, SetJobsMoves DEF SetJobs
  <2> QED BY <2>2, <2>3, QuietStep
<1>7. CASE FirstPing(t)
  BY <1>7, FirstPingMoves, QuietStep DEF FirstPing
<1>8. CASE Loop(t)
  <2>1. /\ Alone(t) /\ settings' = settings /\ starter' = starter /\ serverUp' = serverUp
        /\ asking' = asking /\ notices' = notices /\ jobs' = jobs
        /\ thread[t].pc = "loop" /\ thread'[t].pc \in {"recv", "leave"}
    BY <1>8, LoopMoves DEF Loop
  <2> QED BY <2>1, QuietStep
<1>9. CASE Receive(t)
  BY <1>9, ReceiveMoves, QuietStep DEF Receive
<1>10. CASE Lost(t)
  BY <1>10, LostMoves, QuietStep DEF Lost
<1>11. CASE Retry(t)
  BY <1>11, RetryMoves, QuietStep DEF Retry
<1>12. CASE Close(t)
  BY <1>12, CloseMoves, QuietStep DEF Close
<1>13. CASE Leave(t)
  BY <1>13, LeaveMoves, QuietStep DEF Leave
<1>14. CASE OnDisconnect(t)
  <2>1. /\ Alone(t) /\ settings' = settings /\ starter' = starter /\ serverUp' = "down"
        /\ asking' = asking /\ notices' = notices /\ thread[t].pc = "down" /\ jobs' = jobs
        /\ thread'[t].pc = IF serverUp = "up" THEN "arm" ELSE "settle"
    BY <1>14, OnDisconnectMoves DEF OnDisconnect
  <2>2. serverUp = "up" => "intdown" \notin jobs
    BY <2>1, StepOfOne DEF Noted
  <2>3. OneListener' /\ NotedInv'
    BY <2>1, <2>2, StepOfOne DEF Noted
  <2>4. Shown = serverUp /\ Shown' = IF serverUp = "up" THEN "up" ELSE "down"
    BY <2>1, StepOfOne DEF ShownAt
  <2>5. Waits' <=> Waits
    BY <2>1, StepOfOne DEF WaitsAt
  <2>6. Waits' = Waits
    BY <2>5 DEF Waits
  <2> QED BY <1>0, <2>1, <2>3, <2>4, <2>6 DEF Follows, First, Unsaid
<1>15. CASE ScheduleDown(t)
  <2>1. /\ Alone(t) /\ settings' = settings /\ starter' = starter /\ serverUp' = serverUp
        /\ asking' = asking /\ notices' = notices /\ thread[t].pc = "arm" /\ thread'[t].pc = "settle"
        /\ "intdown" \in jobs'
    BY <1>15, ScheduleDownMoves DEF ScheduleDown, Armed
  <2>2. serverUp = "down"
    BY <2>1, StepOfOne DEF Noted
  <2>3. OneListener' /\ NotedInv'
    BY <2>1, <2>2, StepOfOne DEF Noted
  <2>4. Shown = "up" /\ Shown' = "down"
    BY <2>1, <2>2, StepOfOne DEF ShownAt
  <2>5. Waits'
    BY <2>1, StepOfOne DEF WaitsAt
  <2> QED BY <2>1, <2>3, <2>4, <2>5 DEF Follows, Fail
<1>16. CASE Settle(t)
  <2>1. jobs' = Scheduled(jobs)
    BY <1>16 DEF Settle
  <2>2. "intdown" \in jobs' <=> "intdown" \in jobs
    BY <2>1 DEF Scheduled
  <2> QED BY <1>16, <2>2, SettleMoves, QuietStep DEF Settle
<1> QED BY <1>1, <1>2, <1>3, <1>4, <1>5, <1>6, <1>7, <1>8, <1>9, <1>10, <1>11, <1>12, <1>13, <1>14,
           <1>15, <1>16 DEF Run

\* A step of nobody.
LEMMA AsideFollows ==
  ASSUME OneListener, NotedInv,
         UNCHANGED <<thread, serverUp, settings, starter, asking, notices>>,
         "intdown" \in jobs' <=> "intdown" \in jobs
  PROVE  OneListener' /\ NotedInv' /\ Follows
<1>1. OneListener'
  BY DEF OneListener
<1>2. NotedInv'
  BY DEF NotedInv, Is
<1>3. Shown' = Shown
  BY DEF Shown, At
<1>4. Waits' = Waits
  BY DEF Waits, At
<1> QED BY <1>1, <1>2, <1>3, <1>4 DEF Follows, Unsaid

LEMMA StepFollows ==
  ASSUME TypeInv, OneListener, NotedInv, [Next]_vars, [~SwitchServer]_vars
  PROVE  OneListener' /\ NotedInv' /\ Follows
<1>1. CASE ConnectJob
  <2>1. \A t \in Thread : thread[t].pc = "idle"
    BY <1>1 DEF ConnectJob, Over, Active
  <2>2. UNCHANGED <<thread, serverUp, settings, jobs, asking, notices>>
    BY <1>1 DEF ConnectJob
  <2>3. OneListener'
    BY <2>1, <2>2 DEF OneListener
  <2>4. NotedInv'
    BY <2>2 DEF NotedInv, Is
  <2>5. Shown' = Shown
    BY <2>2 DEF Shown, At
  <2>6. Waits' = Waits
    BY <2>2 DEF Waits, At
  <2> QED BY <2>2, <2>3, <2>4, <2>5, <2>6 DEF Follows, Unsaid
<1>2. CASE StartThread
  <2>1. PICK t \in Thread : Alone(t) /\ thread[t].pc = "idle" /\ thread'[t].pc = "begin"
    BY <1>2, StartThreadMoves
  <2>2. starter = "checking" /\ starter' = "idle" /\ settings' = "idle"
    BY <1>2 DEF StartThread, OneListener
  <2>3. UNCHANGED <<serverUp, jobs, asking, notices>>
    BY <1>2 DEF StartThread
  <2>4. Aloof(t)
    BY <2>2 DEF OneListener, Aloof
  <2>5. Aloof(t)'
    BY <2>1, <2>4 DEF Aloof, Alone
  <2>6. OneListener'
    BY <2>2, <2>5 DEF OneListener, Aloof
  <2>7. {"arm", "say", "cancel", "remove"} \subseteq Pcs \ {"idle"}
    BY DEF Pcs
  <2>8. NotedInv'
    BY <2>1, <2>3, <2>4, <2>5, <2>7, SeenAlone, SeenAloneNext DEF NotedInv
  <2>9. Shown = ShownAt("idle", serverUp) /\ Shown' = ShownAt("begin", serverUp)
    BY <2>1, <2>3, <2>4, <2>5, SeenAlone, SeenAloneNext
  <2>10. Waits' <=> Waits
    BY <2>1, <2>3, <2>4, <2>5, SeenAlone, SeenAloneNext DEF WaitsAt
  <2>11. Waits' = Waits
    BY <2>10 DEF Waits
  <2> QED BY <2>3, <2>6, <2>8, <2>9, <2>11 DEF Follows, Unsaid, ShownAt
<1>3. CASE Reschedule
  <2>1. jobs' = Scheduled(jobs)
    BY <1>3 DEF Reschedule
  <2>2. "intdown" \in jobs' <=> "intdown" \in jobs
    BY <2>1 DEF Scheduled
  <2> QED BY <1>3, <2>2, AsideFollows DEF Reschedule
<1>4. CASE FireDown
  <2>1. /\ "intdown" \in jobs /\ At({"cancel", "remove"}) = {} /\ jobs' = jobs \ {"intdown"}
        /\ asking' = TRUE /\ UNCHANGED <<thread, serverUp, settings, starter, notices>>
    BY <1>4 DEF FireDown
  <2>2. OneListener'
    BY <2>1 DEF OneListener
  <2>3. NotedInv'
    BY <2>1 DEF NotedInv, Is
  <2>4. Shown' = Shown
    BY <2>1 DEF Shown, At
  <2>5. Waits /\ ~Waits'
    BY <2>1 DEF Waits
  <2> QED BY <2>1, <2>2, <2>3, <2>4, <2>5 DEF Follows, Lasts
<1>14. CASE SayDown
  <2>1. /\ asking /\ asking' = FALSE /\ notices' = Append(notices, "down")
        /\ UNCHANGED <<thread, jobs, serverUp, settings, starter>>
    BY <1>14 DEF SayDown
  <2>2. OneListener'
    BY <2>1 DEF OneListener
  <2>3. NotedInv'
    BY <2>1 DEF NotedInv, Is
  <2>4. Shown' = Shown
    BY <2>1 DEF Shown, At
  <2>5. Waits' = Waits
    BY <2>1 DEF Waits, At
  <2> QED BY <2>1, <2>2, <2>3, <2>4, <2>5 DEF Follows, Announce
<1>5. CASE PingJob
  BY <1>5, AsideFollows DEF PingJob
<1>6. CASE WaitPong
  BY <1>6, AsideFollows DEF WaitPong
<1>7. CASE PongClosed
  BY <1>7, AsideFollows DEF PongClosed
<1>8. CASE SwitchServer
  <2>1. UNCHANGED vars
    BY <1>8
  <2> QED BY <2>1, AsideFollows DEF vars
<1>9. CASE Shutdown
  BY <1>9 DEF Shutdown, OneListener
<1>10. CASE \E t \in Thread : Run(t)
  BY <1>10, RunFollows
<1>11. CASE GoAway
  BY <1>11, AsideFollows DEF GoAway
<1>12. CASE ComeBack
  BY <1>12, AsideFollows DEF ComeBack
<1>13. CASE UNCHANGED vars
  BY <1>13, AsideFollows DEF vars
<1> QED BY <1>1, <1>2, <1>3, <1>4, <1>5, <1>6, <1>7, <1>8, <1>9, <1>10, <1>11, <1>12, <1>13,
           <1>14 DEF Next

LEMMA NotedInit == Init => OneListener /\ NotedInv /\ Told!Start
<1> SUFFICES ASSUME Init PROVE OneListener /\ NotedInv /\ Told!Start
  OBVIOUS
<1>1. \A t \in Thread : thread[t].pc = "idle"
  BY DEF Init, Idle
<1>2. OneListener /\ NotedInv
  BY <1>1 DEF Init, OneListener, NotedInv, Is
<1>3. Shown = "unknown" /\ ~Waits /\ asking = FALSE /\ notices = <<>>
  BY <1>1 DEF Init, Shown, Waits, At
<1> QED BY <1>2, <1>3, RuleInOtherWords

LEMMA FollowsIsStep == Follows => [Told!Step]_(Told!noticeVars)
BY RuleInOtherWords DEF Follows, Told!Step

\* notifiers.py:395 and :403: as long as the settings do not change the server, what
\* the user is told of outages follows the rule, with or without pings, however early
\* a connection ends and whenever the jobs are set up again.
THEOREM NoticesCorrect == Spec /\ [][~SwitchServer]_vars => KeepsNotices
<1>1. TypeInv /\ OneListener /\ NotedInv /\ [Next]_vars /\ [~SwitchServer]_vars
        => OneListener' /\ NotedInv' /\ [Told!Step]_(Told!noticeVars)
  BY StepFollows, FollowsIsStep
<1> QED BY <1>1, NotedInit, Typed, PTL DEF Spec, KeepsNotices, Told!Notices

-----------------------------------------------------------------------------
(***************************************************************************)
(* What the rule promises the user.                                        *)
(***************************************************************************)
Last == notices[Len(notices)]

\* The server does not come back while an outage is being announced: on_intdown has
\* its answer from plex.tv before a listener finds the server again.
InOrder == Told!Recover => ~asking

\* What was said last decides what may be said next: an outage that waits or is being
\* announced has not been announced, and one that is not and was not there at the
\* start has.
NoticeInv ==
  /\ Shown \in {"unknown", "up", "down"}
  /\ notices \in Seq({"up", "down"})
  /\ Told!Alternating
  /\ Waits => Shown = "down"
  /\ asking => Shown = "down" /\ ~Waits
  /\ Shown = "unknown" => notices = <<>>
  /\ notices # <<>> =>
       /\ Shown = "up" \/ Waits \/ asking => Last = "up"
       /\ Shown = "down" /\ ~Waits /\ ~asking => Last = "down"

\* Another kind of notice than the last keeps the order.
LEMMA AppendAlternates ==
  ASSUME NEW n, n \in {"up", "down"},
         notices \in Seq({"up", "down"}), Told!Alternating,
         notices # <<>> => Last # n,
         notices' = Append(notices, n)
  PROVE  notices' \in Seq({"up", "down"}) /\ Told!Alternating' /\ notices' # <<>> /\ Last' = n
<1>1. /\ notices' \in Seq({"up", "down"})
      /\ Len(notices') = Len(notices) + 1
      /\ notices'[Len(notices) + 1] = n
      /\ \A i \in 1..Len(notices) : notices'[i] = notices[i]
  OBVIOUS
<1>2. Len(notices) \in Nat
  OBVIOUS
<1>3. ASSUME NEW i \in 1..(Len(notices') - 1)
      PROVE  notices'[i] # notices'[i + 1]
  <2>1. CASE i < Len(notices)
    BY <1>1, <1>2, <2>1 DEF Told!Alternating
  <2>2. CASE i = Len(notices)
    <3>1. notices # <<>>
      BY <1>2, <2>2
    <3>2. QED
      BY <1>1, <1>2, <2>2, <3>1 DEF Last
  <2>3. QED
    BY <1>1, <1>2, <2>1, <2>2
<1>4. QED
  BY <1>1, <1>2, <1>3 DEF Told!Alternating, Last

LEMMA FollowsFits == ASSUME NoticeInv, Follows, InOrder PROVE NoticeInv'
<1>1. CASE First
  BY <1>1 DEF First, NoticeInv, Told!Alternating, Last
<1>2. CASE Fail
  BY <1>2 DEF Fail, NoticeInv, Told!Alternating, Last
<1>3. CASE Announce
  <2>1. notices # <<>> => Last # "down"
    BY <1>3 DEF Announce, NoticeInv
  <2>2. notices' \in Seq({"up", "down"}) /\ Told!Alternating' /\ notices' # <<>> /\ Last' = "down"
    BY <1>3, <2>1, AppendAlternates DEF Announce, NoticeInv
  <2> QED BY <1>3, <2>2 DEF Announce, NoticeInv
<1>6. CASE Lasts
  BY <1>6 DEF Lasts, NoticeInv, Told!Alternating, Last
<1>4. CASE Recover
  <2>0. ~asking /\ ~asking'
    BY <1>4, RuleInOtherWords DEF InOrder, Recover
  <2>1. CASE Waits
    BY <1>4, <2>0, <2>1 DEF Recover, NoticeInv, Told!Alternating, Last
  <2>2. CASE ~Waits
    <3>1. notices # <<>> => Last # "up"
      BY <1>4, <2>0, <2>2 DEF Recover, NoticeInv
    <3>2. notices' \in Seq({"up", "down"}) /\ Told!Alternating' /\ notices' # <<>> /\ Last' = "up"
      BY <1>4, <2>2, <3>1, AppendAlternates DEF Recover, NoticeInv
    <3> QED BY <1>4, <2>0, <3>2 DEF Recover, NoticeInv
  <2> QED BY <2>1, <2>2
<1>5. CASE Unsaid
  BY <1>5 DEF Unsaid, NoticeInv, Told!Alternating, Last
<1> QED BY <1>1, <1>2, <1>3, <1>4, <1>5, <1>6 DEF Follows

LEMMA NoticeInit == Init => NoticeInv
<1> SUFFICES ASSUME Init PROVE NoticeInv
  OBVIOUS
<1>1. Shown = "unknown" /\ ~Waits /\ ~asking /\ notices = <<>>
  BY NotedInit, RuleInOtherWords
<1>2. notices \in Seq({"up", "down"}) /\ Len(notices) = 0
  BY <1>1
<1>3. Told!Alternating
  BY <1>2 DEF Told!Alternating
<1> QED BY <1>1, <1>2, <1>3 DEF NoticeInv

LEMMA NoticesFit == Spec /\ [][~SwitchServer]_vars /\ [][InOrder]_vars => []NoticeInv
<1>1. /\ TypeInv /\ OneListener /\ NotedInv /\ [Next]_vars /\ [~SwitchServer]_vars
        => OneListener' /\ NotedInv'
      /\ TypeInv /\ OneListener /\ NotedInv /\ NoticeInv /\ [Next]_vars /\ [~SwitchServer]_vars
         /\ [InOrder]_vars
        => NoticeInv'
  <2>1. ASSUME TypeInv, OneListener, NotedInv, [Next]_vars, [~SwitchServer]_vars
        PROVE  OneListener' /\ NotedInv' /\ Follows
    BY <2>1, StepFollows
  <2>2. ASSUME NoticeInv, Follows, InOrder
        PROVE  NoticeInv'
    BY <2>2, FollowsFits
  <2>3. ASSUME NoticeInv, UNCHANGED vars
        PROVE  NoticeInv'
    BY <2>3 DEF vars, NoticeInv, Shown, Waits, At, Last, Told!Alternating
  <2> QED BY <2>1, <2>2, <2>3
<1> QED BY <1>1, NotedInit, NoticeInit, Typed, PTL DEF Spec

\* on_intdown and on_intup: as long as the settings do not change the server and no
\* listener finds it again while on_intdown still asks plex.tv, nobody is told twice
\* in a row that it is down, or that it is back.
THEOREM NoticesAlternate ==
  Spec /\ [][~SwitchServer]_vars /\ [][InOrder]_vars => []Told!Alternating
<1>1. NoticeInv => Told!Alternating
  BY DEF NoticeInv
<1> QED BY <1>1, NoticesFit, PTL

\* Nor is the server up then, for a listener that has acted on it, when the last the
\* user was told is that it is down.
THEOREM NoticesUpToDate ==
  Spec /\ [][~SwitchServer]_vars /\ [][InOrder]_vars => []Told!UpToDate
<1>1. NoticeInv => Told!UpToDate
  <2>1. NoticeInv => (Shown = "up" /\ notices # <<>> => notices[Len(notices)] = "up")
    BY DEF NoticeInv, Last
  <2> QED BY <2>1 DEF Told!UpToDate, Shown
<1> QED BY <1>1, NoticesFit, PTL
=============================================================================
