------------------------- MODULE SessionMonitor_proofs -------------------------
(***************************************************************************)
(* Proofs about SessionMonitor: its types, that no row of the sessions     *)
(* table is lost, and that rows are given up only after as many failed     *)
(* writes as are allowed.  The threads keep copies of rows over steps of   *)
(* the others, so the invariant says of every copy what it was read from.  *)
(* With one listener and timers that do not race, a second invariant: each *)
(* play is written once, and a stream that had a timer keeps one.          *)
(***************************************************************************)
EXTENDS SessionMonitor, WellFoundedInduction, SequenceTheorems, FiniteSetTheorems, TLAPS

-----------------------------------------------------------------------------
(***************************************************************************)
(* The table.                                                              *)
(***************************************************************************)
\* A table: rows under their ids, all below the next one.
Table(t) ==
  /\ t = [rows |-> t.rows, next |-> t.next]
  /\ t.next \in Nat \ {0}
  /\ t.rows \in [DOMAIN t.rows -> Row]
  /\ DOMAIN t.rows \subseteq 1..(t.next - 1)
  /\ \A i \in DOMAIN t.rows : t.rows[i].id = i

\* Between t and u nobody counted an attempt.
Uncounted(t, u) ==
  \A i \in DOMAIN u.rows :
    \/ /\ i \in DOMAIN t.rows
       /\ u.rows[i].key = t.rows[i].key
       /\ u.rows[i].attempts = t.rows[i].attempts
    \/ i >= t.next /\ u.rows[i].attempts = 0

\* u is t after statements that insert or change rows.
Grown(t, u) ==
  /\ Table(u)
  /\ t.next <= u.next
  /\ DOMAIN t.rows \subseteq DOMAIN u.rows
  /\ 1..(u.next - 1) \subseteq (1..(t.next - 1)) \cup DOMAIN u.rows
  /\ Uncounted(t, u)

\* A set of natural numbers has a lowest one.
LEMMA LowestIsIn ==
  ASSUME NEW S, S \subseteq Nat, S # {}
  PROVE  Lowest(S) \in S /\ \A i \in S : Lowest(S) <= i
<1>1. IsWellFoundedOn({ss \in Nat \X Nat : ss[1] < ss[2]}, Nat)
  BY NatLessThanWellFounded DEF OpToRel
<1>2. PICK i \in S : \A j \in S : ~(<<j, i>> \in {ss \in Nat \X Nat : ss[1] < ss[2]})
  <2> HIDE DEF Lowest
  <2> QED BY <1>1, WFMin
<1>3. ASSUME NEW j \in S
      PROVE  i <= j
  <2>1. <<j, i>> \in Nat \X Nat /\ <<j, i>>[1] = j /\ <<j, i>>[2] = i /\ i \in Nat /\ j \in Nat
    OBVIOUS
  <2>2. ~(j < i)
    BY <1>2, <2>1, Zenon
  <2> QED BY <2>1, <2>2
<1> QED BY <1>3 DEF Lowest

\* get_session_by_key returns a row of the key, or nothing when there is none.
LEMMA FirstRowIs ==
  ASSUME NEW t, Table(t), NEW k
  PROVE  IF RowsOf(t, k) = {} THEN FirstRow(t, k) = Nobody
         ELSE \E i \in RowsOf(t, k) : FirstRow(t, k) = t.rows[i]
<1>1. RowsOf(t, k) \subseteq Nat
  BY DEF Table, RowsOf
<1> QED BY <1>1, LowestIsIn DEF FirstRow

LEMMA GrownTwice ==
  ASSUME NEW t, NEW u, NEW v, Table(t), Grown(t, u), Grown(u, v)
  PROVE  Grown(t, v)
BY DEF Grown, Uncounted, Table

LEMMA GrownSame ==
  ASSUME NEW t, Table(t)
  PROVE  Grown(t, t)
BY DEF Grown, Uncounted, Table

\* A statement that changes rows, but neither their key nor their attempts.
LEMMA Rewritten ==
  ASSUME NEW t, Table(t), NEW rows \in [DOMAIN t.rows -> Row],
         \A i \in DOMAIN t.rows : /\ rows[i].id = i
                                  /\ rows[i].key = t.rows[i].key
                                  /\ rows[i].attempts = t.rows[i].attempts
  PROVE  Grown(t, [t EXCEPT !.rows = rows])
<1>1. [t EXCEPT !.rows = rows] = [rows |-> rows, next |-> t.next]
  BY DEF Table
<1> DEFINE u == [rows |-> rows, next |-> t.next]
<1>2. u.rows = rows /\ u.next = t.next /\ DOMAIN rows = DOMAIN t.rows
  OBVIOUS
<1> HIDE DEF u
<1>3. u = [rows |-> u.rows, next |-> u.next]
  BY <1>2 DEF u
<1>4. Grown(t, u)
  BY <1>2, <1>3 DEF Grown, Uncounted, Table
<1> QED BY <1>1, <1>4 DEF u

LEMMA InsertGrows ==
  ASSUME NEW t, Table(t), NEW k \in Key, NEW item \in Item \cup {NoItem},
         NEW state \in State \cup {NoState}
  PROVE  /\ Grown(t, Insert(t, k, item, state))
         /\ t.next \in RowsOf(Insert(t, k, item, state), k)
<1> DEFINE u == Insert(t, k, item, state)
           row == [id |-> t.next, key |-> k, item |-> item, state |-> state,
                   lastPaused |-> FALSE, attempts |-> 0]
<1>1. /\ u.next = t.next + 1 /\ u = [rows |-> u.rows, next |-> u.next]
      /\ DOMAIN u.rows = DOMAIN t.rows \cup {t.next}
      /\ u.rows = [i \in DOMAIN t.rows \cup {t.next} |-> IF i = t.next THEN row ELSE t.rows[i]]
  BY DEF Insert
<1>2. row \in Row /\ row.id = t.next /\ row.key = k /\ row.attempts = 0
  BY DEF Row, Table
<1>3. t.next \notin DOMAIN t.rows
  BY DEF Table
<1>4. u.rows[t.next] = row /\ \A i \in DOMAIN t.rows : u.rows[i] = t.rows[i]
  BY <1>1, <1>3
<1>5. \A i \in DOMAIN u.rows : u.rows[i] \in Row /\ u.rows[i].id = i
  BY <1>1, <1>2, <1>4 DEF Table
<1>10. u.rows = [i \in DOMAIN u.rows |-> u.rows[i]]
  BY <1>1
<1> HIDE DEF u, row
<1>6. u.rows \in [DOMAIN u.rows -> Row]
  BY <1>5, <1>10
<1>7. Table(u)
  <2>1. DOMAIN u.rows \subseteq 1..(u.next - 1) /\ u.next \in Nat \ {0}
    BY <1>1 DEF Table
  <2> QED BY <1>1, <1>5, <1>6, <2>1 DEF Table
<1>8. Grown(t, u)
  BY <1>1, <1>2, <1>4, <1>7 DEF Grown, Uncounted, Table
<1>9. t.next \in RowsOf(u, k)
  BY <1>1, <1>2, <1>4 DEF RowsOf
<1> QED BY <1>8, <1>9 DEF u

\* set_session_state leaves a row under the key.
LEMMA SetStateGrows ==
  ASSUME NEW t, Table(t), NEW k \in Key, NEW state \in State
  PROVE  Grown(t, SetState(t, k, state)) /\ RowsOf(SetState(t, k, state), k) # {}
<1> DEFINE rows == [i \in DOMAIN t.rows |-> IF i \in RowsOf(t, k)
                                            THEN [t.rows[i] EXCEPT !.state = state]
                                            ELSE t.rows[i]]
           u == [t EXCEPT !.rows = rows]
<1>1. CASE RowsOf(t, k) = {}
  BY <1>1, InsertGrows DEF SetState
<1>2. CASE RowsOf(t, k) # {}
  <2>1. SetState(t, k, state) = u
    BY <1>2 DEF SetState, Update
  <2>2. \A i \in DOMAIN t.rows : /\ rows[i] \in Row /\ rows[i].id = i
                                 /\ rows[i].key = t.rows[i].key
                                 /\ rows[i].attempts = t.rows[i].attempts
    BY DEF Table, Row
  <2>3. rows \in [DOMAIN t.rows -> Row] /\ u.rows = rows
    BY <2>2 DEF Table
  <2> HIDE DEF rows
  <2>4. Grown(t, u)
    BY <2>2, <2>3, Rewritten
  <2>5. RowsOf(u, k) = RowsOf(t, k)
    BY <2>2, <2>3 DEF RowsOf
  <2> QED BY <1>2, <2>1, <2>4, <2>5
<1> QED BY <1>1, <1>2

LEMMA SetLastPausedGrows ==
  ASSUME NEW t, Table(t), NEW k \in Key, NEW paused \in BOOLEAN
  PROVE  Grown(t, SetLastPaused(t, k, paused))
<1> DEFINE seen == IF RowsOf(t, k) = {} THEN Insert(t, k, NoItem, NoState) ELSE t
           rows == [i \in DOMAIN seen.rows |-> IF i \in RowsOf(seen, k)
                                               THEN [seen.rows[i] EXCEPT !.lastPaused = paused]
                                               ELSE seen.rows[i]]
           u == [seen EXCEPT !.rows = rows]
<1>1. SetLastPaused(t, k, paused) = u
  BY DEF SetLastPaused, Update
<1>2. Grown(t, seen)
  BY InsertGrows, GrownSame
<1>3. Table(seen)
  BY <1>2 DEF Grown
<1> HIDE DEF seen
<1>4. \A i \in DOMAIN seen.rows : /\ rows[i] \in Row /\ rows[i].id = i
                                  /\ rows[i].key = seen.rows[i].key
                                  /\ rows[i].attempts = seen.rows[i].attempts
  BY <1>3 DEF Table, Row
<1>5. rows \in [DOMAIN seen.rows -> Row]
  BY <1>4
<1> HIDE DEF rows
<1>6. Grown(seen, u)
  BY <1>3, <1>4, <1>5, Rewritten
<1> QED BY <1>1, <1>2, <1>6, GrownTwice

\* The time of stopping that a row is given before it is written.
LEMMA StampGrows ==
  ASSUME Table(table), NEW row, row.key \in Key, table' \in Stamp(row)
  PROVE  Grown(table, table')
<1>1. "stopped" \in State
  BY DEF State
<1>2. table' = table \/ table' = SetState(table, row.key, "stopped")
  BY DEF Stamp
<1> QED BY <1>1, <1>2, SetStateGrows, GrownSame

LEMMA WriteSessionGrows ==
  ASSUME NEW t, Table(t), NEW k \in Key, NEW item \in Item, NEW state \in State
  PROVE  Grown(t, WriteSession(t, k, item, state))
<1> DEFINE same == {i \in RowsOf(t, k) : t.rows[i].item = item}
           rows == [i \in DOMAIN t.rows |-> IF i \in same
                                            THEN [t.rows[i] EXCEPT !.state = state]
                                            ELSE t.rows[i]]
           u == [t EXCEPT !.rows = rows]
<1>1. CASE same = {}
  BY <1>1, InsertGrows DEF WriteSession
<1>2. CASE same # {}
  <2>1. WriteSession(t, k, item, state) = u
    BY <1>2 DEF WriteSession, Update
  <2> HIDE DEF same
  <2>2. \A i \in DOMAIN t.rows : /\ rows[i] \in Row /\ rows[i].id = i
                                 /\ rows[i].key = t.rows[i].key
                                 /\ rows[i].attempts = t.rows[i].attempts
    BY DEF Table, Row
  <2>3. rows \in [DOMAIN t.rows -> Row]
    BY <2>2
  <2> HIDE DEF rows
  <2> QED BY <2>1, <2>2, <2>3, Rewritten
<1> QED BY <1>1, <1>2

\* Deleting rows: the others stay as they are.
LEMMA Deleted ==
  ASSUME NEW t, Table(t), NEW S
  PROVE  /\ Table(Delete(t, S)) /\ Delete(t, S).next = t.next
         /\ DOMAIN Delete(t, S).rows = DOMAIN t.rows \ S
         /\ \A i \in DOMAIN t.rows \ S : Delete(t, S).rows[i] = t.rows[i]
<1> DEFINE rows == [i \in DOMAIN t.rows \ S |-> t.rows[i]]
           u == [rows |-> rows, next |-> t.next]
<1>1. Delete(t, S) = u
  BY DEF Delete, Table
<1>2. rows \in [DOMAIN rows -> Row] /\ u.rows = rows /\ u.next = t.next
  BY DEF Table
<1>3. Table(u)
  BY <1>2 DEF Table
<1> QED BY <1>1, <1>2, <1>3

\* increment_write_attempts: every row of the key counts one more than the first.
LEMMA Incremented ==
  ASSUME NEW t, Table(t), NEW k \in Key, RowsOf(t, k) # {}
  PROVE  LET u == IncrementAttempts(t, k) IN
         /\ Table(u) /\ u.next = t.next /\ DOMAIN u.rows = DOMAIN t.rows
         /\ \A i \in DOMAIN t.rows :
              /\ u.rows[i].key = t.rows[i].key
              /\ t.rows[i].key # k => u.rows[i] = t.rows[i]
              /\ t.rows[i].key = k => u.rows[i].attempts = FirstRow(t, k).attempts + 1
<1> DEFINE first == FirstRow(t, k).attempts
           rows == [i \in DOMAIN t.rows |-> IF i \in RowsOf(t, k)
                                            THEN [t.rows[i] EXCEPT !.attempts = first + 1]
                                            ELSE t.rows[i]]
           u == [rows |-> rows, next |-> t.next]
<1>1. IncrementAttempts(t, k) = u
  BY DEF IncrementAttempts, Update, Table
<1>2. first \in Nat
  BY FirstRowIs DEF Table, Row, RowsOf
<1> HIDE DEF first
<1>3. \A i \in DOMAIN t.rows : /\ rows[i] \in Row /\ rows[i].id = i
                               /\ rows[i].key = t.rows[i].key
                               /\ t.rows[i].key # k => rows[i] = t.rows[i]
                               /\ t.rows[i].key = k => rows[i].attempts = first + 1
  BY <1>2 DEF Table, Row, RowsOf
<1>4. rows \in [DOMAIN t.rows -> Row]
  BY <1>3
<1> HIDE DEF rows
<1>5. Table(u)
  BY <1>3, <1>4 DEF Table
<1> QED BY <1>1, <1>3, <1>4, <1>5 DEF first

-----------------------------------------------------------------------------
(***************************************************************************)
(* The invariant.                                                          *)
(***************************************************************************)
Step == {"look", "start", "watchdog", "update", "pause", "resume", "touch", "settle",
         "record", "finish"}

StartStep == {"look", "start", "watchdog"}

\* The history write is between the end of a session and what follows from it; a
\* start goes on to its watchdog, and nothing but a start comes after a write.
Orderly(todo) ==
  /\ todo \in Seq(Step)
  /\ \A n \in 1..Len(todo) :
       /\ todo[n] \in {"look", "settle", "record", "start"} => n < Len(todo)
       /\ todo[n] = "record" => todo[n + 1] = "finish"
       /\ todo[n] = "start" => todo[n + 1] = "watchdog"
       /\ todo[n] = "finish" => n = 1 \/ todo[n - 1] = "record"
       /\ todo[n] = "finish" => \A m \in 1..Len(todo) : m > n => todo[m] \in StartStep

Rest == [todo |-> <<>>]
Handling == [todo : Seq(Step), key : Key, state : State, row : Row \cup {Nobody},
             live : Item \cup {NoItem}, saved : BOOLEAN]
Forced == [step : {"record", "finish"}, row : Row, saved : BOOLEAN]
Listing == [step : {"list"}, todo : SUBSET Row]
Checking == [step : {"check", "record", "finish"}, todo : SUBSET Row,
             live : [Key -> Item \cup {NoItem}], left : SUBSET Key, saved : BOOLEAN]

Accounted == Recorded \cup skipped

\* A copy of a row: the row was in the table, and writes have only failed since.
Held(row) ==
  /\ row \in Row
  /\ row.id \in 1..(table.next - 1)
  /\ row.attempts <= failures[row.key]

\* A listener's handler: the row it records is a real one, and what it takes
\* for saved is in the history or was not to be logged.
Sound(h) ==
  \/ h = Rest
  \/ /\ h \in Handling
     /\ h.todo # <<>>
     /\ Orderly(h.todo)
     /\ IF h.row = Nobody THEN \A n \in 1..Len(h.todo) : h.todo[n] # "record" ELSE Held(h.row)
     /\ Head(h.todo) = "finish" /\ h.saved => h.row.id \in Accounted

\* A row held by a thread that has, or has not yet, written it.
Written(step, saved, row) ==
  /\ step = "finish" /\ saved => row.id \in Accounted
  /\ step = "finish" /\ ~saved => row.attempts + 1 <= failures[row.key]

\* A force_stop_stream of the key k.
Forcing(k, c) ==
  \/ c = Idle
  \/ /\ c \in Forced
     /\ c.row.key = k
     /\ Held(c.row)
     /\ c.step = "record" => ~c.saved
     /\ Written(c.step, c.saved, c.row)

PingerInv ==
  \/ pinger = Idle
  \/ pinger \in Listing /\ \A row \in pinger.todo : Held(row)
  \/ /\ pinger \in Checking /\ \A row \in pinger.todo : Held(row)
     /\ \A k \in pinger.left : pinger.live[k] # NoItem
     /\ pinger.step # "check" => pinger.todo # {}
     /\ Written(pinger.step, pinger.saved, Current)

\* The failed writes of a key that are not yet counted in its rows.
OfCallback(k) == IF callback[k].step = "finish" /\ ~callback[k].saved THEN 1 ELSE 0
OfPinger(k) == IF pinger.step = "finish" /\ ~pinger.saved /\ Current.key = k THEN 1 ELSE 0
Pending(k) == OfCallback(k) + OfPinger(k)

\* Every attempt a row counts is a write that failed, and one of its own.
Accounts(k) ==
  /\ Pending(k) <= failures[k]
  /\ \A i \in RowsOf(table, k) : table.rows[i].attempts + Pending(k) <= failures[k]

Kept ==
  /\ Table(table)
  /\ failures \in [Key -> Nat]
  /\ history \in Seq(Nat)
  /\ Recorded \subseteq 1..(table.next - 1)
  /\ NothingLost

Typed ==
  /\ jobs \subseteq Key /\ timed \subseteq Key
  /\ playing \in [Key -> Item \cup {NoItem}]
  /\ listener \in [Listener -> {Rest} \cup Handling]
  /\ callback \in [Key -> {Idle} \cup Forced]

MonitorInv ==
  /\ Kept
  /\ Typed
  /\ \A k \in Key : Accounts(k) /\ Forcing(k, callback[k])
  /\ \A l \in Listener : Sound(listener[l])
  /\ PingerInv

-----------------------------------------------------------------------------
(***************************************************************************)
(* What stays when threads go on.                                          *)
(***************************************************************************)
\* Ids are used up, writes fail and plays are recorded; none of it is undone.
Later ==
  /\ table'.next \in Nat /\ table.next <= table'.next
  /\ failures' \in [Key -> Nat] /\ \A k \in Key : failures[k] <= failures'[k]
  /\ Accounted \subseteq Accounted'

LEMMA HeldStays ==
  ASSUME MonitorInv, Later, NEW row, Held(row)
  PROVE  Held(row)'
BY DEF MonitorInv, Kept, Table, Later, Held, Row

LEMMA SoundStays ==
  ASSUME MonitorInv, Later, NEW h, Sound(h)
  PROVE  Sound(h)'
BY HeldStays DEF Sound, Later

LEMMA WrittenStays ==
  ASSUME MonitorInv, Later, NEW step, NEW saved, NEW row \in Row, Written(step, saved, row)
  PROVE  Written(step, saved, row)'
BY DEF MonitorInv, Kept, Later, Written, Row

\* The row the check is at is one it still has to do.
LEMMA CurrentIs ==
  ASSUME MonitorInv, pinger \in Checking, pinger.todo # {}
  PROVE  Current \in pinger.todo /\ Current \in Row /\ Held(Current)
<1>1. \A row \in pinger.todo : row \in Row /\ row.id \in Nat /\ Held(row)
  <2>1. pinger # Idle /\ pinger \notin Listing
    BY DEF Idle, Listing, Checking
  <2> QED BY <2>1 DEF MonitorInv, PingerInv, Held, Row
<1> DEFINE ids == {row.id : row \in pinger.todo}
<1>2. ids \subseteq Nat /\ ids # {}
  BY <1>1
<1>3. PICK row \in pinger.todo : row.id = Lowest(ids)
  <2>1. Lowest(ids) \in ids
    BY <1>2, LowestIsIn
  <2> QED BY <2>1
<1>4. \A other \in pinger.todo : row.id <= other.id
  BY <1>2, <1>3, LowestIsIn
<1>5. Current \in pinger.todo
  BY <1>4 DEF Current
<1> QED BY <1>1, <1>5

LEMMA PingerStays ==
  ASSUME MonitorInv, Later, UNCHANGED pinger
  PROVE  PingerInv'
<1>1. Current' = Current
  BY DEF Current
<1>2. CASE pinger = Idle
  BY <1>2 DEF PingerInv
<1>3. CASE pinger \in Listing /\ \A row \in pinger.todo : Held(row)
  BY <1>3, HeldStays DEF PingerInv
<1>4. CASE /\ pinger \in Checking /\ \A row \in pinger.todo : Held(row)
           /\ \A k \in pinger.left : pinger.live[k] # NoItem
           /\ pinger.step # "check" => pinger.todo # {}
           /\ Written(pinger.step, pinger.saved, Current)
  <2>1. CASE pinger.step = "check"
    <3>1. Written(pinger.step, pinger.saved, Current)'
      BY <2>1 DEF Written
    <3> QED BY <1>4, <3>1, HeldStays DEF PingerInv
  <2>2. CASE pinger.step # "check"
    <3>1. Current \in Row
      BY <1>4, <2>2, CurrentIs
    <3>2. Written(pinger.step, pinger.saved, Current)'
      BY <1>1, <1>4, <3>1, WrittenStays
    <3> QED BY <1>4, <3>2, HeldStays DEF PingerInv
  <2> QED BY <2>1, <2>2
<1> QED BY <1>2, <1>3, <1>4 DEF MonitorInv, PingerInv

LEMMA CallbackStays ==
  ASSUME MonitorInv, Later, NEW k \in Key, callback'[k] = callback[k]
  PROVE  Forcing(k, callback[k])'
<1>1. Forcing(k, callback[k])
  BY DEF MonitorInv
<1> QED BY <1>1, HeldStays, WrittenStays DEF Forcing, Forced

\* What is pending is counted or not, zero or one for each of the two threads.
LEMMA PendingIs ==
  ASSUME NEW k
  PROVE  /\ OfCallback(k) \in {0, 1} /\ OfPinger(k) \in {0, 1}
         /\ Pending(k) = OfCallback(k) + OfPinger(k) /\ Pending(k) \in Nat
BY DEF Pending, OfCallback, OfPinger

\* Nobody counts an attempt, and what becomes pending is a new failure.
LEMMA AccountsStay ==
  ASSUME MonitorInv, Later, Uncounted(table, table'), Kept', NEW k \in Key,
         Pending(k)' + failures[k] <= Pending(k) + failures'[k]
  PROVE  Accounts(k)'
<1>1. Accounts(k) /\ failures[k] \in Nat /\ failures'[k] \in Nat /\ Table(table) /\ Table(table')
  BY DEF MonitorInv, Kept
<1>2. Pending(k) \in Nat /\ Pending(k)' \in Nat
  BY PendingIs DEF Pending, OfCallback, OfPinger
<1>3. Pending(k)' <= failures'[k]
  BY <1>1, <1>2 DEF Accounts
<1>4. ASSUME NEW i \in RowsOf(table', k)
      PROVE  table'.rows[i].attempts + Pending(k)' <= failures'[k]
  <2>1. CASE table'.rows[i].attempts = 0
    BY <1>2, <1>3, <2>1
  <2>2. CASE /\ i \in DOMAIN table.rows /\ table'.rows[i].key = table.rows[i].key
             /\ table'.rows[i].attempts = table.rows[i].attempts
    <3>1. i \in RowsOf(table, k) /\ table.rows[i].attempts \in Nat
      BY <1>1, <2>2 DEF RowsOf, Table, Row
    <3> QED BY <1>1, <1>2, <2>2, <3>1 DEF Accounts
  <2> QED BY <2>1, <2>2 DEF Uncounted, RowsOf
<1> QED BY <1>3, <1>4 DEF Accounts

\* The same, when no failure is new.
LEMMA AccountsQuiet ==
  ASSUME MonitorInv, Later, Uncounted(table, table'), Kept', NEW k \in Key,
         Pending(k)' <= Pending(k)
  PROVE  Accounts(k)'
<1>1. failures[k] \in Nat /\ failures'[k] \in Nat /\ failures[k] <= failures'[k]
  BY DEF MonitorInv, Kept, Later
<1>2. Pending(k) \in Nat /\ Pending(k)' \in Nat
  BY DEF Pending, OfCallback, OfPinger
<1> QED BY <1>1, <1>2, AccountsStay

\* The listeners have nothing pending.
LEMMA AccountsOthers ==
  ASSUME MonitorInv, Kept', Later, Uncounted(table, table'), UNCHANGED <<callback, pinger>>,
         NEW k \in Key
  PROVE  Accounts(k)'
<1>1. Pending(k)' = Pending(k)
  BY DEF Pending, OfCallback, OfPinger, Current
<1> QED BY <1>1, PendingIs, AccountsQuiet

\* Statements that insert or change rows lose none.
LEMMA KeptGrown ==
  ASSUME MonitorInv, Grown(table, table'),
         UNCHANGED <<history, skipped, failures, abandoned, flushed>>
  PROVE  Kept' /\ Later /\ Uncounted(table, table')
<1>1. Table(table) /\ Table(table')
  BY DEF MonitorInv, Kept, Grown
<1>2. Recorded' = Recorded /\ Accounted' = Accounted
  BY DEF Recorded, Accounted
<1>3. NothingLost'
  BY <1>2 DEF MonitorInv, Kept, NothingLost, Grown, Ids
<1>4. Recorded' \subseteq 1..(table'.next - 1)
  BY <1>1, <1>2 DEF MonitorInv, Kept, Grown, Table
<1> QED BY <1>1, <1>2, <1>3, <1>4 DEF MonitorInv, Kept, Later, Grown, Table

\* Rows that are deleted are accounted for.
LEMMA KeptDeleted ==
  ASSUME MonitorInv, NEW S, table' = Delete(table, S), UNCHANGED records,
         abandoned \subseteq abandoned', flushed \subseteq flushed',
         Ids \cap S \subseteq Accounted \cup abandoned' \cup flushed'
  PROVE  Kept' /\ Later /\ Uncounted(table, table')
<1>1. /\ Table(table') /\ table'.next = table.next
      /\ Ids' = Ids \ S
      /\ \A i \in Ids' : table'.rows[i] = table.rows[i]
  BY Deleted DEF MonitorInv, Kept, Ids
<1>2. Recorded' = Recorded /\ Accounted' = Accounted /\ skipped' = skipped
  BY DEF Recorded, Accounted, records
<1>3. NothingLost'
  BY <1>1, <1>2 DEF MonitorInv, Kept, NothingLost, Accounted
<1>4. Uncounted(table, table')
  BY <1>1 DEF Uncounted, Ids
<1>5. table.next \in Nat
  BY DEF MonitorInv, Kept, Table
<1> QED BY <1>1, <1>2, <1>3, <1>4, <1>5 DEF MonitorInv, Kept, Later, records

\* A play is recorded, or was not to be.
LEMMA KeptRecorded ==
  ASSUME MonitorInv, NEW row, Held(row), RecordOk(row), Grown(table, table'),
         UNCHANGED <<abandoned, flushed>>
  PROVE  Kept' /\ Later /\ Uncounted(table, table') /\ row.id \in Accounted' /\ UNCHANGED failures
<1>1. /\ Table(table) /\ history \in Seq(Nat) /\ row.id \in Nat /\ row.key \in Key
      /\ row.id \in 1..(table.next - 1) /\ table.next \in Nat
  BY DEF MonitorInv, Kept, Table, Held, Row
<1>2. Grown(table, table')
  OBVIOUS
<1>3. /\ history' \in Seq(Nat)
      /\ Recorded \subseteq Recorded' /\ Recorded' \subseteq Recorded \cup {row.id}
      /\ skipped \subseteq skipped'
      /\ row.id \in Recorded' \/ row.id \in skipped'
  <2>1. CASE Logged(row)
    <3>1. history' = Append(history, row.id) /\ skipped' = skipped
      BY <2>1 DEF RecordOk
    <3>2. /\ history' \in Seq(Nat) /\ Len(history') = Len(history) + 1
          /\ \A n \in 1..Len(history) : history'[n] = history[n]
          /\ history'[Len(history) + 1] = row.id
      BY <1>1, <3>1
    <3>3. DOMAIN history = 1..Len(history) /\ DOMAIN history' = 1..(Len(history) + 1)
          /\ Len(history) \in Nat
      BY <1>1, <3>2
    <3> QED BY <3>1, <3>2, <3>3 DEF Recorded
  <2>2. CASE ~Logged(row)
    BY <1>1, <2>2 DEF RecordOk, Recorded
  <2> QED BY <2>1, <2>2
<1>4. NothingLost'
  BY <1>2, <1>3 DEF MonitorInv, Kept, NothingLost, Grown, Ids
<1>5. Table(table') /\ table'.next \in Nat /\ table.next <= table'.next /\ Uncounted(table, table')
  BY <1>2 DEF Grown, Table
<1>6. Recorded' \subseteq 1..(table'.next - 1)
  BY <1>1, <1>3, <1>5 DEF MonitorInv, Kept
<1>7. /\ UNCHANGED failures /\ failures \in [Key -> Nat]
      /\ \A k \in Key : failures[k] <= failures[k]
  BY DEF RecordOk, MonitorInv, Kept
<1>8. Accounted \subseteq Accounted' /\ row.id \in Accounted'
  BY <1>3 DEF Accounted
<1>9. Kept'
  BY <1>3, <1>4, <1>5, <1>6, <1>7 DEF Kept
<1> QED BY <1>5, <1>7, <1>8, <1>9 DEF Later

\* A write fails: nothing is recorded, and the failure is counted for its key.
LEMMA KeptFailed ==
  ASSUME MonitorInv, NEW row, Held(row), RecordFails(row), Grown(table, table'),
         UNCHANGED <<abandoned, flushed>>
  PROVE  /\ Kept' /\ Later /\ Uncounted(table, table')
         /\ failures'[row.key] = failures[row.key] + 1
         /\ \A k \in Key \ {row.key} : failures'[k] = failures[k]
<1>1. Table(table) /\ row.key \in Key /\ failures \in [Key -> Nat]
  BY DEF MonitorInv, Kept, Held, Row
<1>2. Grown(table, table')
  OBVIOUS
<1>3. /\ failures' \in [Key -> Nat] /\ failures'[row.key] = failures[row.key] + 1
      /\ \A k \in Key \ {row.key} : failures'[k] = failures[k]
  BY <1>1 DEF RecordFails
<1>4. Recorded' = Recorded /\ Accounted' = Accounted /\ UNCHANGED <<history, skipped>>
  BY DEF Recorded, Accounted, RecordFails
<1>5. NothingLost'
  BY <1>2, <1>4 DEF MonitorInv, Kept, NothingLost, Grown, Ids
<1>6. Table(table') /\ table'.next \in Nat /\ table.next <= table'.next /\ Uncounted(table, table')
  BY <1>2 DEF Grown, Table
<1>7. Recorded' \subseteq 1..(table'.next - 1)
  BY <1>1, <1>4, <1>6 DEF MonitorInv, Kept, Table
<1> QED BY <1>1, <1>3, <1>4, <1>5, <1>6, <1>7 DEF MonitorInv, Kept, Later

\* A write raises: the play is in the history or it is not.
LEMMA RaisedHistory ==
  ASSUME MonitorInv, NEW row, Held(row), RecordRaises(row)
  PROVE  /\ history' \in Seq(Nat)
         /\ Recorded \subseteq Recorded' /\ Recorded' \subseteq Recorded \cup {row.id}
<1>1. history \in Seq(Nat) /\ row.id \in Nat
  BY DEF MonitorInv, Kept, Held, Row
<1>2. CASE history' = history
  BY <1>1, <1>2 DEF Recorded
<1>3. CASE history' = Append(history, row.id)
  <2>1. /\ history' \in Seq(Nat) /\ Len(history') = Len(history) + 1
        /\ \A n \in 1..Len(history) : history'[n] = history[n]
        /\ history'[Len(history) + 1] = row.id
    BY <1>1, <1>3
  <2>2. DOMAIN history = 1..Len(history) /\ DOMAIN history' = 1..(Len(history) + 1)
        /\ Len(history) \in Nat
    BY <1>1, <2>1
  <2> QED BY <2>1, <2>2 DEF Recorded
<1> QED BY <1>2, <1>3 DEF RecordRaises

LEMMA KeptRaised ==
  ASSUME MonitorInv, NEW row, Held(row), RecordRaises(row), Grown(table, table'),
         UNCHANGED <<skipped, failures, abandoned, flushed>>
  PROVE  Kept' /\ Later /\ Uncounted(table, table')
<1>1. /\ history' \in Seq(Nat)
      /\ Recorded \subseteq Recorded' /\ Recorded' \subseteq Recorded \cup {row.id}
  BY RaisedHistory
<1>2. Table(table) /\ Table(table') /\ table.next <= table'.next /\ Uncounted(table, table')
  BY DEF MonitorInv, Kept, Grown
<1>3. NothingLost'
  BY <1>1 DEF MonitorInv, Kept, NothingLost, Grown, Ids
<1>4. Recorded' \subseteq 1..(table'.next - 1)
  <2>1. PICK n \in Nat, m \in Nat : n = table.next /\ m = table'.next /\ n <= m
    BY <1>2 DEF Table
  <2>2. Recorded \subseteq 1..(n - 1) /\ row.id \in 1..(n - 1)
    BY <2>1 DEF MonitorInv, Kept, Held
  <2>3. 1..(n - 1) \subseteq 1..(m - 1)
    BY <2>1
  <2> QED BY <1>1, <2>1, <2>2, <2>3
<1>5. Accounted \subseteq Accounted'
  BY <1>1 DEF Accounted
<1> QED BY <1>1, <1>2, <1>3, <1>4, <1>5 DEF MonitorInv, Kept, Later, Table

-----------------------------------------------------------------------------
(***************************************************************************)
(* The listeners.                                                          *)
(***************************************************************************)
\* A listener goes on; the other threads keep what they hold.
LEMMA ListenerGoesOn ==
  ASSUME MonitorInv, Kept', Later, Uncounted(table, table'),
         NEW l \in Listener, NEW h, listener' = [listener EXCEPT ![l] = h], Sound(h)',
         UNCHANGED <<callback, pinger, playing>>, jobs' \subseteq Key, timed' \subseteq Key
  PROVE  MonitorInv'
<1>1. listener \in [Listener -> {Rest} \cup Handling]
  BY DEF MonitorInv, Typed
<1>2. listener'[l] = h /\ \A m \in Listener \ {l} : listener'[m] = listener[m]
  BY <1>1
<1>3. \A m \in Listener : Sound(listener[m])'
  <2>1. ASSUME NEW m \in Listener \ {l}
        PROVE  Sound(listener[m])'
    <3>1. PICK g : g = listener[m]
      OBVIOUS
    <3>2. Sound(g)'
      BY <3>1, SoundStays DEF MonitorInv
    <3> QED BY <1>2, <3>1, <3>2 DEF Sound
  <2>2. Sound(listener[l])'
    BY <1>2 DEF Sound
  <2> QED BY <2>1, <2>2
<1>4. Typed'
  <2>1. h \in {Rest} \cup Handling
    BY DEF Sound
  <2>2. listener' \in [Listener -> {Rest} \cup Handling]
    BY <1>1, <2>1
  <2> QED BY <2>2 DEF MonitorInv, Typed
<1>5. ASSUME NEW k \in Key
      PROVE  Accounts(k)' /\ Forcing(k, callback[k])'
  BY AccountsOthers, CallbackStays
<1>6. PingerInv'
  BY PingerStays
<1> QED BY <1>3, <1>4, <1>5, <1>6 DEF MonitorInv

\* The first row of a key is a row that can be held.
LEMMA FirstRowHeld ==
  ASSUME NEW t, Table(t), NEW f \in [Key -> Nat], NEW k \in Key, RowsOf(t, k) # {},
         \A i \in RowsOf(t, k) : t.rows[i].attempts <= f[k]
  PROVE  LET row == FirstRow(t, k) IN
         /\ row \in Row /\ row # Nobody /\ row.key = k
         /\ row.id \in 1..(t.next - 1) /\ row.attempts <= f[row.key]
<1>1. PICK i \in RowsOf(t, k) : FirstRow(t, k) = t.rows[i]
  BY FirstRowIs
<1>2. /\ t.rows[i] \in Row /\ t.rows[i].key = k /\ t.rows[i].id = i /\ i \in 1..(t.next - 1)
      /\ t.rows[i].attempts <= f[k]
  BY <1>1 DEF Table, RowsOf
<1>3. t.rows[i] # Nobody
  BY <1>2 DEF Nobody, Row
<1> QED BY <1>1, <1>2, <1>3

LEMMA FirstHeld ==
  ASSUME MonitorInv, NEW k \in Key, RowsOf(table, k) # {}
  PROVE  Held(FirstRow(table, k)) /\ FirstRow(table, k) # Nobody /\ FirstRow(table, k).key = k
<1>1. \A i \in RowsOf(table, k) : table.rows[i].attempts <= failures[k]
  <2>1. Pending(k) \in Nat /\ failures[k] \in Nat
    BY PendingIs DEF MonitorInv, Kept
  <2>2. \A i \in RowsOf(table, k) : table.rows[i].attempts \in Nat
    BY DEF MonitorInv, Kept, Table, Row, RowsOf
  <2> QED BY <2>1, <2>2 DEF MonitorInv, Accounts
<1> QED BY <1>1, FirstRowHeld DEF MonitorInv, Kept, Held

LEMMA FirstHeldNext ==
  ASSUME Kept', NEW k \in Key, Accounts(k)', RowsOf(table', k) # {},
         NEW row, row = FirstRow(table', k)
  PROVE  Held(row)' /\ row # Nobody
<1>1. \A i \in RowsOf(table', k) : table'.rows[i].attempts <= failures'[k]
  <2>1. Pending(k)' \in Nat /\ failures'[k] \in Nat
    BY DEF Kept, Pending, OfCallback, OfPinger
  <2>2. \A i \in RowsOf(table', k) : table'.rows[i].attempts \in Nat
    BY DEF Kept, Table, Row, RowsOf
  <2> QED BY <2>1, <2>2 DEF Accounts
<1> QED BY <1>1, FirstRowHeld DEF Kept, Held

\* What is left of a handler after its first step.
Left(g, h) ==
  \/ h = Rest /\ Head(g.todo) \notin {"look", "settle", "record", "start"}
  \/ /\ h \in Handling /\ h.todo # <<>> /\ Orderly(h.todo)
     /\ h.todo = Tail(g.todo)
     /\ Head(h.todo) = "finish" => Head(g.todo) = "record"
     /\ h.row = g.row /\ h.key = g.key
     /\ g.row = Nobody => \A n \in 1..Len(h.todo) : h.todo[n] # "record"

LEMMA PopIs ==
  ASSUME MonitorInv, NEW l \in Listener, listener[l].todo # <<>>
  PROVE  /\ listener[l] \in Handling /\ Sound(listener[l])
         /\ Left(listener[l], Pop(l))
<1> DEFINE g == listener[l]
           h == [g EXCEPT !.todo = Tail(@)]
<1>1. g \in Handling /\ Sound(g)
  BY DEF MonitorInv, Sound, Rest
<1>2. Orderly(g.todo) /\ g.todo \in Seq(Step) /\ Len(g.todo) \in Nat \ {0}
  BY <1>1 DEF Sound, Rest, Orderly
<1>3. CASE Len(g.todo) = 1
  <2>1. g.todo[1] \notin {"look", "settle", "record", "start"}
    BY <1>2, <1>3 DEF Orderly
  <2>2. Head(g.todo) = g.todo[1]
    BY <1>2
  <2> QED BY <1>1, <1>3, <2>1, <2>2 DEF Pop, Left, Rest
<1>4. CASE Len(g.todo) # 1
  <2>1. Pop(l) = h
    BY <1>4 DEF Pop
  <2>2. /\ h \in Handling /\ h.todo = Tail(g.todo) /\ h.row = g.row /\ h.key = g.key
    BY <1>1, <1>2 DEF Handling
  <2>3. /\ Tail(g.todo) \in Seq(Step) /\ Len(Tail(g.todo)) = Len(g.todo) - 1
        /\ \A n \in 1..Len(Tail(g.todo)) : Tail(g.todo)[n] = g.todo[n + 1]
        /\ Tail(g.todo) # <<>> /\ Head(Tail(g.todo)) = g.todo[2] /\ Head(g.todo) = g.todo[1]
    <3>1. g.todo # <<>>
      <4>1. Len(<<>>) = 0 /\ Len(g.todo) # 0
        BY <1>2, EmptySeq
      <4> QED BY <4>1
    <3>2. /\ Tail(g.todo) \in Seq(Step) /\ Len(Tail(g.todo)) = Len(g.todo) - 1
          /\ \A n \in 1..Len(Tail(g.todo)) : Tail(g.todo)[n] = g.todo[n + 1]
      <4> HIDE DEF g
      <4> QED BY <1>2, <3>1, HeadTailProperties
    <3>3. Tail(g.todo) # <<>> /\ 1 \in 1..Len(Tail(g.todo))
      <4>1. Len(<<>>) = 0
        BY EmptySeq
      <4>2. ASSUME NEW n \in Nat \ {0}, n # 1
            PROVE  n - 1 # 0 /\ 1 \in 1..(n - 1)
        BY <4>2
      <4>3. Len(g.todo) - 1 # 0 /\ 1 \in 1..(Len(g.todo) - 1)
        BY <1>2, <1>4, <4>2
      <4> QED BY <3>2, <4>1, <4>3
    <3>4. Head(g.todo) = g.todo[1] /\ Head(Tail(g.todo)) = Tail(g.todo)[1]
      <4>1. \A todo \in Seq(Step) : Head(todo) = todo[1]
        OBVIOUS
      <4> QED BY <1>2, <3>2, <4>1
    <3>5. Tail(g.todo)[1] = g.todo[2]
      BY <3>2, <3>3
    <3> QED BY <3>1, <3>2, <3>3, <3>4, <3>5
  <2>4. Orderly(Tail(g.todo))
    <3>1. ASSUME NEW n \in 1..Len(Tail(g.todo))
          PROVE  /\ Tail(g.todo)[n] \in {"look", "settle", "record", "start"} => n < Len(Tail(g.todo))
                 /\ Tail(g.todo)[n] = "record" => Tail(g.todo)[n + 1] = "finish"
                 /\ Tail(g.todo)[n] = "start" => Tail(g.todo)[n + 1] = "watchdog"
                 /\ Tail(g.todo)[n] = "finish" => n = 1 \/ Tail(g.todo)[n - 1] = "record"
                 /\ Tail(g.todo)[n] = "finish" =>
                      \A m \in 1..Len(Tail(g.todo)) : m > n => Tail(g.todo)[m] \in StartStep
      <4>1. /\ n + 1 \in 1..Len(g.todo) /\ Tail(g.todo)[n] = g.todo[n + 1]
            /\ n # 1 => n - 1 \in 1..Len(Tail(g.todo)) /\ Tail(g.todo)[n - 1] = g.todo[n]
        BY <1>2, <2>3
      <4>2. Tail(g.todo)[n] \in {"look", "settle", "record", "start"} => n < Len(Tail(g.todo))
        BY <1>2, <2>3, <4>1 DEF Orderly
      <4>3. n < Len(Tail(g.todo)) => Tail(g.todo)[n + 1] = g.todo[(n + 1) + 1]
        BY <1>2, <2>3
      <4>4. ASSUME NEW m \in 1..Len(Tail(g.todo)), m > n, Tail(g.todo)[n] = "finish"
            PROVE  Tail(g.todo)[m] \in StartStep
        <5>1. m + 1 \in 1..Len(g.todo) /\ Tail(g.todo)[m] = g.todo[m + 1] /\ m + 1 > n + 1
          BY <1>2, <2>3, <4>4
        <5> QED BY <1>2, <4>1, <4>4, <5>1 DEF Orderly
      <4>5. Tail(g.todo)[n] = "finish" => n = 1 \/ Tail(g.todo)[n - 1] = "record"
        BY <1>2, <4>1 DEF Orderly
      <4>6. /\ Tail(g.todo)[n] = "record" => Tail(g.todo)[n + 1] = "finish"
            /\ Tail(g.todo)[n] = "start" => Tail(g.todo)[n + 1] = "watchdog"
        BY <1>2, <4>1, <4>2, <4>3 DEF Orderly
      <4> QED BY <4>2, <4>4, <4>5, <4>6
    <3> QED BY <2>3, <3>1 DEF Orderly
  <2>5. Head(Tail(g.todo)) = "finish" => Head(g.todo) = "record"
    BY <1>2, <1>4, <2>3 DEF Orderly
  <2>6. g.row = Nobody => \A n \in 1..Len(Tail(g.todo)) : Tail(g.todo)[n] # "record"
    BY <1>1, <1>2, <2>3 DEF Sound, Rest
  <2>7. PICK new : new = h
    OBVIOUS
  <2>8. /\ new \in Handling /\ new.todo = Tail(g.todo) /\ new.row = g.row /\ new.key = g.key
        /\ Pop(l) = new
    BY <2>1, <2>2, <2>7
  <2> HIDE DEF h, g
  <2>9. Left(g, new)
    BY <2>3, <2>4, <2>5, <2>6, <2>8 DEF Left
  <2> QED BY <1>1, <2>8, <2>9 DEF g
<1> QED BY <1>3, <1>4

\* A handler that has not just tried to write goes on with the row it has ...
LEMMA SoundLeft ==
  ASSUME MonitorInv, Later, NEW g, Sound(g), g.todo # <<>>, NEW h, Left(g, h),
         Head(g.todo) # "record"
  PROVE  Sound(h)'
<1>1. CASE h = Rest
  BY <1>1 DEF Sound
<1>2. CASE h # Rest
  <2>1. h.row # Nobody => Held(h.row)
    BY <1>2 DEF Sound, Left, Rest
  <2>2. h.row # Nobody => Held(h.row)'
    BY <2>1, HeldStays
  <2> QED BY <1>2, <2>2 DEF Sound, Left
<1> QED BY <1>1, <1>2

\* ... or with one it has just read.
LEMMA SoundReading ==
  ASSUME NEW g, NEW h, Left(g, h), h # Rest, Head(g.todo) # "record",
         NEW row, Held(row)', row # Nobody, NEW live \in Item \cup {NoItem}
  PROVE  Sound([h EXCEPT !.row = row])' /\ Sound([h EXCEPT !.live = live, !.row = row])'
<1>1. h \in Handling /\ h.todo # <<>> /\ Orderly(h.todo) /\ Head(h.todo) # "finish"
  BY DEF Left
<1>2. row \in Row
  BY DEF Held
<1> DEFINE read == [h EXCEPT !.row = row]
           seen == [h EXCEPT !.live = live, !.row = row]
<1>3. /\ read \in Handling /\ read.todo = h.todo /\ read.row = row
      /\ seen \in Handling /\ seen.todo = h.todo /\ seen.row = row
  BY <1>1, <1>2 DEF Handling
<1> HIDE DEF read, seen
<1>4. Sound(read)' /\ Sound(seen)'
  BY <1>1, <1>3 DEF Sound
<1> QED BY <1>4 DEF read, seen

\* update_db_session, in an update or a start.
LEMMA WriteLiveHolds ==
  ASSUME MonitorInv, NEW l \in Listener, listener[l].todo # <<>>, Head(listener[l].todo) # "record",
         NEW live \in Item \cup {NoItem}, WriteLive(l, live),
         UNCHANGED <<timers, callback, pinger, playing, fates>>
  PROVE  MonitorInv'
<1>1. PICK g \in Handling : g = listener[l] /\ Sound(g)
  BY PopIs
<1>2. PICK k \in Key : k = g.key
  BY DEF Handling
<1>3. PICK state \in State : state = g.state
  BY DEF Handling
<1>4. PICK h : h = Pop(l) /\ Left(g, h)
  BY <1>1, PopIs
<1> DEFINE seen == IF live = NoItem THEN table ELSE WriteSession(table, k, live, state)
<1>5. Grown(table, seen)
  BY WriteSessionGrows, GrownSame DEF MonitorInv, Kept
<1>6. table' = SetState(seen, k, state)
  BY <1>1, <1>2, <1>3 DEF WriteLive
<1>7. Grown(table, table') /\ RowsOf(table', k) # {}
  <2> HIDE DEF seen
  <2>1. Grown(seen, table') /\ RowsOf(table', k) # {}
    BY <1>5, <1>6, SetStateGrows DEF Grown
  <2> QED BY <1>5, <2>1, GrownTwice DEF MonitorInv, Kept
<1>8. Kept' /\ Later /\ Uncounted(table, table')
  BY <1>7, KeptGrown DEF fates, records
<1>9. Accounts(k)'
  BY <1>8, AccountsOthers
<1>10. PICK row : row = FirstRow(table', k)
  OBVIOUS
<1>11. Held(row)' /\ row # Nobody
  BY <1>7, <1>8, <1>9, <1>10, FirstHeldNext
<1> DEFINE new == [h EXCEPT !.live = live, !.row = row]
<1>12. listener' = [listener EXCEPT ![l] = IF h.todo = <<>> THEN h ELSE new]
  BY <1>1, <1>2, <1>4, <1>10 DEF WriteLive
<1>13. CASE h.todo = <<>>
  <2>1. h = Rest
    BY <1>4, <1>13 DEF Left
  <2>2. Sound(h)'
    BY <2>1 DEF Sound
  <2> QED BY <1>8, <1>12, <1>13, <2>2, ListenerGoesOn DEF timers, MonitorInv, Typed
<1>14. CASE h.todo # <<>>
  <2>1. h # Rest
    BY <1>14 DEF Rest
  <2>2. Sound(new)'
    BY <1>1, <1>4, <1>11, <2>1, SoundReading
  <2>3. listener' = [listener EXCEPT ![l] = new]
    BY <1>12, <1>14
  <2> HIDE DEF new
  <2> QED BY <1>8, <2>2, <2>3, ListenerGoesOn DEF timers, MonitorInv, Typed
<1> QED BY <1>13, <1>14

\* What the handler sees is an item or nothing.
LEMMA LookIs ==
  ASSUME MonitorInv, NEW l \in Listener, listener[l].todo # <<>>, NEW live \in Look(l)
  PROVE  live \in Item \cup {NoItem} /\ listener[l].live \in Item \cup {NoItem}
<1>1. listener[l].key \in Key /\ listener[l].live \in Item \cup {NoItem}
  BY PopIs DEF Handling
<1> QED BY <1>1 DEF Look, MonitorInv, Typed

\* The steps that read the server's list.
LEMMA HandlerReads ==
  ASSUME MonitorInv, NEW l \in Listener, HandlerUpdate(l) \/ HandlerStart(l) \/ HandlerLook(l)
  PROVE  MonitorInv'
<1>1. listener[l].todo # <<>> /\ Head(listener[l].todo) # "record"
  BY DEF HandlerUpdate, HandlerStart, HandlerLook, At
<1>2. CASE HandlerUpdate(l)
  <2>1. PICK live \in Look(l) :
          WriteLive(l, IF listener[l].live = NoItem THEN live ELSE listener[l].live)
    BY <1>2 DEF HandlerUpdate
  <2>2. PICK chosen : chosen = IF listener[l].live = NoItem THEN live ELSE listener[l].live
    OBVIOUS
  <2>3. chosen \in Item \cup {NoItem} /\ WriteLive(l, chosen)
    BY <1>1, <2>1, <2>2, LookIs
  <2> QED BY <1>1, <1>2, <2>3, WriteLiveHolds DEF HandlerUpdate
<1>3. ASSUME UNCHANGED <<table, timers, callback, pinger, playing, fates>>
      PROVE  Kept' /\ Later /\ Uncounted(table, table') /\ jobs' \subseteq Key /\ timed' \subseteq Key
  BY <1>3, GrownSame, KeptGrown DEF fates, records, timers, MonitorInv, Kept, Typed
<1>4. Sound(Rest)'
  BY DEF Sound
<1>5. CASE HandlerStart(l)
  <2>1. PICK live \in Look(l) :
          IF live = NoItem
          THEN /\ listener' = [listener EXCEPT ![l] = Rest]
               /\ UNCHANGED table
          ELSE WriteLive(l, live)
    BY <1>5 DEF HandlerStart, Rest
  <2>2. CASE live = NoItem
    BY <1>3, <1>4, <1>5, <2>1, <2>2, ListenerGoesOn DEF HandlerStart
  <2>3. CASE live # NoItem
    BY <1>1, <1>5, <2>1, <2>3, LookIs, WriteLiveHolds DEF HandlerStart
  <2> QED BY <2>2, <2>3
<1>6. CASE HandlerLook(l)
  <2>1. PICK live \in Look(l) :
          listener' = [listener EXCEPT ![l] =
            IF live = NoItem THEN Rest ELSE [Pop(l) EXCEPT !.live = live]]
    BY <1>6 DEF HandlerLook, Rest
  <2>2. PICK g \in Handling : g = listener[l] /\ Sound(g)
    BY <1>1, PopIs
  <2>3. PICK h : h = Pop(l) /\ Left(g, h)
    BY <1>1, <2>2, PopIs
  <2> DEFINE new == [h EXCEPT !.live = live]
  <2>4. Sound(new)'
    <3>1. h # Rest /\ Head(g.todo) # "record" /\ g.todo # <<>>
      BY <1>1, <1>6, <2>2, <2>3 DEF HandlerLook, At, Left, Rest
    <3>2. Sound(h)'
      BY <1>3, <1>6, <2>2, <2>3, <3>1, SoundLeft DEF HandlerLook
    <3>3. h \in Handling /\ live \in Item \cup {NoItem}
      BY <1>1, <2>3, <3>1, LookIs DEF Left
    <3>4. new \in Handling /\ new.todo = h.todo /\ new.row = h.row /\ new.saved = h.saved
      BY <3>3 DEF Handling
    <3> HIDE DEF new
    <3> QED BY <3>1, <3>2, <3>4 DEF Sound
  <2>5. CASE live = NoItem
    BY <1>3, <1>4, <1>6, <2>1, <2>5, ListenerGoesOn DEF HandlerLook
  <2>6. CASE live # NoItem
    <3>1. listener' = [listener EXCEPT ![l] = new]
      BY <2>1, <2>3, <2>6
    <3> HIDE DEF new
    <3> QED BY <1>3, <1>6, <2>4, <3>1, ListenerGoesOn DEF HandlerLook
  <2> QED BY <2>5, <2>6
<1> QED BY <1>2, <1>5, <1>6

\* The steps that write the table and go on: pauses, the end of a session, the timer.
LEMMA HandlerWrites ==
  ASSUME MonitorInv, NEW l \in Listener,
         HandlerPaused(l) \/ HandlerSettle(l) \/ HandlerWatchdog(l)
  PROVE  MonitorInv'
<1>1. listener[l].todo # <<>> /\ Head(listener[l].todo) # "record"
  BY DEF HandlerPaused, HandlerSettle, HandlerWatchdog, At
<1>2. PICK g \in Handling : g = listener[l] /\ Sound(g)
  BY <1>1, PopIs
<1>3. PICK h : h = Pop(l) /\ Left(g, h)
  BY <1>1, <1>2, PopIs
<1>4. PICK k \in Key : k = g.key
  BY DEF Handling
<1>5. Table(table)
  BY DEF MonitorInv, Kept
<1>6. ASSUME Grown(table, table'), Advance(l), UNCHANGED <<callback, pinger, playing, fates>>,
             jobs' \subseteq Key, timed' \subseteq Key
      PROVE  MonitorInv'
  <2>1. Kept' /\ Later /\ Uncounted(table, table')
    BY <1>6, KeptGrown DEF fates, records
  <2>2. Sound(h)'
    BY <1>1, <1>2, <1>3, <2>1, SoundLeft
  <2>3. listener' = [listener EXCEPT ![l] = h]
    BY <1>3, <1>6 DEF Advance
  <2> QED BY <1>6, <2>1, <2>2, <2>3, ListenerGoesOn
<1>7. CASE HandlerPaused(l)
  <2>1. PICK paused \in BOOLEAN : table' = SetLastPaused(table, k, paused)
    BY <1>2, <1>4, <1>7 DEF HandlerPaused, At
  <2>2. Grown(table, table')
    BY <1>5, <2>1, SetLastPausedGrows
  <2> QED BY <1>6, <1>7, <2>2 DEF HandlerPaused, timers, MonitorInv, Typed
<1>8. CASE HandlerWatchdog(l)
  <2>1. jobs' \subseteq Key /\ timed' \subseteq Key
    BY <1>2, <1>4, <1>8 DEF HandlerWatchdog, SetTimer, MonitorInv, Typed
  <2> QED BY <1>5, <1>6, <1>8, <2>1, GrownSame DEF HandlerWatchdog
<1>9. CASE HandlerSettle(l)
  <2>1. PICK row : row = FirstRow(table', k)
    OBVIOUS
  <2> DEFINE new == [h EXCEPT !.row = row]
             calm == SetLastPaused(table, k, FALSE)
  <2>2. table' = SetState(calm, k, "stopped") /\ listener' = [listener EXCEPT ![l] = new]
    BY <1>2, <1>3, <1>4, <1>9, <2>1 DEF HandlerSettle
  <2>3. Grown(table, calm)
    BY <1>5, SetLastPausedGrows
  <2>4. Grown(table, table') /\ RowsOf(table', k) # {}
    <3> HIDE DEF calm
    <3>1. Grown(calm, table') /\ RowsOf(table', k) # {}
      BY <2>2, <2>3, SetStateGrows DEF Grown, State
    <3> QED BY <1>5, <2>3, <3>1, GrownTwice
  <2>5. Kept' /\ Later /\ Uncounted(table, table')
    BY <1>9, <2>4, KeptGrown DEF HandlerSettle, fates, records
  <2>6. Accounts(k)'
    BY <1>9, <2>5, AccountsOthers DEF HandlerSettle
  <2>7. Held(row)' /\ row # Nobody
    BY <2>1, <2>4, <2>5, <2>6, FirstHeldNext
  <2>8. h # Rest /\ Head(g.todo) # "record"
    <3>1. Head(g.todo) = "settle"
      BY <1>2, <1>9 DEF HandlerSettle, At
    <3> QED BY <1>3, <3>1 DEF Left, Rest
  <2>9. Sound(new)'
    BY <1>3, <2>7, <2>8, SoundReading
  <2> HIDE DEF new
  <2> QED BY <1>9, <2>2, <2>5, <2>9, ListenerGoesOn DEF HandlerSettle, timers, MonitorInv, Typed
<1> QED BY <1>7, <1>8, <1>9

\* on_stop writes: the row it holds is a real one.
LEMMA RecordingHeld ==
  ASSUME NEW g, Sound(g), g.todo # <<>>, Head(g.todo) = "record"
  PROVE  g.row # Nobody /\ Held(g.row)
<1>1. Orderly(g.todo) /\ g.todo # <<>> /\ g.todo \in Seq(Step)
  BY DEF Sound, Rest, Orderly
<1>2. 1 \in 1..Len(g.todo)
  <2>1. Len(g.todo) \in Nat \ {0}
    BY <1>1, EmptySeq
  <2> QED BY <2>1
<1>3. \A todo \in Seq(Step) : Head(todo) = todo[1]
  OBVIOUS
<1>4. g.todo[1] = "record"
  BY <1>1, <1>3
<1> QED BY <1>1, <1>2, <1>4 DEF Sound, Rest

LEMMA HandlerRecordHolds ==
  ASSUME MonitorInv, NEW l \in Listener, HandlerRecord(l)
  PROVE  MonitorInv'
<1>1. listener[l].todo # <<>> /\ Head(listener[l].todo) = "record"
  BY DEF HandlerRecord, At
<1>2. PICK g \in Handling : g = listener[l] /\ Sound(g)
  BY <1>1, PopIs
<1>3. PICK h : h = Pop(l) /\ Left(g, h)
  BY <1>1, <1>2, PopIs
<1>4. /\ h # Rest /\ h \in Handling /\ h.todo # <<>> /\ Orderly(h.todo) /\ h.row = g.row
  BY <1>1, <1>2, <1>3 DEF Left, Rest
<1>5. g.row # Nobody /\ Held(g.row)
  BY <1>1, <1>2, RecordingHeld
<1>6. ASSUME NEW saved \in BOOLEAN, Later,
             Held(g.row)', saved => g.row.id \in Accounted'
      PROVE  Sound([h EXCEPT !.saved = saved])'
  <2> DEFINE new == [h EXCEPT !.saved = saved]
  <2>1. new \in Handling /\ new.todo = h.todo /\ new.row = g.row /\ new.saved = saved
    BY <1>4 DEF Handling
  <2> HIDE DEF new
  <2>2. Sound(new)'
    BY <1>4, <1>5, <1>6, <2>1 DEF Sound
  <2> QED BY <2>2 DEF new
<1>7. jobs' \subseteq Key /\ timed' \subseteq Key /\ Grown(table, table')
  BY <1>2, <1>5, StampGrows DEF HandlerRecord, timers, MonitorInv, Typed, Kept, Held, Row
<1>8. CASE RecordOk(g.row) /\ listener' = [listener EXCEPT ![l] = [h EXCEPT !.saved = TRUE]]
  <2>1. Kept' /\ Later /\ Uncounted(table, table') /\ g.row.id \in Accounted'
    BY <1>5, <1>7, <1>8, KeptRecorded DEF HandlerRecord
  <2>2. PICK new : new = [h EXCEPT !.saved = TRUE]
    OBVIOUS
  <2>3. Sound(new)'
    BY <1>5, <1>6, <2>1, <2>2, HeldStays DEF Sound
  <2> QED BY <1>7, <1>8, <2>1, <2>2, <2>3, ListenerGoesOn DEF HandlerRecord
<1>9. CASE RecordFails(g.row) /\ listener' = [listener EXCEPT ![l] = [h EXCEPT !.saved = FALSE]]
  <2>1. Kept' /\ Later /\ Uncounted(table, table')
    BY <1>5, <1>7, <1>9, KeptFailed DEF HandlerRecord
  <2>2. PICK new : new = [h EXCEPT !.saved = FALSE]
    OBVIOUS
  <2>3. Sound(new)'
    BY <1>5, <1>6, <2>1, <2>2, HeldStays DEF Sound
  <2> QED BY <1>7, <1>9, <2>1, <2>2, <2>3, ListenerGoesOn DEF HandlerRecord
<1> QED BY <1>2, <1>3, <1>8, <1>9 DEF HandlerRecord

\* on_stop removes a row only when it is in the history or was not to be.
LEMMA HandlerFinishHolds ==
  ASSUME MonitorInv, NEW l \in Listener, HandlerFinish(l)
  PROVE  MonitorInv'
<1>1. listener[l].todo # <<>> /\ Head(listener[l].todo) = "finish"
  BY DEF HandlerFinish, At
<1>2. PICK g \in Handling : g = listener[l] /\ Sound(g)
  BY <1>1, PopIs
<1>3. PICK h : h = Pop(l) /\ Left(g, h)
  BY <1>1, <1>2, PopIs
<1>4. jobs' \subseteq Key /\ timed' \subseteq Key
  BY <1>2 DEF HandlerFinish, Handling, Outlives, Retry, SetTimer, MonitorInv, Typed
<1>5. Kept' /\ Later /\ Uncounted(table, table')
  <2>1. CASE g.saved
    <3>1. g.row.id \in Accounted
      BY <1>1, <1>2, <2>1 DEF Sound, Rest
    <3>2. table' = Delete(table, {g.row.id})
      BY <1>2, <2>1 DEF HandlerFinish, RemoveRecorded
    <3> QED BY <3>1, <3>2, KeptDeleted DEF HandlerFinish
  <2>2. CASE ~g.saved
    <3>1. UNCHANGED <<table, history, skipped, failures, abandoned, flushed>>
      BY <1>2, <2>2 DEF HandlerFinish, records
    <3> QED BY <3>1, GrownSame, KeptGrown DEF MonitorInv, Kept
  <2> QED BY <2>1, <2>2
<1>6. Sound(h)'
  BY <1>1, <1>2, <1>3, <1>5, SoundLeft
<1>7. listener' = [listener EXCEPT ![l] = h]
  BY <1>3 DEF HandlerFinish, Advance
<1> QED BY <1>4, <1>5, <1>6, <1>7, ListenerGoesOn DEF HandlerFinish

\* An exception ends the handler, after it wrote the play or before.
LEMMA HandlerRaisesHolds ==
  ASSUME MonitorInv, NEW l \in Listener, HandlerRaises(l)
  PROVE  MonitorInv'
<1>1. PICK g \in Handling : g = listener[l] /\ Sound(g) /\ g.todo # <<>>
  <2>1. listener[l].todo # <<>>
    BY DEF HandlerRaises
  <2> QED BY <2>1, PopIs
<1>2. listener' = [listener EXCEPT ![l] = Rest] /\ UNCHANGED <<callback, pinger, playing>>
  BY DEF HandlerRaises, Rest
<1>3. UNCHANGED <<skipped, failures, abandoned, flushed>>
  BY DEF HandlerRaises
<1>4. jobs' \subseteq Key /\ timed' \subseteq Key
  BY DEF HandlerRaises, Untimed, MonitorInv, Typed
<1>5. Table(table)
  BY DEF MonitorInv, Kept
<1>6. Kept' /\ Later /\ Uncounted(table, table')
  <2>1. CASE At(l, "record") /\ RecordRaises(g.row) /\ table' \in Stamp(g.row)
    <3>1. Held(g.row) /\ g.row.key \in Key
      BY <1>1, <2>1, RecordingHeld DEF At, Held, Row
    <3>2. Grown(table, table')
      BY <1>5, <2>1, <3>1, StampGrows
    <3> QED BY <1>3, <2>1, <3>1, <3>2, KeptRaised
  <2>2. CASE UNCHANGED <<table, history>>
    BY <1>3, <1>5, <2>2, GrownSame, KeptGrown
  <2> QED BY <1>1, <2>1, <2>2 DEF HandlerRaises
<1>7. PICK h : h = Rest
  OBVIOUS
<1>8. Sound(h)'
  BY <1>7 DEF Sound
<1> QED BY <1>2, <1>4, <1>6, <1>7, <1>8, ListenerGoesOn

LEMMA HandleHolds ==
  ASSUME MonitorInv, NEW l \in Listener, Handle(l) \/ HandlerRaises(l)
  PROVE  MonitorInv'
BY HandlerReads, HandlerWrites, HandlerRecordHolds, HandlerFinishHolds, HandlerRaisesHolds
   DEF Handle

\* A handler's steps are put together of these.
Beginning(todo) == Orderly(todo) /\ (todo # <<>> => todo[1] # "finish")

LEMMA Pieces ==
  /\ Beginning(<<>>) /\ Beginning(Refresh)
  /\ Beginning(<<"start", "watchdog">>) /\ Beginning(<<"look", "start", "watchdog">>)
  /\ Beginning(<<"settle", "record", "finish">>) /\ Beginning(<<"touch", "record", "finish">>)
  /\ Beginning(<<"pause">>) /\ Beginning(<<"resume">>) /\ Beginning(<<"touch">>)
BY DEF Beginning, Orderly, Step, StartStep, Refresh

\* Steps that write nothing may come before others, those of a start after them.
Unwritten(todo) == \A n \in 1..Len(todo) : todo[n] # "finish"
Starting(todo) == \A n \in 1..Len(todo) : todo[n] \in StartStep

LEMMA Joined ==
  ASSUME NEW s, Beginning(s), NEW t, Beginning(t), Unwritten(s) \/ Starting(t)
  PROVE  Beginning(s \o t)
<1>1. s \in Seq(Step) /\ t \in Seq(Step) /\ Len(s) \in Nat /\ Len(t) \in Nat
  BY DEF Beginning, Orderly
<1>2. /\ s \o t \in Seq(Step) /\ Len(s \o t) = Len(s) + Len(t)
      /\ \A n \in 1..Len(s) : (s \o t)[n] = s[n]
      /\ \A n \in 1..Len(t) : (s \o t)[Len(s) + n] = t[n]
  BY <1>1
<1>3. ASSUME NEW n \in 1..Len(s \o t)
      PROVE  \/ n \in 1..Len(s) /\ (s \o t)[n] = s[n] /\ s # <<>>
             \/ \E m \in 1..Len(t) : n = Len(s) + m /\ (s \o t)[n] = t[m] /\ t # <<>>
  <2>1. CASE n <= Len(s)
    BY <1>1, <1>2, <2>1
  <2>2. CASE n > Len(s)
    <3>1. n - Len(s) \in 1..Len(t) /\ n = Len(s) + (n - Len(s))
      BY <1>1, <1>2, <2>2
    <3> QED BY <1>2, <3>1
  <2> QED BY <1>1, <1>2, <2>1, <2>2
<1>5. ASSUME NEW n \in 1..Len(s \o t)
      PROVE  /\ (s \o t)[n] \in {"look", "settle", "record", "start"} => n < Len(s \o t)
             /\ (s \o t)[n] = "record" => (s \o t)[n + 1] = "finish"
             /\ (s \o t)[n] = "start" => (s \o t)[n + 1] = "watchdog"
             /\ (s \o t)[n] = "finish" => n = 1 \/ (s \o t)[n - 1] = "record"
             /\ n = 1 => (s \o t)[n] # "finish"
  <2>1. CASE n \in 1..Len(s) /\ (s \o t)[n] = s[n] /\ s # <<>>
    <3>1. n # 1 => n - 1 \in 1..Len(s)
      BY <1>1, <2>1
    <3>2. n < Len(s) => n + 1 \in 1..Len(s) /\ n < Len(s \o t)
      BY <1>1, <1>2, <2>1
    <3> QED BY <1>1, <1>2, <2>1, <3>1, <3>2 DEF Beginning, Orderly
  <2>2. ASSUME NEW m \in 1..Len(t), n = Len(s) + m /\ (s \o t)[n] = t[m] /\ t # <<>>
        PROVE  /\ (s \o t)[n] \in {"look", "settle", "record", "start"} => n < Len(s \o t)
               /\ (s \o t)[n] = "record" => (s \o t)[n + 1] = "finish"
               /\ (s \o t)[n] = "start" => (s \o t)[n + 1] = "watchdog"
               /\ (s \o t)[n] = "finish" => n = 1 \/ (s \o t)[n - 1] = "record"
               /\ n = 1 => (s \o t)[n] # "finish"
    <3>1. m # 1 => m - 1 \in 1..Len(t) /\ (s \o t)[n - 1] = t[m - 1]
      <4>1. m # 1 => m - 1 \in 1..Len(t) /\ n - 1 = Len(s) + (m - 1)
        BY <1>1, <2>2
      <4> QED BY <1>2, <4>1
    <3>2. m < Len(t) => n < Len(s \o t) /\ (s \o t)[n + 1] = t[m + 1]
      <4>1. m < Len(t) => m + 1 \in 1..Len(t) /\ n + 1 = Len(s) + (m + 1) /\ n < Len(s) + Len(t)
        BY <1>1, <2>2
      <4> QED BY <1>2, <4>1
    <3>3. n = 1 => m = 1
      BY <1>1, <2>2
    <3> QED BY <1>1, <2>2, <3>1, <3>2, <3>3 DEF Beginning, Orderly
  <2> QED BY <1>3, <2>1, <2>2
<1>6. ASSUME NEW n \in 1..Len(s \o t), (s \o t)[n] = "finish", NEW m \in 1..Len(s \o t), m > n
      PROVE  (s \o t)[m] \in StartStep
  <2>1. CASE n \in 1..Len(s) /\ (s \o t)[n] = s[n]
    <3>1. Starting(t)
      BY <1>6, <2>1 DEF Unwritten
    <3>2. CASE m \in 1..Len(s) /\ (s \o t)[m] = s[m] /\ s # <<>>
      BY <1>6, <2>1, <3>2 DEF Beginning, Orderly
    <3>3. CASE \E i \in 1..Len(t) : m = Len(s) + i /\ (s \o t)[m] = t[i] /\ t # <<>>
      BY <3>1, <3>3 DEF Starting
    <3> QED BY <1>3, <3>2, <3>3
  <2>2. ASSUME NEW i \in 1..Len(t), n = Len(s) + i, (s \o t)[n] = t[i]
        PROVE  (s \o t)[m] \in StartStep
    <3>1. m - Len(s) \in 1..Len(t) /\ m = Len(s) + (m - Len(s)) /\ m - Len(s) > i
      BY <1>1, <1>2, <1>6, <2>2
    <3>2. (s \o t)[m] = t[m - Len(s)]
      BY <1>2, <3>1
    <3> QED BY <1>6, <2>2, <3>1, <3>2 DEF Beginning, Orderly
  <2> QED BY <1>3, <2>1, <2>2
<1>4. s \o t # <<>> => (s \o t)[1] # "finish"
  <2>1. s \o t # <<>> => 1 \in 1..Len(s \o t)
    <3>1. s \o t # <<>> => Len(s \o t) \in Nat \ {0}
      BY <1>2, EmptySeq
    <3> QED BY <3>1
  <2> QED BY <1>5, <2>1
<1> QED BY <1>2, <1>4, <1>5, <1>6 DEF Beginning, Orderly

LEMMA StartStepsBegin ==
  ASSUME NEW k
  PROVE  Beginning(StartSteps(k)) /\ Starting(StartSteps(k))
<1>1. CASE k \in Dlna
  BY <1>1, Pieces DEF StartSteps, Starting, StartStep
<1>2. CASE k \notin Dlna
  BY <1>2, Pieces DEF StartSteps, Starting, StartStep
<1> QED BY <1>1, <1>2

\* What an event makes its handler do; without a row nothing but a start.
LEMMA StateStepsBegin ==
  ASSUME NEW row, NEW state
  PROVE  /\ Beginning(StateSteps(row, state))
         /\ state # "stopped" => Unwritten(StateSteps(row, state))
<1>1. Unwritten(<<"pause">>) /\ Unwritten(<<"resume">>) /\ Unwritten(Refresh) /\ Unwritten(<<>>)
  BY DEF Unwritten, Refresh
<1>2. Beginning(<<"pause">> \o Refresh) /\ Beginning(<<"resume">> \o Refresh)
  BY <1>1, Pieces, Joined
<1>3. Unwritten(<<"pause">> \o Refresh) /\ Unwritten(<<"resume">> \o Refresh)
  BY DEF Unwritten, Refresh
<1>4. CASE state = "stopped" /\ row.state # state
  <2>1. CASE row.item = NoItem
    BY <1>4, <2>1, Pieces DEF StateSteps
  <2>2. CASE row.item # NoItem
    BY <1>4, <2>2, Pieces DEF StateSteps
  <2> QED BY <2>1, <2>2
<1>5. CASE state = "paused"
  BY <1>2, <1>3, <1>5 DEF StateSteps
<1>6. CASE state = "playing" /\ row.state # state /\ row.lastPaused
  BY <1>2, <1>3, <1>6 DEF StateSteps
<1>7. CASE state = "error" /\ row.state # state
  BY <1>1, <1>7, Pieces DEF StateSteps
<1>8. CASE state = "buffering"
  BY <1>1, <1>8, Pieces DEF StateSteps
<1>9. CASE ~(\/ state = "stopped" /\ row.state # state
             \/ state = "paused"
             \/ state = "playing" /\ row.state # state /\ row.lastPaused
             \/ state = "error" /\ row.state # state
             \/ state = "buffering")
  BY <1>1, <1>9, Pieces DEF StateSteps
<1> QED BY <1>4, <1>5, <1>6, <1>7, <1>8, <1>9

\* The handler that an event begins.
Begun(k, state, row, todo) ==
  IF todo = <<>> THEN Rest
  ELSE [todo |-> todo, key |-> k, state |-> state, row |-> row, live |-> NoItem, saved |-> FALSE]

LEMMA ReceiveIs ==
  ASSUME NEW l \in Listener, NEW k \in Key, NEW item \in Item,
         NEW state \in EventState, Receive(l, k, item, state), NEW row, row = FirstRow(table, k)
  PROVE  \E todo : /\ Beginning(todo)
                   /\ row = Nobody => Starting(todo)
                   /\ listener' = [listener EXCEPT ![l] = Begun(k, state, row, todo)]
<1> DEFINE begin(todo) == listener' = [listener EXCEPT ![l] = Begun(k, state, row, todo)]
<1>1. CASE row = Nobody
  <2>1. begin(IF state = "buffering" THEN <<>> ELSE StartSteps(k))
    BY <1>1 DEF Receive, Begun, Rest
  <2>2. Beginning(<<>>) /\ Starting(<<>>)
    BY Pieces DEF Starting
  <2> QED BY <2>1, <2>2, StartStepsBegin
<1>2. CASE row # Nobody
  <2> DEFINE change(more) == StateSteps(row, state) \o (IF state = "stopped" THEN <<>> ELSE more)
             move == <<"touch", "record", "finish">> \o StartSteps(k)
             steps(refresh, more) == refresh \o (IF SameItem(row, item) THEN change(more) ELSE move)
  <2>1. (\E refresh, more \in {<<>>, Refresh} : begin(steps(refresh, more))) \/ begin(<<>>)
    BY <1>2 DEF Receive, Begun, Rest
  <2>2. ASSUME NEW refresh \in {<<>>, Refresh}, NEW more \in {<<>>, Refresh}
        PROVE  Beginning(steps(refresh, more))
    <3>1. Beginning(refresh) /\ Unwritten(refresh) /\ Beginning(more)
      BY Pieces DEF Unwritten, Refresh
    <3>2. Beginning(change(more))
      <4>1. Starting(<<>>) /\ Beginning(<<>>)
        BY Pieces DEF Starting
      <4> QED BY <3>1, <4>1, StateStepsBegin, Joined
    <3>3. Beginning(move)
      BY Pieces, StartStepsBegin, Joined
    <3> HIDE DEF change, move
    <3> QED BY <3>1, <3>2, <3>3, Joined
  <2>3. Beginning(<<>>)
    BY Pieces
  <2> HIDE DEF steps, begin
  <2> QED BY <1>2, <2>1, <2>2, <2>3 DEF begin
<1> QED BY <1>1, <1>2

\* An event begins a handler with the row of its session key, if there is one.
LEMMA ReceiveHolds ==
  ASSUME MonitorInv, NEW l \in Listener, NEW k \in Key, NEW item \in Item,
         NEW state \in EventState, Receive(l, k, item, state)
  PROVE  MonitorInv'
<1>1. PICK row : row = FirstRow(table, k)
  OBVIOUS
<1>2. row = Nobody \/ (Held(row) /\ row # Nobody)
  <2>1. Table(table)
    BY DEF MonitorInv, Kept
  <2> QED BY <1>1, <2>1, FirstRowIs, FirstHeld
<1>3. state \in State
  BY SessionAssumption
<1>4. Kept' /\ Later /\ Uncounted(table, table') /\ jobs' \subseteq Key /\ timed' \subseteq Key
  <2>1. UNCHANGED <<table, history, skipped, failures, abandoned, flushed>>
    BY DEF Receive, fates, records
  <2>2. jobs' \subseteq Key /\ timed' \subseteq Key
    BY DEF Receive, SetTimer, timers, MonitorInv, Typed
  <2> QED BY <2>1, <2>2, GrownSame, KeptGrown DEF MonitorInv, Kept
<1>5. PICK todo : /\ Beginning(todo)
                  /\ row = Nobody => Starting(todo)
                  /\ listener' = [listener EXCEPT ![l] = Begun(k, state, row, todo)]
  BY <1>1, ReceiveIs
<1>6. PICK h : h = Begun(k, state, row, todo)
  OBVIOUS
<1>7. Sound(h)'
  <2>1. CASE todo = <<>>
    BY <1>6, <2>1 DEF Sound, Begun
  <2>2. CASE todo # <<>>
    <3>1. todo \in Seq(Step) /\ Orderly(todo) /\ Head(todo) # "finish"
      <4>1. \A s \in Seq(Step) : Head(s) = s[1]
        OBVIOUS
      <4> QED BY <1>5, <2>2, <4>1 DEF Beginning, Orderly
    <3>2. row \in Row \cup {Nobody}
      BY <1>2 DEF Held
    <3>3. h \in Handling /\ h.todo = todo /\ h.row = row
      BY <1>3, <1>6, <2>2, <3>1, <3>2 DEF Begun, Handling
    <3>4. row # Nobody => Held(row)'
      BY <1>2, <1>4, HeldStays
    <3>5. row = Nobody => \A n \in 1..Len(todo) : todo[n] # "record"
      BY <1>5 DEF Starting, StartStep
    <3> QED BY <2>2, <3>1, <3>3, <3>4, <3>5 DEF Sound
  <2> QED BY <2>1, <2>2
<1> QED BY <1>4, <1>5, <1>6, <1>7, ListenerGoesOn DEF Receive

-----------------------------------------------------------------------------
(***************************************************************************)
(* The scheduler's jobs.                                                   *)
(***************************************************************************)
\* A force_stop_stream goes on.
LEMMA CallbackGoesOn ==
  ASSUME MonitorInv, Kept', Later, NEW k \in Key, NEW c,
         callback' = [callback EXCEPT ![k] = c], Forcing(k, c)',
         \A j \in Key : Accounts(j)',
         UNCHANGED <<listener, pinger, playing>>, jobs' \subseteq Key, timed' \subseteq Key
  PROVE  MonitorInv'
<1>1. callback \in [Key -> {Idle} \cup Forced] /\ c \in {Idle} \cup Forced
  BY DEF MonitorInv, Typed, Forcing
<1>2. /\ callback' \in [Key -> {Idle} \cup Forced] /\ callback'[k] = c
      /\ \A j \in Key \ {k} : callback'[j] = callback[j]
  BY <1>1
<1>3. ASSUME NEW j \in Key
      PROVE  Forcing(j, callback[j])'
  <2>1. CASE j = k
    BY <1>2, <2>1 DEF Forcing
  <2>2. CASE j # k
    BY <1>2, <2>2, CallbackStays
  <2> QED BY <2>1, <2>2
<1>4. ASSUME NEW l \in Listener
      PROVE  Sound(listener[l])'
  <2>1. PICK g : g = listener[l]
    OBVIOUS
  <2>2. Sound(g)'
    BY <2>1, SoundStays DEF MonitorInv
  <2> QED BY <2>1, <2>2 DEF Sound
<1>5. Typed'
  BY <1>2 DEF MonitorInv, Typed
<1> QED BY <1>3, <1>4, <1>5, PingerStays DEF MonitorInv

\* The other keys have the same pending.
LEMMA PendingElsewhere ==
  ASSUME MonitorInv, NEW k \in Key, NEW c, callback' = [callback EXCEPT ![k] = c],
         UNCHANGED pinger
  PROVE  /\ \A j \in Key \ {k} : Pending(j)' = Pending(j)
         /\ OfPinger(k)' = OfPinger(k)
         /\ OfCallback(k)' = IF c.step = "finish" /\ ~c.saved THEN 1 ELSE 0
<1>1. callback'[k] = c /\ \A j \in Key \ {k} : callback'[j] = callback[j]
  BY DEF MonitorInv, Typed
<1> QED BY <1>1 DEF Pending, OfCallback, OfPinger, Current

\* The job that is due takes the first row of its key.
LEMMA FireHolds ==
  ASSUME MonitorInv, NEW k \in Key, Fire(k)
  PROVE  MonitorInv'
<1>1. PICK row : row = FirstRow(table, k)
  OBVIOUS
<1>2. PICK c : c = IF callback[k].step # "idle" THEN callback[k]
                   ELSE IF row = Nobody THEN Idle
                   ELSE [step |-> "record", row |-> row, saved |-> FALSE]
  OBVIOUS
<1>3. callback' = [callback EXCEPT ![k] = c]
  BY <1>1, <1>2 DEF Fire
<1>4. Kept' /\ Later /\ Uncounted(table, table')
  BY GrownSame, KeptGrown DEF Fire, fates, records, MonitorInv, Kept
<1>5. Forcing(k, c)'
  <2>1. CASE callback[k].step # "idle" \/ row = Nobody
    <3>1. c = Idle \/ c = callback[k]
      BY <1>2, <2>1
    <3>2. Forcing(k, c)
      BY <3>1 DEF MonitorInv, Forcing
    <3> QED BY <1>4, <3>2, HeldStays, WrittenStays DEF Forcing, Forced
  <2>2. CASE callback[k].step = "idle" /\ row # Nobody
    <3>1. c = [step |-> "record", row |-> row, saved |-> FALSE]
      BY <1>2, <2>2
    <3>2. Held(row) /\ row.key = k
      BY <1>1, <2>2, FirstRowIs, FirstHeld DEF MonitorInv, Kept
    <3>3. c \in Forced /\ c.row = row /\ c.step = "record" /\ ~c.saved
      BY <3>1, <3>2 DEF Forced, Held
    <3>4. Held(row)'
      BY <1>4, <3>2, HeldStays
    <3> QED BY <3>2, <3>3, <3>4 DEF Forcing, Written
  <2> QED BY <2>1, <2>2
<1>6. ASSUME NEW j \in Key
      PROVE  Accounts(j)'
  <2>1. Pending(j)' = Pending(j)
    <3>1. CASE j # k
      BY <1>3, <3>1, PendingElsewhere DEF Fire
    <3>2. CASE j = k
      <4>1. OfCallback(k) = IF c.step = "finish" /\ ~c.saved THEN 1 ELSE 0
        BY <1>2 DEF OfCallback, Idle
      <4> QED BY <1>3, <3>2, <4>1, PendingElsewhere DEF Fire, Pending
    <3> QED BY <3>1, <3>2
  <2> QED BY <1>4, <2>1, PendingIs, AccountsQuiet
<1>7. jobs' \subseteq Key /\ timed' \subseteq Key
  BY DEF Fire, MonitorInv, Typed
<1> QED BY <1>3, <1>4, <1>5, <1>6, <1>7, CallbackGoesOn DEF Fire

\* It writes: a failure becomes pending as it is counted.
LEMMA CallbackRecordHolds ==
  ASSUME MonitorInv, NEW k \in Key, CallbackRecord(k)
  PROVE  MonitorInv'
<1>1. PICK b : b = callback[k] /\ b \in Forced /\ Forcing(k, b) /\ b.step = "record" /\ ~b.saved
  BY DEF CallbackRecord, MonitorInv, Forcing, Idle
<1>2. b.row \in Row /\ Held(b.row) /\ b.row.key = k
  BY <1>1 DEF Forcing, Forced, Idle
<1>3. jobs' \subseteq Key /\ timed' \subseteq Key /\ Grown(table, table')
  BY <1>1, <1>2, StampGrows DEF CallbackRecord, timers, MonitorInv, Typed, Kept
<1>4. OfCallback(k) = 0
  BY <1>1 DEF OfCallback
<1> DEFINE done == [b EXCEPT !.step = "finish", !.saved = TRUE]
           failed == [b EXCEPT !.step = "finish"]
<1>5. /\ done \in Forced /\ done.row = b.row /\ done.step = "finish" /\ done.saved
      /\ failed \in Forced /\ failed.row = b.row /\ failed.step = "finish" /\ ~failed.saved
  BY <1>1 DEF Forced
<1>6. \/ RecordOk(b.row) /\ callback' = [callback EXCEPT ![k] = done]
      \/ RecordFails(b.row) /\ callback' = [callback EXCEPT ![k] = failed]
  BY <1>1 DEF CallbackRecord
<1> HIDE DEF done, failed
<1>7. CASE RecordOk(b.row) /\ callback' = [callback EXCEPT ![k] = done]
  <2>1. Kept' /\ Later /\ Uncounted(table, table') /\ b.row.id \in Accounted'
    BY <1>2, <1>3, <1>7, KeptRecorded DEF CallbackRecord
  <2>2. PICK c : c = done
    OBVIOUS
  <2>3. Forcing(k, c)'
    BY <1>2, <1>5, <2>1, <2>2, HeldStays DEF Forcing, Written
  <2>4. ASSUME NEW j \in Key
        PROVE  Accounts(j)'
    <3>1. Pending(j)' = Pending(j)
      <4>1. CASE j # k
        BY <1>7, <4>1, PendingElsewhere DEF CallbackRecord
      <4>2. CASE j = k
        BY <1>4, <1>5, <1>7, <4>2, PendingElsewhere DEF CallbackRecord, Pending
      <4> QED BY <4>1, <4>2
    <3> QED BY <2>1, <3>1, PendingIs, AccountsQuiet
  <2> QED BY <1>3, <1>7, <2>1, <2>2, <2>3, <2>4, CallbackGoesOn DEF CallbackRecord
<1>8. CASE RecordFails(b.row) /\ callback' = [callback EXCEPT ![k] = failed]
  <2>1. /\ Kept' /\ Later /\ Uncounted(table, table') /\ failures'[k] = failures[k] + 1
        /\ \A j \in Key \ {k} : failures'[j] = failures[j]
    BY <1>2, <1>3, <1>8, KeptFailed DEF CallbackRecord
  <2>2. PICK c : c = failed
    OBVIOUS
  <2>3. b.row.attempts + 1 <= failures'[k]
    <3>1. b.row.attempts \in Nat /\ failures[k] \in Nat /\ b.row.attempts <= failures[k]
      BY <1>2 DEF Held, Row, MonitorInv, Kept
    <3> QED BY <2>1, <3>1
  <2>4. Forcing(k, c)'
    BY <1>2, <1>5, <2>1, <2>2, <2>3, HeldStays DEF Forcing, Written
  <2>5. ASSUME NEW j \in Key
        PROVE  Accounts(j)'
    <3>1. failures[j] \in Nat
      BY DEF MonitorInv, Kept
    <3>2. CASE j # k
      <4>1. Pending(j)' = Pending(j)
        BY <1>8, <3>2, PendingElsewhere DEF CallbackRecord
      <4> QED BY <2>1, <4>1, PendingIs, AccountsQuiet
    <3>3. CASE j = k
      <4>1. Pending(k)' = Pending(k) + 1
        <5>1. OfPinger(k)' = OfPinger(k) /\ OfCallback(k)' = 1
          BY <1>5, <1>8, PendingElsewhere DEF CallbackRecord
        <5> QED BY <1>4, <5>1, PendingIs DEF Pending
      <4>2. Pending(k)' + failures[k] <= Pending(k) + failures'[k]
        BY <2>1, <3>1, <3>3, <4>1, PendingIs
      <4> QED BY <2>1, <3>3, <4>2, AccountsStay
    <3> QED BY <3>2, <3>3
  <2> QED BY <1>3, <1>8, <2>1, <2>2, <2>4, <2>5, CallbackGoesOn DEF CallbackRecord
<1> QED BY <1>6, <1>7, <1>8

\* An attempt that was pending is counted in every row of its key.
LEMMA AttemptCounted ==
  ASSUME MonitorInv, NEW k \in Key, RowsOf(table, k) # {}, table' = IncrementAttempts(table, k),
         UNCHANGED <<history, skipped, failures, abandoned, flushed>>,
         Pending(k)' + 1 <= Pending(k), \A j \in Key \ {k} : Pending(j)' <= Pending(j)
  PROVE  Kept' /\ Later /\ \A j \in Key : Accounts(j)'
<1>1. /\ Table(table) /\ Table(table') /\ table'.next = table.next
      /\ DOMAIN table'.rows = DOMAIN table.rows
      /\ \A i \in DOMAIN table.rows :
           /\ table'.rows[i].key = table.rows[i].key
           /\ table.rows[i].key # k => table'.rows[i] = table.rows[i]
           /\ table.rows[i].key = k => table'.rows[i].attempts = FirstRow(table, k).attempts + 1
  BY Incremented DEF MonitorInv, Kept
<1>2. Recorded' = Recorded /\ Accounted' = Accounted
  BY DEF Recorded, Accounted
<1>3. NothingLost'
  BY <1>1, <1>2 DEF MonitorInv, Kept, NothingLost, Ids
<1>4. Kept' /\ Later
  BY <1>1, <1>2, <1>3 DEF MonitorInv, Kept, Later, Table
<1>5. \A j \in Key : Pending(j) \in Nat /\ Pending(j)' \in Nat /\ failures[j] \in Nat
  BY DEF Pending, OfCallback, OfPinger, MonitorInv, Kept
<1>6. \A j \in Key : Pending(j)' <= failures'[j]
  BY <1>5 DEF MonitorInv, Accounts
<1>7. \A i \in DOMAIN table.rows : table.rows[i].attempts \in Nat /\ table'.rows[i].attempts \in Nat
  BY <1>1 DEF Table, Row
<1>8. ASSUME NEW j \in Key, j # k, NEW i \in RowsOf(table', j)
      PROVE  table'.rows[i].attempts + Pending(j)' <= failures'[j]
  <2>1. i \in RowsOf(table, j) /\ table'.rows[i] = table.rows[i] /\ i \in DOMAIN table.rows
    BY <1>1, <1>8 DEF RowsOf
  <2>2. table.rows[i].attempts + Pending(j) <= failures[j]
    BY <2>1 DEF MonitorInv, Accounts
  <2>3. Pending(j)' <= Pending(j)
    BY <1>8
  <2> QED BY <1>5, <1>7, <2>1, <2>2, <2>3
<1>9. ASSUME NEW i \in RowsOf(table', k)
      PROVE  table'.rows[i].attempts + Pending(k)' <= failures'[k]
  <2>1. PICK first \in RowsOf(table, k) : FirstRow(table, k) = table.rows[first]
    BY <1>1, FirstRowIs
  <2>2. table.rows[first].attempts + Pending(k) <= failures[k] /\ first \in DOMAIN table.rows
    BY <2>1 DEF MonitorInv, Accounts, RowsOf
  <2>3. table'.rows[i].attempts = table.rows[first].attempts + 1
    BY <1>1, <2>1 DEF RowsOf
  <2> QED BY <1>5, <1>7, <2>2, <2>3
<1> QED BY <1>4, <1>6, <1>8, <1>9 DEF Accounts

\* It removes the row, counts the attempt, or gives all rows of the key up.
LEMMA CallbackFinishHolds ==
  ASSUME MonitorInv, NEW k \in Key, CallbackFinish(k)
  PROVE  MonitorInv'
<1>1. PICK b : b = callback[k] /\ b \in Forced /\ Forcing(k, b) /\ b.step = "finish"
  BY DEF CallbackFinish, MonitorInv, Forcing, Idle
<1>2. callback' = [callback EXCEPT ![k] = Idle]
  BY DEF CallbackFinish
<1>3. jobs' \subseteq Key /\ timed' \subseteq Key
  BY DEF CallbackFinish, Outlives, timers, Retry, SetTimer, MonitorInv, Typed
<1>4. PICK c : c = Idle
  OBVIOUS
<1>5. Forcing(k, c)'
  BY <1>4 DEF Forcing
<1>6. c.step # "finish"
  BY <1>4 DEF Idle
<1>7. OfCallback(k)' = 0 /\ OfPinger(k)' = OfPinger(k) /\ \A j \in Key \ {k} : Pending(j)' = Pending(j)
  BY <1>2, <1>4, <1>6, PendingElsewhere DEF CallbackFinish
<1>8. \A j \in Key : Pending(j)' <= Pending(j)
  <2>1. Pending(k)' = OfPinger(k) /\ Pending(k) = OfCallback(k) + OfPinger(k)
    BY <1>7, PendingIs DEF Pending
  <2>2. \A j \in Key : Pending(j) \in Nat /\ OfPinger(j) \in Nat /\ OfCallback(j) \in Nat
    BY DEF Pending, OfPinger, OfCallback
  <2>3. Pending(k)' <= Pending(k)
    BY <2>1, <2>2
  <2>4. \A j \in Key \ {k} : Pending(j)' <= Pending(j)
    BY <1>7, <2>2
  <2> QED BY <2>3, <2>4
<1>9. ASSUME Kept', Later, Uncounted(table, table')
      PROVE  MonitorInv'
  <2>1. \A j \in Key : Accounts(j)'
    BY <1>8, <1>9, AccountsQuiet
  <2> QED BY <1>2, <1>3, <1>4, <1>5, <1>9, <2>1, CallbackGoesOn DEF CallbackFinish
<1>10. CASE b.saved
  <2>1. b.row.id \in Accounted /\ table' = Delete(table, {b.row.id})
    BY <1>1, <1>10 DEF CallbackFinish, Forcing, Idle, Written, RemoveRecorded
  <2> QED BY <1>1, <1>9, <1>10, <2>1, KeptDeleted DEF CallbackFinish
<1>11. CASE ~b.saved /\ ~LastAttempt(b.row)
  <2>1. UNCHANGED <<history, skipped, failures, abandoned, flushed>>
    BY <1>1, <1>11 DEF CallbackFinish, records
  <2>2. CASE RowsOf(table, k) = {}
    <3>1. UNCHANGED table
      BY <1>1, <1>11, <2>2 DEF CallbackFinish
    <3> QED BY <1>9, <2>1, <3>1, GrownSame, KeptGrown DEF MonitorInv, Kept
  <2>3. CASE RowsOf(table, k) # {}
    <3>1. table' = IncrementAttempts(table, k)
      BY <1>1, <1>11, <2>3 DEF CallbackFinish
    <3>2. Pending(k)' + 1 <= Pending(k)
      <4>1. OfCallback(k) = 1
        BY <1>1, <1>11 DEF OfCallback
      <4>2. Pending(k)' = OfPinger(k) /\ Pending(k) = OfCallback(k) + OfPinger(k) /\ OfPinger(k) \in {0, 1}
        BY <1>7, PendingIs DEF Pending
      <4> QED BY <4>1, <4>2
    <3>3. Kept' /\ Later /\ \A j \in Key : Accounts(j)'
      BY <1>8, <2>1, <2>3, <3>1, <3>2, AttemptCounted
    <3> QED BY <1>2, <1>3, <1>4, <1>5, <3>3, CallbackGoesOn DEF CallbackFinish
  <2> QED BY <2>2, <2>3
<1>12. CASE ~b.saved /\ LastAttempt(b.row)
  <2>1. table' = Delete(table, RowsOf(table, k)) /\ abandoned' = abandoned \cup RowsOf(table, k)
    BY <1>1, <1>12 DEF CallbackFinish, GiveUp
  <2> QED BY <1>9, <2>1, KeptDeleted DEF CallbackFinish
<1> QED BY <1>10, <1>11, <1>12

\* An exception ends the job, after it wrote the play or before.
LEMMA CallbackRaisesHolds ==
  ASSUME MonitorInv, NEW k \in Key, CallbackRaises(k)
  PROVE  MonitorInv'
<1>1. PICK b : b = callback[k] /\ b \in Forced /\ Forcing(k, b)
  BY DEF CallbackRaises, MonitorInv, Forcing, Idle
<1>2. b.row \in Row /\ Held(b.row) /\ b.row.key = k
  <2>1. b # Idle
    BY <1>1 DEF CallbackRaises, Idle
  <2> QED BY <1>1, <2>1 DEF Forcing, Forced
<1>3. callback' = [callback EXCEPT ![k] = Idle] /\ UNCHANGED <<listener, pinger, playing>>
  BY DEF CallbackRaises
<1>4. UNCHANGED <<skipped, failures, abandoned, flushed>>
  BY DEF CallbackRaises
<1>5. jobs' \subseteq Key /\ timed' \subseteq Key
  BY DEF CallbackRaises, Untimed, MonitorInv, Typed
<1>6. Table(table)
  BY DEF MonitorInv, Kept
<1>7. Kept' /\ Later /\ Uncounted(table, table')
  <2>1. CASE RecordRaises(b.row) /\ table' \in Stamp(b.row)
    <3>1. Grown(table, table')
      BY <1>2, <1>6, <2>1, StampGrows
    <3> QED BY <1>2, <1>4, <2>1, <3>1, KeptRaised
  <2>2. CASE UNCHANGED <<table, history>>
    BY <1>4, <1>6, <2>2, GrownSame, KeptGrown
  <2> QED BY <1>1, <2>1, <2>2 DEF CallbackRaises
<1>8. PICK c : c = Idle
  OBVIOUS
<1>9. Forcing(k, c)'
  BY <1>8 DEF Forcing
<1>10. ASSUME NEW j \in Key
       PROVE  Accounts(j)'
  <2>0. /\ \A i \in Key \ {k} : Pending(i)' = Pending(i)
        /\ OfPinger(k)' = OfPinger(k)
        /\ OfCallback(k)' = 0
    <3>1. callback' = [callback EXCEPT ![k] = c] /\ UNCHANGED pinger /\ c.step # "finish"
      BY <1>3, <1>8 DEF Idle
    <3> QED BY <3>1, PendingElsewhere
  <2>1. Pending(j)' <= Pending(j)
    <3>1. CASE j # k
      BY <2>0, <3>1, PendingIs
    <3>2. CASE j = k
      <4>1. OfCallback(k)' = 0 /\ OfPinger(k)' = OfPinger(k)
        BY <2>0
      <4>2. Pending(k)' = OfPinger(k)
        BY <4>1, PendingIs DEF Pending
      <4> QED BY <3>2, <4>2, PendingIs
    <3> QED BY <3>1, <3>2
  <2> QED BY <1>7, <2>1, AccountsQuiet
<1> QED BY <1>3, <1>5, <1>7, <1>8, <1>9, <1>10, CallbackGoesOn

-----------------------------------------------------------------------------
(***************************************************************************)
(* The check of all sessions.                                              *)
(***************************************************************************)
\* The check goes on.
LEMMA PingerGoesOn ==
  ASSUME MonitorInv, Kept', Later, PingerInv', \A j \in Key : Accounts(j)',
         UNCHANGED <<listener, callback, playing>>, jobs' \subseteq Key, timed' \subseteq Key
  PROVE  MonitorInv'
<1>1. ASSUME NEW l \in Listener
      PROVE  Sound(listener[l])'
  <2>1. PICK g : g = listener[l]
    OBVIOUS
  <2>2. Sound(g)'
    BY <2>1, SoundStays DEF MonitorInv
  <2> QED BY <2>1, <2>2 DEF Sound
<1>2. \A j \in Key : Forcing(j, callback[j])'
  BY CallbackStays
<1>3. Typed'
  BY DEF MonitorInv, Typed
<1> QED BY <1>1, <1>2, <1>3 DEF MonitorInv

\* A check that is not at the end of a write has nothing pending.
LEMMA PingerSettled ==
  ASSUME UNCHANGED callback, pinger'.step # "finish", NEW k
  PROVE  Pending(k)' <= Pending(k)
<1>1. OfCallback(k)' = OfCallback(k) /\ OfPinger(k)' = 0
  BY DEF OfCallback, OfPinger
<1>2. OfCallback(k) \in Nat /\ OfPinger(k) \in Nat
  BY DEF OfCallback, OfPinger
<1>3. Pending(k)' = OfCallback(k) /\ Pending(k) = OfCallback(k) + OfPinger(k)
  BY <1>1, <1>2 DEF Pending
<1> QED BY <1>2, <1>3

\* Such a check, beside any change of the table that counts nothing.
LEMMA PingerMoves ==
  ASSUME MonitorInv, Kept', Later, Uncounted(table, table'), PingerInv',
         pinger'.step # "finish", UNCHANGED <<listener, callback, playing>>,
         jobs' \subseteq Key, timed' \subseteq Key
  PROVE  MonitorInv'
BY PingerSettled, AccountsQuiet, PingerGoesOn

\* It starts with the rows of the table.
LEMMA StartPingerIs ==
  ASSUME MonitorInv, StartPinger, Later
  PROVE  PingerInv' /\ pinger'.step # "finish"
<1>1. \A i \in Ids : table.rows[i] \in Row /\ Held(table.rows[i])
  <2>1. ASSUME NEW i \in Ids
        PROVE  table.rows[i] \in Row /\ Held(table.rows[i])
    <3>1. PICK k : k = table.rows[i].key
      OBVIOUS
    <3>2. /\ table.rows[i] \in Row /\ k \in Key /\ i \in RowsOf(table, k)
          /\ table.rows[i].id = i /\ i \in 1..(table.next - 1) /\ table.rows[i].attempts \in Nat
      BY <3>1 DEF MonitorInv, Kept, Table, Ids, RowsOf, Row
    <3>3. Pending(k) \in Nat /\ failures[k] \in Nat /\ table.rows[i].attempts + Pending(k) <= failures[k]
      BY <3>2, PendingIs DEF MonitorInv, Accounts, Kept
    <3>4. table.rows[i].attempts <= failures[k]
      BY <3>2, <3>3
    <3> QED BY <3>1, <3>2, <3>4 DEF Held
  <2> QED BY <2>1
<1> DEFINE rows == {table.rows[i] : i \in Ids}
<1>2. pinger' = [step |-> "list", todo |-> rows] /\ rows \in SUBSET Row
  BY <1>1 DEF StartPinger
<1>3. \A row \in rows : Held(row)'
  BY <1>1, HeldStays
<1> HIDE DEF rows
<1>4. pinger' \in Listing /\ pinger'.todo = rows /\ pinger'.step = "list"
  BY <1>2 DEF Listing
<1>5. PingerInv'
  BY <1>3, <1>4 DEF PingerInv
<1> QED BY <1>4, <1>5

\* A restart loses what the threads held, a reconnection nothing.
LEMMA StartHolds ==
  ASSUME MonitorInv, Restart \/ Reconnect
  PROVE  MonitorInv'
<1>1. Kept' /\ Later /\ Uncounted(table, table')
  BY GrownSame, KeptGrown DEF Restart, Reconnect, fates, records, MonitorInv, Kept
<1>2. PingerInv' /\ pinger'.step # "finish"
  BY <1>1, StartPingerIs DEF Restart, Reconnect
<1>3. CASE Reconnect
  BY <1>1, <1>2, <1>3, PingerMoves DEF Reconnect, timers, MonitorInv, Typed
<1>4. CASE Restart
  <2>1. \A l \in Listener : Sound(listener[l])'
    BY <1>4 DEF Restart, Sound, Rest
  <2>2. \A j \in Key : Forcing(j, callback[j])'
    BY <1>4 DEF Restart, Forcing
  <2>3. ASSUME NEW j \in Key
        PROVE  Accounts(j)'
    <3>1. OfCallback(j)' = 0 /\ OfPinger(j)' = 0
      BY <1>2, <1>4 DEF Restart, OfCallback, OfPinger, Idle
    <3>2. Pending(j)' = 0
      BY <3>1 DEF Pending
    <3> QED BY <1>1, <3>2, PendingIs, AccountsQuiet
  <2>4. Typed'
    BY <1>4 DEF Restart, MonitorInv, Typed, Rest
  <2> QED BY <1>1, <1>2, <2>1, <2>2, <2>3, <2>4 DEF MonitorInv
<1> QED BY <1>3, <1>4

\* What a check that is running holds.
LEMMA CheckingIs ==
  ASSUME MonitorInv, pinger.step \in {"check", "record", "finish"}
  PROVE  /\ pinger \in Checking /\ \A row \in pinger.todo : Held(row)
         /\ \A k \in pinger.left : pinger.live[k] # NoItem
         /\ pinger.step # "check" => pinger.todo # {}
         /\ Written(pinger.step, pinger.saved, Current)
BY DEF MonitorInv, PingerInv, Idle, Listing

\* The next row.
LEMMA NextStreamIs ==
  ASSUME MonitorInv, Later, pinger.step \in {"check", "record", "finish"}, pinger' = NextStream
  PROVE  PingerInv' /\ pinger'.step # "finish"
<1>1. /\ pinger \in Checking /\ \A row \in pinger.todo : Held(row)
      /\ \A k \in pinger.left : pinger.live[k] # NoItem
  BY CheckingIs
<1>2. PICK rows : rows = pinger.todo \ {Current}
  OBVIOUS
<1>3. /\ pinger' \in Checking /\ pinger'.todo = rows /\ pinger'.step = "check"
      /\ pinger'.left = pinger.left /\ pinger'.live = pinger.live
  BY <1>1, <1>2 DEF NextStream, Checking
<1>4. \A row \in rows : Held(row)'
  BY <1>1, <1>2, HeldStays
<1>5. Written(pinger.step, pinger.saved, Current)'
  BY <1>3 DEF Written
<1> QED BY <1>1, <1>3, <1>4, <1>5 DEF PingerInv

LEMMA PingerListHolds ==
  ASSUME MonitorInv, PingerList
  PROVE  MonitorInv'
<1>1. Kept' /\ Later /\ Uncounted(table, table')
  BY GrownSame, KeptGrown DEF PingerList, fates, records, MonitorInv, Kept
<1>2. PingerInv' /\ pinger'.step # "finish"
  <2>1. CASE pinger' = Idle
    BY <2>1 DEF PingerInv, Idle
  <2>2. CASE pinger' = [step |-> "check", todo |-> pinger.todo, live |-> playing,
                        left |-> {k \in Key : playing[k] # NoItem}, saved |-> FALSE]
    <3>1. pinger.todo \in SUBSET Row /\ \A row \in pinger.todo : Held(row)
      BY DEF PingerList, MonitorInv, PingerInv, Idle, Listing, Checking
    <3>2. pinger' \in Checking
      BY <2>2, <3>1 DEF Checking, MonitorInv, Typed
    <3>3. \A row \in pinger.todo : Held(row)'
      BY <1>1, <3>1, HeldStays
    <3>4. Written(pinger.step, pinger.saved, Current)'
      BY <2>2 DEF Written
    <3> QED BY <2>2, <3>2, <3>3, <3>4 DEF PingerInv
  <2> QED BY <2>1, <2>2 DEF PingerList
<1> QED BY <1>1, <1>2, PingerMoves DEF PingerList, timers, MonitorInv, Typed

LEMMA PingerCheckHolds ==
  ASSUME MonitorInv, PingerCheck
  PROVE  MonitorInv'
<1>1. Kept' /\ Later /\ Uncounted(table, table')
  BY GrownSame, KeptGrown DEF PingerCheck, records, MonitorInv, Kept
<1>2. PingerInv' /\ pinger'.step # "finish"
  <2>1. CASE pinger' = NextStream
    BY <1>1, <2>1, NextStreamIs DEF PingerCheck
  <2>2. CASE pinger' = [pinger EXCEPT !.step = "record"]
    <3>1. /\ pinger \in Checking /\ pinger.todo # {} /\ \A row \in pinger.todo : Held(row)
          /\ \A k \in pinger.left : pinger.live[k] # NoItem
      BY CheckingIs DEF PingerCheck
    <3>2. /\ pinger' \in Checking /\ pinger'.todo = pinger.todo /\ pinger'.step = "record"
          /\ pinger'.left = pinger.left /\ pinger'.live = pinger.live
      BY <2>2, <3>1 DEF Checking
    <3>3. \A row \in pinger.todo : Held(row)'
      BY <1>1, <3>1, HeldStays
    <3>4. Written(pinger.step, pinger.saved, Current)'
      BY <3>2 DEF Written
    <3>5. \A row \in pinger'.todo : Held(row)'
      BY <3>2, <3>3
    <3>6. \A k \in pinger'.left : pinger'.live[k] # NoItem
      BY <3>1, <3>2
    <3>7. pinger'.todo # {}
      BY <3>1, <3>2
    <3> QED BY <3>2, <3>4, <3>5, <3>6, <3>7 DEF PingerInv
  <2> QED BY <2>1, <2>2 DEF PingerCheck
<1> QED BY <1>1, <1>2, PingerMoves DEF PingerCheck, timers, MonitorInv, Typed

\* It writes: a failure becomes pending as it is counted.
LEMMA PingerRecordHolds ==
  ASSUME MonitorInv, PingerRecord
  PROVE  MonitorInv'
<1>1. /\ pinger \in Checking /\ pinger.todo # {} /\ \A row \in pinger.todo : Held(row)
      /\ \A k \in pinger.left : pinger.live[k] # NoItem
  BY CheckingIs DEF PingerRecord
<1>2. Current \in Row /\ Held(Current)
  <2>1. pinger \in Checking
    BY <1>1
  <2>2. pinger.todo # {}
    BY <1>1
  <2> QED BY <2>1, <2>2, CurrentIs
<1>3. PICK row : row = Current
  OBVIOUS
<1>4. row = Current /\ row \in Row /\ Held(row) /\ row.key \in Key
  BY <1>2, <1>3 DEF Row
<1>5. \/ RecordOk(row) /\ pinger' = [pinger EXCEPT !.step = "finish", !.saved = TRUE]
      \/ RecordFails(row) /\ pinger' = [pinger EXCEPT !.step = "finish", !.saved = FALSE]
  BY <1>4 DEF PingerRecord
<1>6. /\ pinger' \in Checking /\ pinger'.todo = pinger.todo /\ pinger'.step = "finish"
      /\ pinger'.left = pinger.left /\ pinger'.live = pinger.live
  BY <1>1, <1>5 DEF Checking
<1>7. Current' = row
  BY <1>4, <1>6 DEF Current
<1>8. \A j : OfPinger(j) = 0 /\ OfCallback(j)' = OfCallback(j) /\ OfCallback(j) \in {0, 1}
  BY DEF PingerRecord, OfPinger, OfCallback
<1>9. jobs' \subseteq Key /\ timed' \subseteq Key /\ Grown(table, table')
  BY GrownSame DEF PingerRecord, timers, MonitorInv, Typed, Kept
<1>10. ASSUME Later, Written(pinger.step, pinger.saved, Current)'
      PROVE  PingerInv'
  <2>1. \A other \in pinger.todo : Held(other)'
    BY <1>1, <1>10, HeldStays
  <2>2. \A other \in pinger'.todo : Held(other)'
    BY <1>6, <2>1
  <2>3. \A k \in pinger'.left : pinger'.live[k] # NoItem
    BY <1>1, <1>6
  <2>4. pinger'.todo # {}
    BY <1>1, <1>6
  <2> QED BY <1>6, <1>10, <2>2, <2>3, <2>4 DEF PingerInv
<1>11. CASE RecordOk(row) /\ pinger' = [pinger EXCEPT !.step = "finish", !.saved = TRUE]
  <2>1. Kept' /\ Later /\ Uncounted(table, table') /\ row.id \in Accounted'
    BY <1>4, <1>9, <1>11, KeptRecorded DEF PingerRecord
  <2>2. pinger'.saved
    BY <1>1, <1>11 DEF Checking
  <2>3. Written(pinger.step, pinger.saved, Current)'
    BY <1>7, <2>1, <2>2 DEF Written
  <2>4. PingerInv'
    BY <1>10, <2>1, <2>3
  <2>5. ASSUME NEW j \in Key
        PROVE  Accounts(j)'
    <3>1. OfPinger(j)' = 0
      BY <2>2 DEF OfPinger
    <3>2. Pending(j)' = Pending(j)
      BY <1>8, <3>1 DEF Pending
    <3> QED BY <2>1, <3>2, PendingIs, AccountsQuiet
  <2> QED BY <1>9, <2>1, <2>4, <2>5, PingerGoesOn DEF PingerRecord
<1>12. CASE RecordFails(row) /\ pinger' = [pinger EXCEPT !.step = "finish", !.saved = FALSE]
  <2>1. /\ Kept' /\ Later /\ Uncounted(table, table')
        /\ failures'[row.key] = failures[row.key] + 1
        /\ \A j \in Key \ {row.key} : failures'[j] = failures[j]
    BY <1>4, <1>9, <1>12, KeptFailed DEF PingerRecord
  <2>2. ~pinger'.saved
    BY <1>1, <1>12 DEF Checking
  <2>3. row.attempts + 1 <= failures'[row.key]
    <3>1. /\ row.attempts \in Nat /\ failures[row.key] \in Nat
          /\ row.attempts <= failures[row.key]
      BY <1>4 DEF Held, Row, MonitorInv, Kept
    <3> QED BY <2>1, <3>1
  <2>4. Written(pinger.step, pinger.saved, Current)'
    BY <1>7, <2>2, <2>3 DEF Written
  <2>5. PingerInv'
    BY <1>10, <2>1, <2>4
  <2>6. ASSUME NEW j \in Key
        PROVE  Accounts(j)'
    <3>1. failures[j] \in Nat
      BY DEF MonitorInv, Kept
    <3>2. CASE j # row.key
      <4>1. OfPinger(j)' = 0
        BY <1>7, <3>2 DEF OfPinger
      <4>2. Pending(j)' = Pending(j)
        BY <1>8, <4>1 DEF Pending
      <4> QED BY <2>1, <4>2, PendingIs, AccountsQuiet
    <3>3. CASE j = row.key
      <4>1. OfPinger(j)' = 1
        BY <1>6, <1>7, <2>2, <3>3 DEF OfPinger
      <4>2. Pending(j)' = OfCallback(j) + 1 /\ Pending(j) = OfCallback(j)
        BY <1>8, <4>1 DEF Pending
      <4>3. Pending(j)' + failures[j] <= Pending(j) + failures'[j]
        BY <1>8, <2>1, <3>1, <3>3, <4>2
      <4> QED BY <2>1, <4>3, AccountsStay
    <3> QED BY <3>2, <3>3
  <2> QED BY <1>9, <2>1, <2>5, <2>6, PingerGoesOn DEF PingerRecord
<1> QED BY <1>5, <1>11, <1>12

LEMMA PingerFinishHolds ==
  ASSUME MonitorInv, PingerFinish
  PROVE  MonitorInv'
<1>1. /\ pinger \in Checking /\ pinger.todo # {} /\ pinger.step = "finish"
      /\ Written(pinger.step, pinger.saved, Current)
  BY CheckingIs DEF PingerFinish
<1>2. PICK row : row = Current /\ row \in Row /\ Held(row)
  BY <1>1, CurrentIs
<1>3. PICK k \in Key : k = row.key
  BY <1>2 DEF Row
<1>4. jobs' \subseteq Key /\ timed' \subseteq Key
  BY DEF PingerFinish, timers, MonitorInv, Typed
<1>5. ASSUME Kept', Later, Uncounted(table, table'), pinger' = NextStream
      PROVE  MonitorInv'
  BY <1>1, <1>4, <1>5, NextStreamIs, PingerMoves DEF PingerFinish
<1>6. CASE pinger.saved
  <2>1. /\ row.id \in Accounted /\ table' = Delete(table, {row.id}) /\ pinger' = NextStream
        /\ UNCHANGED <<records, abandoned, flushed>>
    BY <1>1, <1>2, <1>6 DEF PingerFinish, Written, RemoveRecorded
  <2> QED BY <1>5, <2>1, KeptDeleted
<1>7. CASE ~pinger.saved /\ ~LastAttempt(row)
  <2>1. /\ table' = IncrementAttempts(table, k) /\ pinger' = NextStream
        /\ UNCHANGED <<history, skipped, failures, abandoned, flushed, callback>>
        /\ RowsOf(table, k) # {}
    BY <1>2, <1>3, <1>7 DEF PingerFinish, records
  <2>2. pinger'.step = "check"
    BY <1>1, <2>1 DEF NextStream, Checking
  <2>3. \A j \in Key : OfPinger(j)' = 0 /\ OfCallback(j)' = OfCallback(j)
    BY <2>1, <2>2 DEF OfPinger, OfCallback
  <2>4. \A j \in Key : Pending(j)' = OfCallback(j)
    BY <2>3, PendingIs DEF Pending, OfCallback
  <2>5. Pending(k)' + 1 <= Pending(k)
    <3>1. OfPinger(k) = 1
      BY <1>1, <1>2, <1>3, <1>7 DEF OfPinger
    <3> QED BY <2>4, <3>1, PendingIs
  <2>6. \A j \in Key \ {k} : Pending(j)' <= Pending(j)
    BY <2>1, <2>2, PingerSettled
  <2>7. Kept' /\ Later /\ \A j \in Key : Accounts(j)'
    BY <2>1, <2>5, <2>6, AttemptCounted
  <2>8. PingerInv'
    BY <1>1, <2>1, <2>7, NextStreamIs
  <2> QED BY <1>4, <2>7, <2>8, PingerGoesOn DEF PingerFinish
<1>8. CASE ~pinger.saved /\ LastAttempt(row)
  <2>1. /\ table' = Delete(table, RowsOf(table, k)) /\ abandoned' = abandoned \cup RowsOf(table, k)
        /\ pinger' = NextStream /\ UNCHANGED <<records, flushed>>
    BY <1>2, <1>3, <1>8 DEF PingerFinish, GiveUp
  <2> QED BY <1>5, <2>1, KeptDeleted
<1> QED BY <1>6, <1>7, <1>8

LEMMA PingerEndHolds ==
  ASSUME MonitorInv, PingerDone \/ \E k \in Key : PingerSync(k)
  PROVE  MonitorInv'
<1>1. CASE PingerDone
  <2>1. Kept' /\ Later /\ Uncounted(table, table')
    BY <1>1, GrownSame, KeptGrown DEF PingerDone, fates, records, MonitorInv, Kept
  <2>2. PingerInv' /\ pinger'.step # "finish"
    BY <1>1 DEF PingerDone, PingerInv, Idle
  <2> QED BY <1>1, <2>1, <2>2, PingerMoves DEF PingerDone, timers, MonitorInv, Typed
<1>2. ASSUME NEW k \in Key, PingerSync(k)
      PROVE  MonitorInv'
  <2>1. /\ pinger \in Checking /\ \A row \in pinger.todo : Held(row)
        /\ pinger.live[k] # NoItem /\ \A j \in pinger.left : pinger.live[j] # NoItem
    BY <1>2, CheckingIs DEF PingerSync
  <2>2. PICK item \in Item : item = pinger.live[k]
    BY <2>1 DEF Checking
  <2>3. Grown(table, table')
    BY <1>2, <2>2, WriteSessionGrows DEF PingerSync, State, MonitorInv, Kept
  <2>4. Kept' /\ Later /\ Uncounted(table, table')
    BY <1>2, <2>3, KeptGrown DEF PingerSync, fates, records
  <2>5. PICK left : left = pinger.left \ {k}
    OBVIOUS
  <2>6. /\ pinger' \in Checking /\ pinger'.todo = pinger.todo /\ pinger'.step = "check"
        /\ pinger'.left = left /\ pinger'.live = pinger.live
    BY <1>2, <2>1, <2>5 DEF PingerSync, Checking
  <2>7. \A row \in pinger.todo : Held(row)'
    BY <2>1, <2>4, HeldStays
  <2>8. Written(pinger.step, pinger.saved, Current)'
    BY <2>6 DEF Written
  <2>9. PingerInv'
    BY <2>1, <2>5, <2>6, <2>7, <2>8 DEF PingerInv
  <2>10. jobs' \subseteq Key /\ timed' \subseteq Key
    BY <1>2 DEF PingerSync, MonitorInv, Typed
  <2> QED BY <1>2, <2>4, <2>6, <2>9, <2>10, PingerMoves DEF PingerSync
<1> QED BY <1>1, <1>2

\* An exception empties the table, whether the play it was at is in the history or not.
LEMMA PingerRaisesHolds ==
  ASSUME MonitorInv, PingerRaises
  PROVE  MonitorInv'
<1>1. /\ Table(table') /\ table'.next = table.next /\ Ids' = {}
  BY Deleted DEF PingerRaises, MonitorInv, Kept, Ids
<1>2. /\ history' \in Seq(Nat)
      /\ Recorded \subseteq Recorded' /\ Recorded' \subseteq 1..(table.next - 1)
  <2>1. CASE pinger.step = "record"
    <3>1. pinger \in Checking /\ pinger.todo # {}
      BY <2>1, CheckingIs
    <3>2. PICK row : row = Current /\ Held(row)
      BY <3>1, CurrentIs
    <3>3. RecordRaises(row)
      BY <2>1, <3>2 DEF PingerRaises
    <3> QED BY <3>2, <3>3, RaisedHistory DEF MonitorInv, Kept, Held
  <2>2. CASE pinger.step # "record"
    <3>1. history' = history
      BY <2>2 DEF PingerRaises
    <3> QED BY <3>1 DEF MonitorInv, Kept, Recorded
  <2> QED BY <2>1, <2>2
<1>3. UNCHANGED <<skipped, failures, abandoned>> /\ flushed' = flushed \cup Ids
  BY DEF PingerRaises
<1>4. NothingLost'
  BY <1>1, <1>2, <1>3 DEF MonitorInv, Kept, NothingLost
<1>5. Accounted \subseteq Accounted'
  BY <1>2, <1>3 DEF Accounted
<1>6. Kept' /\ Later
  BY <1>1, <1>2, <1>3, <1>4, <1>5 DEF MonitorInv, Kept, Later, Table
<1>7. Uncounted(table, table')
  BY <1>1 DEF Uncounted, Ids
<1>8. PingerInv' /\ pinger'.step # "finish"
  BY DEF PingerRaises, PingerInv, Idle
<1> QED BY <1>6, <1>7, <1>8, PingerMoves DEF PingerRaises, timers, MonitorInv, Typed

LEMMA PingHolds == MonitorInv /\ Ping => MonitorInv'
BY PingerListHolds, PingerCheckHolds, PingerRecordHolds, PingerFinishHolds, PingerEndHolds,
   PingerRaisesHolds
   DEF Ping

-----------------------------------------------------------------------------
(***************************************************************************)
(* The invariant holds, and what follows from it.                          *)
(***************************************************************************)
LEMMA MonitorInvInit == Init => MonitorInv
<1> SUFFICES ASSUME Init PROVE MonitorInv
  OBVIOUS
<1>1. /\ DOMAIN table.rows = {} /\ table.next = 1
      /\ table = [rows |-> table.rows, next |-> table.next]
      /\ table.rows = [i \in {} |-> Nobody]
  BY DEF Init
<1>2. Table(table) /\ \A k \in Key : RowsOf(table, k) = {}
  BY <1>1 DEF Table, RowsOf
<1>3. Recorded = {}
  BY DEF Init, Recorded
<1>4. Kept
  <2>1. 1..(table.next - 1) = {}
    BY <1>1
  <2> QED BY <1>2, <1>3, <2>1 DEF Init, Kept, NothingLost
<1>5. Typed
  BY DEF Init, Typed, Rest
<1>6. ASSUME NEW k \in Key
      PROVE  Accounts(k) /\ Forcing(k, callback[k])
  <2>1. callback[k] = Idle /\ pinger = Idle /\ failures[k] = 0
    BY DEF Init
  <2>2. OfCallback(k) = 0 /\ OfPinger(k) = 0
    BY <2>1 DEF OfCallback, OfPinger, Idle
  <2>3. Pending(k) = 0
    BY <2>2 DEF Pending
  <2> QED BY <1>2, <2>1, <2>3 DEF Accounts, Forcing
<1>7. \A l \in Listener : Sound(listener[l])
  BY DEF Init, Sound, Rest
<1>8. PingerInv
  BY DEF Init, PingerInv
<1> QED BY <1>4, <1>5, <1>6, <1>7, <1>8 DEF MonitorInv

\* The server's sessions change, and nothing of the monitor does.
LEMMA PlaysHolds ==
  ASSUME MonitorInv, playing' \in [Key -> Item \cup {NoItem}],
         UNCHANGED <<table, timers, listener, callback, pinger, fates, bounds>>
  PROVE  MonitorInv'
<1>1. Kept' /\ Later /\ Uncounted(table, table')
  BY GrownSame, KeptGrown DEF fates, records, MonitorInv, Kept
<1>2. \A l \in Listener : Sound(listener[l])'
  <2>1. ASSUME NEW l \in Listener
        PROVE  Sound(listener[l])'
    <3>1. PICK h : h = listener[l]
      OBVIOUS
    <3>2. Sound(h)'
      BY <1>1, <3>1, SoundStays DEF MonitorInv
    <3> QED BY <3>1, <3>2 DEF Sound
  <2> QED BY <2>1
<1>3. \A k \in Key : Accounts(k)' /\ Forcing(k, callback[k])'
  BY <1>1, AccountsOthers, CallbackStays
<1>4. PingerInv'
  BY <1>1, PingerStays
<1>5. Typed'
  BY DEF timers, MonitorInv, Typed
<1> QED BY <1>1, <1>2, <1>3, <1>4, <1>5 DEF MonitorInv

LEMMA MonitorInvStep == MonitorInv /\ [Next]_vars => MonitorInv'
<1> SUFFICES ASSUME MonitorInv, [Next]_vars PROVE MonitorInv'
  OBVIOUS
<1>1. ASSUME NEW k \in Key, NEW item \in Item \cup {NoItem}, Plays(k, item)
      PROVE  MonitorInv'
  <2>1. playing' \in [Key -> Item \cup {NoItem}]
    BY <1>1 DEF Plays, MonitorInv, Typed
  <2> QED BY <1>1, <2>1, PlaysHolds DEF Plays
<1>2. ASSUME NEW l \in Listener, NEW k \in Key, NEW item \in Item, NEW state \in EventState,
             Receive(l, k, item, state)
      PROVE  MonitorInv'
  BY <1>2, ReceiveHolds
<1>3. ASSUME NEW l \in Listener, Handle(l) \/ HandlerRaises(l)
      PROVE  MonitorInv'
  BY <1>3, HandleHolds
<1>4. ASSUME NEW k \in Key,
             Fire(k) \/ CallbackRecord(k) \/ CallbackFinish(k) \/ CallbackRaises(k)
      PROVE  MonitorInv'
  BY <1>4, FireHolds, CallbackRecordHolds, CallbackFinishHolds, CallbackRaisesHolds
<1>5. CASE Restart \/ Reconnect
  BY <1>5, StartHolds
<1>6. CASE Ping
  BY <1>6, PingHolds
<1>7. CASE UNCHANGED vars
  <2>1. UNCHANGED <<table, timers, listener, callback, pinger, playing, fates, bounds>>
    BY <1>7 DEF vars
  <2> QED BY <2>1, PlaysHolds DEF MonitorInv, Typed
<1> QED BY <1>1, <1>2, <1>3, <1>4, <1>5, <1>6, <1>7 DEF Next

LEMMA MonitorInvHolds == Spec => []MonitorInv
BY MonitorInvInit, MonitorInvStep, PTL DEF Spec

\* The type invariant.  No row counts more attempts than writes have failed
\* for its session key, although the listeners' events, the timers and the
\* start-up check copy a row, write it and count the attempt in the table
\* at different times.
THEOREM MonitorTypeOK == Spec => []TypeOK
<1>1. ASSUME MonitorInv
      PROVE  TypeOK
  <2>1. ASSUME NEW i \in Ids
        PROVE  /\ table.rows[i] \in Row /\ table.rows[i].id = i
               /\ table.rows[i].attempts <= failures[table.rows[i].key]
    <3>1. PICK k : k = table.rows[i].key
      OBVIOUS
    <3>2. /\ table.rows[i] \in Row /\ table.rows[i].id = i /\ k \in Key
          /\ i \in RowsOf(table, k) /\ table.rows[i].attempts \in Nat
      BY <1>1, <3>1 DEF MonitorInv, Kept, Table, Ids, Row, RowsOf
    <3>3. /\ Pending(k) \in Nat /\ failures[k] \in Nat
          /\ table.rows[i].attempts + Pending(k) <= failures[k]
      BY <1>1, <3>2, PendingIs DEF MonitorInv, Accounts, Kept
    <3>4. table.rows[i].attempts <= failures[k]
      BY <3>2, <3>3
    <3> QED BY <3>1, <3>2, <3>4
  <2>2. \A l \in Listener : listener[l].todo # <<>> =>
          listener[l].key \in Key /\ listener[l].state \in State
    BY <1>1 DEF MonitorInv, Sound, Rest, Handling
  <2>3. \A k \in Key : callback[k].step \in {"idle", "record", "finish"}
    BY <1>1 DEF MonitorInv, Forcing, Idle, Forced
  <2>4. pinger.step \in {"idle", "list", "check", "record", "finish"}
    BY <1>1 DEF MonitorInv, PingerInv, Idle, Listing, Checking
  <2>5. \A n \in DOMAIN history : history[n] \in 1..(table.next - 1)
    BY <1>1 DEF MonitorInv, Kept, Recorded
  <2>6. table.next \in Nat \ {0} /\ Ids \subseteq 1..(table.next - 1)
    BY <1>1 DEF MonitorInv, Kept, Table, Ids
  <2> QED BY <1>1, <2>1, <2>2, <2>3, <2>4, <2>5, <2>6 DEF TypeOK, MonitorInv, Kept, Typed
<1> QED BY <1>1, MonitorInvHolds, PTL

\* No row leaves the sessions table unaccounted for, whichever listeners,
\* timers and start-up checks work on it at the same time and whenever the
\* process dies: a thread removes only the row it wrote, or the rows it gives up.
THEOREM MonitorNothingLost == Spec => []NothingLost
<1>1. MonitorInv => NothingLost
  BY DEF MonitorInv, Kept
<1> QED BY <1>1, MonitorInvHolds, PTL

\* Rows are given up only when SESSION_DB_WRITE_ATTEMPTS writes have failed for
\* their session key.  The thread that gives up counts with the copy of a row it
\* took before; that copy is never ahead of the writes that have failed.
THEOREM MonitorGivenUp == Spec => GivenUpOnlyAfterAllAttempts
<1>1. ASSUME MonitorInv, NEW row, Held(row), LastAttempt(row), row.attempts + 1 <= failures[row.key]
      PROVE  \A i \in RowsOf(table, row.key) : failures[table.rows[i].key] >= Attempts
  <2>1. row.attempts \in Nat /\ failures[row.key] \in Nat /\ Attempts \in Nat
    BY <1>1, SessionAssumption DEF Held, Row, MonitorInv, Kept
  <2>2. row.attempts + 1 >= Attempts
    BY <1>1 DEF LastAttempt
  <2>3. failures[row.key] >= Attempts
    BY <1>1, <2>1, <2>2
  <2> QED BY <2>3 DEF RowsOf
<1>2. ASSUME MonitorInv, [Next]_vars
      PROVE  \A i \in abandoned' \ abandoned : failures[table.rows[i].key] >= Attempts
  <2>1. ASSUME NEW k \in Key, CallbackFinish(k)
        PROVE  \A i \in abandoned' \ abandoned : failures[table.rows[i].key] >= Attempts
    <3>1. PICK b : b = callback[k]
      OBVIOUS
    <3>2. CASE ~b.saved /\ LastAttempt(b.row)
      <4>1. b \in Forced /\ Forcing(k, b) /\ b.step = "finish"
        BY <1>2, <2>1, <3>1 DEF CallbackFinish, MonitorInv, Forcing, Idle
      <4>2. b.row.key = k /\ Held(b.row) /\ b.row.attempts + 1 <= failures[b.row.key]
        BY <3>2, <4>1 DEF Forcing, Written, Idle
      <4>3. abandoned' = abandoned \cup RowsOf(table, k)
        BY <2>1, <3>1, <3>2 DEF CallbackFinish, GiveUp
      <4>4. \A i \in RowsOf(table, k) : failures[table.rows[i].key] >= Attempts
        BY <1>1, <1>2, <3>2, <4>2
      <4> QED BY <4>3, <4>4
    <3>3. CASE b.saved \/ ~LastAttempt(b.row)
      <4>1. abandoned' = abandoned
        BY <2>1, <3>1, <3>3 DEF CallbackFinish
      <4> QED BY <4>1
    <3> QED BY <3>2, <3>3
  <2>2. ASSUME PingerFinish
        PROVE  \A i \in abandoned' \ abandoned : failures[table.rows[i].key] >= Attempts
    <3>1. /\ pinger \in Checking /\ pinger.todo # {} /\ pinger.step = "finish"
          /\ Written(pinger.step, pinger.saved, Current)
      BY <1>2, <2>2, CheckingIs DEF PingerFinish
    <3>2. Held(Current)
      BY <1>2, <3>1, CurrentIs
    <3>3. PICK row : row = Current
      OBVIOUS
    <3>4. Held(row)
      BY <3>2, <3>3
    <3>5. CASE ~pinger.saved /\ LastAttempt(row)
      <4>1. row.attempts + 1 <= failures[row.key]
        BY <3>1, <3>3, <3>5 DEF Written
      <4>2. abandoned' = abandoned \cup RowsOf(table, row.key)
        BY <2>2, <3>3, <3>5 DEF PingerFinish, GiveUp
      <4>3. \A i \in RowsOf(table, row.key) : failures[table.rows[i].key] >= Attempts
        BY <1>1, <1>2, <3>4, <3>5, <4>1
      <4> QED BY <4>2, <4>3
    <3>6. CASE pinger.saved \/ ~LastAttempt(row)
      <4>1. abandoned' = abandoned
        BY <2>2, <3>3, <3>6 DEF PingerFinish
      <4> QED BY <4>1
    <3> QED BY <3>5, <3>6
  <2>3. ASSUME ~PingerFinish, \A k \in Key : ~CallbackFinish(k)
        PROVE  abandoned' = abandoned
    <3>1. CASE \E k \in Key, item \in Item \cup {NoItem} : Plays(k, item)
      BY <3>1 DEF Plays, fates
    <3>2. CASE \E l \in Listener, k \in Key, item \in Item, state \in EventState :
                 Receive(l, k, item, state)
      BY <3>2 DEF Receive, fates
    <3>3. CASE \E l \in Listener : Handle(l) \/ HandlerRaises(l)
      BY <3>3 DEF Handle, HandlerUpdate, HandlerPaused, HandlerSettle, HandlerRecord,
                  HandlerFinish, HandlerLook, HandlerStart, HandlerWatchdog, HandlerRaises, fates
    <3>4. CASE \E k \in Key : Fire(k) \/ CallbackRecord(k) \/ CallbackRaises(k)
      BY <3>4 DEF Fire, CallbackRecord, CallbackRaises, fates
    <3>5. CASE Restart \/ Reconnect
      BY <3>5 DEF Restart, Reconnect, fates
    <3>6. CASE Ping
      BY <2>3, <3>6 DEF Ping, PingerList, PingerCheck, PingerRecord, PingerSync, PingerDone,
                        PingerRaises, fates
    <3>7. CASE UNCHANGED vars
      BY <3>7 DEF vars, fates
    <3> QED BY <1>2, <2>3, <3>1, <3>2, <3>3, <3>4, <3>5, <3>6, <3>7 DEF Next
  <2> QED BY <2>1, <2>2, <2>3
<1> QED BY <1>2, MonitorInvHolds, PTL DEF Spec, GivenUpOnlyAfterAllAttempts

-----------------------------------------------------------------------------
(***************************************************************************)
(* One thread at a time: with one listener, and timers that do not race    *)
(* with events, what a thread does to the rows of a key stays there.       *)
(***************************************************************************)
\* u is t after a change of the rows of k; it has no row again that t had lost.
Touches(k, t, u) ==
  /\ \A j \in Key \ {k} : RowsOf(u, j) = RowsOf(t, j)
  /\ \A i \in DOMAIN u.rows : i \in DOMAIN t.rows \/ i >= t.next

\* Every row has a state: none was inserted by set_session_last_paused.
Stated(t) == \A i \in DOMAIN t.rows : t.rows[i].state # NoState

\* u is t after rows of k were added or given another state.
Adds(k, t, u) ==
  /\ Table(u) /\ t.next <= u.next
  /\ Touches(k, t, u)
  /\ RowsOf(t, k) \subseteq RowsOf(u, k)
  /\ Stated(t) => Stated(u)

LEMMA AddsTwice ==
  ASSUME NEW k, NEW t, NEW u, NEW v, Table(t), Adds(k, t, u), Adds(k, u, v)
  PROVE  Adds(k, t, v)
<1>1. Touches(k, t, v)
  BY DEF Adds, Touches, Table
<1> QED BY <1>1 DEF Adds, Table

\* A statement that changes rows, but not their keys.
LEMMA Restated ==
  ASSUME NEW k, NEW t, Table(t), NEW u, Table(u), u.next = t.next,
         DOMAIN u.rows = DOMAIN t.rows,
         \A i \in DOMAIN t.rows : u.rows[i].key = t.rows[i].key,
         Stated(t) => Stated(u)
  PROVE  Adds(k, t, u) /\ \A j : RowsOf(u, j) = RowsOf(t, j)
<1>1. \A j : RowsOf(u, j) = RowsOf(t, j)
  BY DEF RowsOf
<1>2. t.next <= u.next
  BY DEF Table
<1> QED BY <1>1, <1>2 DEF Adds, Touches

LEMMA InsertAdds ==
  ASSUME NEW t, Table(t), NEW k \in Key, NEW item \in Item \cup {NoItem}, NEW state \in State
  PROVE  Adds(k, t, Insert(t, k, item, state))
<1> DEFINE u == Insert(t, k, item, state)
           row == [id |-> t.next, key |-> k, item |-> item, state |-> state,
                   lastPaused |-> FALSE, attempts |-> 0]
<1>1. /\ u.next = t.next + 1
      /\ DOMAIN u.rows = DOMAIN t.rows \cup {t.next}
      /\ u.rows = [i \in DOMAIN t.rows \cup {t.next} |-> IF i = t.next THEN row ELSE t.rows[i]]
  BY DEF Insert
<1>2. row.key = k /\ row.state # NoState
  BY DEF State, NoState
<1>3. t.next \notin DOMAIN t.rows /\ t.next \in Nat
  BY DEF Table
<1>4. u.rows[t.next] = row /\ \A i \in DOMAIN t.rows : u.rows[i] = t.rows[i]
  BY <1>1, <1>3
<1>5. Table(u)
  BY InsertGrows DEF Grown
<1> HIDE DEF u, row
<1>6. Touches(k, t, u) /\ RowsOf(t, k) \subseteq RowsOf(u, k)
  BY <1>1, <1>2, <1>3, <1>4 DEF Touches, RowsOf
<1>7. Stated(t) => Stated(u)
  BY <1>1, <1>2, <1>4 DEF Stated
<1> QED BY <1>1, <1>3, <1>5, <1>6, <1>7 DEF Adds, u

\* set_session_state changes the rows of the key, or inserts one.
LEMMA SetStateAdds ==
  ASSUME NEW t, Table(t), NEW k \in Key, NEW state \in State
  PROVE  /\ Adds(k, t, SetState(t, k, state))
         /\ RowsOf(t, k) # {} => \A j : RowsOf(SetState(t, k, state), j) = RowsOf(t, j)
<1>1. CASE RowsOf(t, k) = {}
  BY <1>1, InsertAdds DEF SetState
<1>2. CASE RowsOf(t, k) # {}
  <2> DEFINE rows == [i \in DOMAIN t.rows |-> IF i \in RowsOf(t, k)
                                             THEN [t.rows[i] EXCEPT !.state = state]
                                             ELSE t.rows[i]]
             u == SetState(t, k, state)
  <2>1. u = [t EXCEPT !.rows = rows]
    BY <1>2 DEF SetState, Update
  <2>2. u.rows = rows /\ u.next = t.next /\ DOMAIN rows = DOMAIN t.rows
    BY <2>1 DEF Table
  <2>3. Table(u)
    BY SetStateGrows DEF Grown
  <2>4. \A i \in DOMAIN t.rows : rows[i].key = t.rows[i].key
    BY DEF Table, Row
  <2>5. state # NoState
    BY DEF State, NoState
  <2>6. \A i \in DOMAIN t.rows : t.rows[i].state # NoState => rows[i].state # NoState
    BY <2>5 DEF Table, Row
  <2> HIDE DEF u, rows
  <2>7. Stated(t) => Stated(u)
    BY <2>2, <2>6 DEF Stated
  <2>8. Adds(k, t, u) /\ \A j : RowsOf(u, j) = RowsOf(t, j)
    BY <2>2, <2>3, <2>4, <2>7, Restated
  <2> QED BY <2>8 DEF u
<1> QED BY <1>1, <1>2

\* So does set_session_last_paused when there are rows.
LEMMA SetLastPausedAdds ==
  ASSUME NEW t, Table(t), NEW k \in Key, NEW paused \in BOOLEAN, RowsOf(t, k) # {}
  PROVE  /\ Adds(k, t, SetLastPaused(t, k, paused))
         /\ \A j : RowsOf(SetLastPaused(t, k, paused), j) = RowsOf(t, j)
<1> DEFINE rows == [i \in DOMAIN t.rows |-> IF i \in RowsOf(t, k)
                                           THEN [t.rows[i] EXCEPT !.lastPaused = paused]
                                           ELSE t.rows[i]]
           u == SetLastPaused(t, k, paused)
<1>1. u = [t EXCEPT !.rows = rows]
  BY DEF SetLastPaused, Update
<1>2. u.rows = rows /\ u.next = t.next /\ DOMAIN rows = DOMAIN t.rows
  BY <1>1 DEF Table
<1>3. Table(u)
  BY SetLastPausedGrows DEF Grown
<1>4. \A i \in DOMAIN t.rows : rows[i].key = t.rows[i].key /\ rows[i].state = t.rows[i].state
  BY DEF Table, Row
<1> HIDE DEF u, rows
<1>5. Stated(t) => Stated(u)
  BY <1>2, <1>4 DEF Stated
<1>6. Adds(k, t, u) /\ \A j : RowsOf(u, j) = RowsOf(t, j)
  BY <1>2, <1>3, <1>4, <1>5, Restated
<1> QED BY <1>6 DEF u

\* write_session inserts a row exactly when it uses an id up.
LEMMA WriteSessionAdds ==
  ASSUME NEW t, Table(t), NEW k \in Key, NEW item \in Item, NEW state \in State
  PROVE  LET u == WriteSession(t, k, item, state) IN
         Adds(k, t, u) /\ (u.next = t.next => \A j : RowsOf(u, j) = RowsOf(t, j))
<1> DEFINE same == {i \in RowsOf(t, k) : t.rows[i].item = item}
           u == WriteSession(t, k, item, state)
<1>1. CASE same = {}
  <2>1. u = Insert(t, k, item, state)
    BY <1>1 DEF WriteSession
  <2>2. u.next # t.next
    BY <2>1 DEF Insert, Table
  <2> QED BY <2>1, <2>2, InsertAdds
<1>2. CASE same # {}
  <2> DEFINE rows == [i \in DOMAIN t.rows |-> IF i \in same
                                             THEN [t.rows[i] EXCEPT !.state = state]
                                             ELSE t.rows[i]]
  <2>1. u = [t EXCEPT !.rows = rows]
    BY <1>2 DEF WriteSession, Update
  <2>2. u.rows = rows /\ u.next = t.next /\ DOMAIN rows = DOMAIN t.rows
    BY <2>1 DEF Table
  <2>3. Table(u)
    BY WriteSessionGrows DEF Grown
  <2>4. \A i \in DOMAIN t.rows : rows[i].key = t.rows[i].key
    BY DEF Table, Row
  <2>5. state # NoState
    BY DEF State, NoState
  <2>6. \A i \in DOMAIN t.rows : t.rows[i].state # NoState => rows[i].state # NoState
    BY <2>5 DEF Table, Row
  <2> HIDE DEF u, rows
  <2>7. Stated(t) => Stated(u)
    BY <2>2, <2>6 DEF Stated
  <2>8. Adds(k, t, u) /\ \A j : RowsOf(u, j) = RowsOf(t, j)
    BY <2>2, <2>3, <2>4, <2>7, Restated
  <2> QED BY <2>8 DEF u
<1> QED BY <1>1, <1>2

\* Rows of the key are deleted.
LEMMA DeleteTouches ==
  ASSUME NEW t, Table(t), NEW k, NEW S, S \cap DOMAIN t.rows \subseteq RowsOf(t, k)
  PROVE  /\ Touches(k, t, Delete(t, S)) /\ RowsOf(Delete(t, S), k) = RowsOf(t, k) \ S
         /\ Stated(t) => Stated(Delete(t, S))
BY Deleted DEF Touches, RowsOf, Stated

\* An attempt is counted.
LEMMA IncrementAdds ==
  ASSUME NEW t, Table(t), NEW k \in Key, RowsOf(t, k) # {}
  PROVE  Adds(k, t, IncrementAttempts(t, k)) /\ \A j : RowsOf(IncrementAttempts(t, k), j) = RowsOf(t, j)
<1> DEFINE first == FirstRow(t, k).attempts
           rows == [i \in DOMAIN t.rows |-> IF i \in RowsOf(t, k)
                                            THEN [t.rows[i] EXCEPT !.attempts = first + 1]
                                            ELSE t.rows[i]]
           u == IncrementAttempts(t, k)
<1>1. u = [rows |-> rows, next |-> t.next]
  BY DEF IncrementAttempts, Update, Table
<1>2. u.rows = rows /\ u.next = t.next /\ DOMAIN rows = DOMAIN t.rows
  BY <1>1
<1>3. Table(u)
  BY Incremented
<1>4. \A i \in DOMAIN t.rows : rows[i].key = t.rows[i].key /\ rows[i].state = t.rows[i].state
  BY DEF Table, Row
<1> HIDE DEF u, rows
<1>5. Stated(t) => Stated(u)
  BY <1>2, <1>4 DEF Stated
<1>6. Adds(k, t, u) /\ \A j : RowsOf(u, j) = RowsOf(t, j)
  BY <1>2, <1>3, <1>4, <1>5, Restated
<1> QED BY <1>6 DEF u

-----------------------------------------------------------------------------
(***************************************************************************)
(* How often a row is in the history.                                      *)
(***************************************************************************)
Times(h, i) == Cardinality({n \in DOMAIN h : h[n] = i})

LEMMA TimesIs ==
  ASSUME NEW h \in Seq(Nat), NEW i
  PROVE  /\ IsFiniteSet({n \in DOMAIN h : h[n] = i}) /\ Times(h, i) \in Nat
         /\ (\A n \in DOMAIN h : h[n] # i) => Times(h, i) = 0
<1>1. IsFiniteSet(1..Len(h)) /\ DOMAIN h = 1..Len(h)
  BY FS_Interval
<1>2. IsFiniteSet({n \in DOMAIN h : h[n] = i})
  BY <1>1, FS_Subset
<1>3. (\A n \in DOMAIN h : h[n] # i) => {n \in DOMAIN h : h[n] = i} = {}
  OBVIOUS
<1> QED BY <1>2, <1>3, FS_CardinalityType, FS_EmptySet DEF Times

LEMMA TimesAppended ==
  ASSUME NEW h \in Seq(Nat), NEW r \in Nat, NEW i
  PROVE  Times(Append(h, r), i) = IF i = r THEN Times(h, i) + 1 ELSE Times(h, i)
<1> DEFINE g == Append(h, r)
           before == {n \in DOMAIN h : h[n] = i}
           after == {n \in DOMAIN g : g[n] = i}
<1>1. /\ DOMAIN h = 1..Len(h) /\ DOMAIN g = 1..(Len(h) + 1) /\ Len(h) \in Nat
      /\ \A n \in 1..Len(h) : g[n] = h[n]
      /\ g[Len(h) + 1] = r
  OBVIOUS
<1>2. Len(h) + 1 \notin DOMAIN h
  BY <1>1
<1>3. DOMAIN g = DOMAIN h \cup {Len(h) + 1}
  BY <1>1
<1>4. IsFiniteSet(before)
  BY TimesIs
<1>5. CASE i = r
  <2>1. after = before \cup {Len(h) + 1} /\ Len(h) + 1 \notin before
    BY <1>1, <1>2, <1>3, <1>5
  <2>2. Cardinality(after) = Cardinality(before) + 1
    BY <1>4, <2>1, FS_AddElement
  <2> QED BY <1>5, <2>2 DEF Times
<1>6. CASE i # r
  <2>1. after = before
    BY <1>1, <1>2, <1>3, <1>6
  <2> QED BY <1>6, <2>1 DEF Times
<1> QED BY <1>5, <1>6

-----------------------------------------------------------------------------
(***************************************************************************)
(* The invariant of one listener.                                          *)
(***************************************************************************)
\* One listener, and timers that do not race with events or with the check.
Serial == ~TimerRaces /\ \E l \in Listener : Listener = {l}

\* Deaths of the process, and exceptions that ended a handler or a job.
Interruptions == restarts + breaks
Counted == restarts \in Nat /\ breaks \in Nat

\* A row that may be written once more.
Spare(i) == Times(history, i) <= Interruptions

\* The handler is before its write, if it has one; it has a write to do.
Writing(todo) == \E n \in 1..Len(todo) : todo[n] \notin StartStep
Recording(todo) == \E n \in 1..Len(todo) : todo[n] = "record"

\* The row a thread holds is a row of its key.
InTable(t, k, row) == row.key = k /\ row.id \in RowsOf(t, k)

\* A handler's session has rows and a timer until it is closed; the row it will
\* write is one of them that may be written.
Minding(h) ==
  h.todo # <<>> =>
    /\ Writing(h.todo) => h.key \in jobs /\ RowsOf(table, h.key) # {}
    /\ Recording(h.todo) => InTable(table, h.key, h.row) /\ Spare(h.row.id)
    /\ Head(h.todo) = "finish" /\ h.saved => h.row.id \in RowsOf(table, h.key)
    /\ h.key \in timed /\ RowsOf(table, h.key) # {} => h.key \in jobs \/ Head(h.todo) = "watchdog"

\* A force_stop_stream of k works on a row that may be written.
Minded(k, c) ==
  c.step # "idle" =>
    c.row.id \in RowsOf(table, k) /\ (c.step = "record" => Spare(c.row.id))

\* The rows that a handler, a force_stop_stream and the check wrote and will remove.
ClosedBy(h, i) == h.todo # <<>> /\ Head(h.todo) = "finish" /\ h.saved /\ h.row.id = i
ForcedBy(c, i) == c.step = "finish" /\ c.saved /\ c.row.id = i
CheckedBy(p, i) ==
  /\ p.step = "finish" /\ p.saved
  /\ \E row \in p.todo : row.id = i /\ \A other \in p.todo : row.id <= other.id
Closing(i) ==
  \/ \E k \in Key : ForcedBy(callback[k], i)
  \/ \E l \in Listener : ClosedBy(listener[l], i)
  \/ CheckedBy(pinger, i)

\* The check has each row once, and may write those it has not written.
Checkable(p) ==
  p.step # "idle" =>
    /\ \A row, other \in p.todo : row.id = other.id => row = other
    /\ \A row \in p.todo : row.state # NoState
    /\ \A row \in p.todo : Spare(row.id) \/ CheckedBy(p, row.id)

\* Threads that work on the same key exclude each other.
Alone ==
  /\ \A k \in Key : callback[k].step # "idle" => Quiet(k) /\ pinger.step = "idle"
  /\ pinger.step # "idle" => \A l \in Listener : listener[l].todo = <<>>

SerialInv ==
  /\ Alone
  /\ \A k \in Key : Minded(k, callback[k])
  /\ \A l \in Listener : Minding(listener[l])
  /\ Checkable(pinger)
  /\ Stated(table)
  /\ \A i \in Ids : Spare(i) \/ Closing(i)
  /\ Interruptions \in Nat /\ \A i \in Nat : Times(history, i) <= Interruptions + 1
  /\ StaleStreamWatched

\* A row has one key.
LEMMA OneKey ==
  ASSUME NEW t, NEW j, NEW k, NEW i \in RowsOf(t, j), i \in RowsOf(t, k)
  PROVE  j = k
BY DEF RowsOf

\* The history changes for rows of the key at most.
Repeats(k) ==
  /\ \A i \in Nat \ RowsOf(table, k) : Times(history', i) = Times(history, i)
  /\ \A i \in Nat : Times(history', i) <= Interruptions' + 1

LEMMA IdsAre ==
  ASSUME MonitorInv
  PROVE  /\ \A k \in Key : RowsOf(table, k) \subseteq Nat /\ RowsOf(table, k) \subseteq Ids
         /\ \A i \in Ids : \E k \in Key : i \in RowsOf(table, k)
         /\ history \in Seq(Nat) /\ table.next \in Nat
         /\ \A i \in Nat : i >= table.next => Times(history, i) = 0
<1>1. \A i \in Nat : i >= table.next => \A n \in DOMAIN history : history[n] # i
  BY DEF MonitorInv, Kept, Table, Recorded
<1>2. \A i \in Nat : i >= table.next => Times(history, i) = 0
  BY <1>1, TimesIs DEF MonitorInv, Kept
<1> QED BY <1>2 DEF MonitorInv, Kept, Table, RowsOf, Ids, Row

\* An interruption takes no row's write away.
LEMMA SpareStays ==
  ASSUME MonitorInv, SerialInv, NEW i \in Nat, Times(history', i) = Times(history, i), Spare(i),
         Interruptions' \in {Interruptions, Interruptions + 1}
  PROVE  Spare(i)'
<1>1. PICK t \in Nat : t = Times(history, i)
  BY TimesIs DEF MonitorInv, Kept
<1>2. PICK n \in Nat : n = Interruptions
  BY DEF SerialInv
<1>3. PICK m \in Nat : m = Interruptions' /\ n <= m
  BY <1>2
<1>4. t <= n
  BY <1>1, <1>2 DEF Spare
<1>5. t <= m
  BY <1>1, <1>2, <1>3, <1>4
<1> QED BY <1>1, <1>3, <1>5 DEF Spare

\* A listener goes on with the key k, or begins with it.
LEMMA ListenerKeeps ==
  ASSUME MonitorInv, MonitorInv', SerialInv, NEW l \in Listener, Listener = {l}, NEW k \in Key,
         NEW g, g = listener[l], g.todo # <<>> => g.key = k,
         NEW h, listener' = [listener EXCEPT ![l] = h], h.todo # <<>> => h.key = k,
         pinger.step = "idle", callback[k].step = "idle",
         UNCHANGED <<callback, pinger>>, Interruptions' \in {Interruptions, Interruptions + 1},
         Touches(k, table, table'), Stated(table'), Repeats(k),
         jobs' \ {k} = jobs \ {k}, timed' \ {k} = timed \ {k},
         Minding(h)',
         \A i \in RowsOf(table', k) : Spare(i)' \/ ClosedBy(h, i),
         h.todo = <<>> /\ k \in timed' /\ RowsOf(table', k) # {} => k \in jobs'
  PROVE  SerialInv'
<1>1. listener'[l] = h
  BY DEF MonitorInv, Typed
<1>2. \A j \in Key \ {k} : RowsOf(table', j) = RowsOf(table, j)
  BY DEF Touches
<1>3. \A j \in Key \ {k} : \A i \in RowsOf(table, j) :
        i \in Nat /\ Times(history', i) = Times(history, i) /\ (Spare(i) => Spare(i)')
  <2>1. ASSUME NEW j \in Key \ {k}, NEW i \in RowsOf(table, j)
        PROVE  i \in Nat /\ Times(history', i) = Times(history, i)
    BY OneKey, IdsAre DEF Repeats
  <2>2. ASSUME NEW i \in Nat, Times(history', i) = Times(history, i), Spare(i)
        PROVE  Spare(i)'
    BY <2>2, SpareStays
  <2> QED BY <2>1, <2>2
<1>4. Alone'
  <2>1. ASSUME NEW j \in Key, callback'[j].step # "idle"
        PROVE  Quiet(j)' /\ pinger'.step = "idle"
    <3>1. j # k
      BY <2>1
    <3> QED BY <1>1, <3>1 DEF Quiet
  <2> QED BY <2>1 DEF Alone
<1>5. ASSUME NEW j \in Key
      PROVE  Minded(j, callback[j])'
  <2>1. CASE j = k
    BY <2>1 DEF Minded
  <2>2. CASE j # k
    <3>1. Minded(j, callback[j])
      BY DEF SerialInv
    <3> QED BY <1>2, <1>3, <2>2, <3>1 DEF Minded
  <2> QED BY <2>1, <2>2
<1>6. \A m \in Listener : Minding(listener[m])'
  BY <1>1 DEF Minding, Spare
<1>7. Checkable(pinger)'
  BY DEF Checkable
<1>8. ASSUME NEW i \in Ids'
      PROVE  Spare(i)' \/ Closing(i)'
  <2>1. PICK j \in Key : i \in RowsOf(table', j)
    <3>1. \A i1 \in DOMAIN table'.rows : table'.rows[i1].key \in Key
      BY DEF MonitorInv, Kept, Table, Row
    <3> QED BY <3>1 DEF Ids, RowsOf
  <2>2. CASE j = k
    BY <1>1, <2>1, <2>2 DEF Closing
  <2>3. CASE j # k
    <3>1. i \in RowsOf(table, j) /\ i \notin RowsOf(table, k) /\ i \in Ids
      BY <1>2, <2>1, <2>3, OneKey, IdsAre
    <3>2. ~ClosedBy(g, i)
      BY <3>1 DEF SerialInv, Minding, ClosedBy
    <3>3. ~CheckedBy(pinger, i)
      BY DEF CheckedBy
    <3>4. Spare(i) \/ Closing(i)
      BY <3>1 DEF SerialInv
    <3>5. Spare(i) \/ \E m \in Key : ForcedBy(callback[m], i)
      BY <3>2, <3>3, <3>4 DEF Closing
    <3> QED BY <1>3, <2>3, <3>1, <3>5 DEF Closing
  <2> QED BY <2>2, <2>3
<1>9. Interruptions' \in Nat /\ \A i \in Nat : Times(history', i) <= Interruptions' + 1
  BY DEF Repeats, SerialInv
<1>10. ASSUME NEW j \in timed', RowsOf(table', j) # {}
       PROVE  Watched(j)'
  <2>1. CASE j = k
    <3>1. CASE h.todo = <<>>
      BY <1>10, <2>1, <3>1 DEF Watched
    <3>2. CASE h.todo # <<>>
      BY <1>1, <2>1, <3>2 DEF Watched, Quiet
    <3> QED BY <3>1, <3>2
  <2>2. CASE j # k
    <3>1. j \in timed /\ j \in Key /\ (j \in jobs <=> j \in jobs') /\ RowsOf(table, j) # {}
      BY <1>2, <1>10, <2>2 DEF MonitorInv, Typed
    <3>2. Watched(j)
      BY <3>1 DEF SerialInv, StaleStreamWatched
    <3>3. Quiet(j)
      BY <2>2 DEF Quiet
    <3> QED BY <3>1, <3>2, <3>3 DEF Watched
  <2> QED BY <2>1, <2>2
<1>11. StaleStreamWatched'
  BY <1>10 DEF StaleStreamWatched
<1> QED BY <1>4, <1>5, <1>6, <1>7, <1>8, <1>9, <1>11 DEF SerialInv

\* A force_stop_stream of the key k goes on, or begins.
LEMMA CallbackKeeps ==
  ASSUME MonitorInv, MonitorInv', SerialInv, NEW k \in Key,
         NEW c, callback' = [callback EXCEPT ![k] = c],
         Quiet(k), pinger.step = "idle",
         UNCHANGED <<listener, pinger>>, Interruptions' \in {Interruptions, Interruptions + 1},
         Touches(k, table, table'), Stated(table'), Repeats(k),
         jobs' \ {k} = jobs \ {k}, timed' \ {k} = timed \ {k},
         Minded(k, c)',
         \A i \in RowsOf(table', k) : Spare(i)' \/ ForcedBy(c, i),
         c.step = "idle" /\ k \in timed' /\ RowsOf(table', k) # {} => k \in jobs'
  PROVE  SerialInv'
<1>1. callback'[k] = c /\ \A j \in Key \ {k} : callback'[j] = callback[j]
  BY DEF MonitorInv, Typed
<1>2. \A j \in Key \ {k} : RowsOf(table', j) = RowsOf(table, j)
  BY DEF Touches
<1>3. \A j \in Key \ {k} : \A i \in RowsOf(table, j) :
        i \in Nat /\ Times(history', i) = Times(history, i) /\ (Spare(i) => Spare(i)')
  <2>1. ASSUME NEW j \in Key \ {k}, NEW i \in RowsOf(table, j)
        PROVE  i \in Nat /\ Times(history', i) = Times(history, i)
    BY OneKey, IdsAre DEF Repeats
  <2>2. ASSUME NEW i \in Nat, Times(history', i) = Times(history, i), Spare(i)
        PROVE  Spare(i)'
    BY <2>2, SpareStays
  <2> QED BY <2>1, <2>2
<1>4. Alone'
  BY <1>1 DEF SerialInv, Alone, Quiet
<1>5. ASSUME NEW j \in Key
      PROVE  Minded(j, callback[j])'
  <2>1. CASE j = k
    BY <1>1, <2>1 DEF Minded, Spare
  <2>2. CASE j # k
    <3>1. Minded(j, callback[j])
      BY DEF SerialInv
    <3> QED BY <1>1, <1>2, <1>3, <2>2, <3>1 DEF Minded
  <2> QED BY <2>1, <2>2
<1>6. ASSUME NEW l \in Listener
      PROVE  Minding(listener[l])'
  <2>1. CASE listener[l].todo = <<>>
    BY <2>1 DEF Minding
  <2>2. CASE listener[l].todo # <<>>
    <3>1. listener[l].key \in Key \ {k}
      BY <2>2, PopIs DEF Quiet, Handling
    <3>2. Minding(listener[l])
      BY DEF SerialInv
    <3>3. PICK h : h = listener[l]
      OBVIOUS
    <3>4. PICK j \in Key \ {k} : j = h.key
      BY <3>1, <3>3
    <3>5. /\ (j \in jobs' <=> j \in jobs) /\ (j \in timed' <=> j \in timed)
          /\ RowsOf(table', j) = RowsOf(table, j)
          /\ \A i \in RowsOf(table, j) : Spare(i) => Spare(i)'
      BY <1>2, <1>3
    <3>6. Minding(h)'
      BY <3>2, <3>3, <3>4, <3>5 DEF Minding, InTable
    <3> QED BY <3>3, <3>6 DEF Minding, Spare
  <2> QED BY <2>1, <2>2
<1>7. Checkable(pinger)'
  BY DEF Checkable
<1>8. ASSUME NEW i \in Ids'
      PROVE  Spare(i)' \/ Closing(i)'
  <2>1. PICK j \in Key : i \in RowsOf(table', j)
    <3>1. \A i1 \in DOMAIN table'.rows : table'.rows[i1].key \in Key
      BY DEF MonitorInv, Kept, Table, Row
    <3> QED BY <3>1 DEF Ids, RowsOf
  <2>2. CASE j = k
    BY <1>1, <2>1, <2>2 DEF Closing
  <2>3. CASE j # k
    <3>1. i \in RowsOf(table, j) /\ i \notin RowsOf(table, k) /\ i \in Ids
      BY <1>2, <2>1, <2>3, OneKey, IdsAre
    <3>2. ~ForcedBy(callback[k], i)
      BY <3>1 DEF SerialInv, Minded, ForcedBy
    <3>3. ~CheckedBy(pinger, i)
      BY DEF CheckedBy
    <3>4. Spare(i) \/ Closing(i)
      BY <3>1 DEF SerialInv
    <3>5. \/ Spare(i)
          \/ \E m \in Key \ {k} : ForcedBy(callback[m], i)
          \/ \E l \in Listener : ClosedBy(listener[l], i)
      BY <3>2, <3>3, <3>4 DEF Closing
    <3> QED BY <1>1, <1>3, <2>3, <3>1, <3>5 DEF Closing
  <2> QED BY <2>2, <2>3
<1>9. Interruptions' \in Nat /\ \A i \in Nat : Times(history', i) <= Interruptions' + 1
  BY DEF Repeats, SerialInv
<1>10. ASSUME NEW j \in timed', RowsOf(table', j) # {}
       PROVE  Watched(j)'
  <2>1. CASE j = k
    BY <1>1, <1>10, <2>1 DEF Watched
  <2>2. CASE j # k
    <3>1. j \in timed /\ j \in Key /\ (j \in jobs <=> j \in jobs') /\ RowsOf(table, j) # {}
      BY <1>2, <1>10, <2>2 DEF MonitorInv, Typed
    <3>2. Watched(j)
      BY <3>1 DEF SerialInv, StaleStreamWatched
    <3> QED BY <1>1, <2>2, <3>1, <3>2 DEF Watched, Quiet
  <2> QED BY <2>1, <2>2
<1>11. StaleStreamWatched'
  BY <1>10 DEF StaleStreamWatched
<1> QED BY <1>4, <1>5, <1>6, <1>7, <1>8, <1>9, <1>11 DEF SerialInv

-----------------------------------------------------------------------------
(***************************************************************************)
(* The listener.                                                           *)
(***************************************************************************)
\* What is ahead of a handler after a step was ahead of it before.
LEMMA TodoIs ==
  ASSUME MonitorInv, NEW l \in Listener, NEW g, g = listener[l], g.todo # <<>>, NEW h, h = Pop(l)
  PROVE  /\ g \in Handling /\ Left(g, h)
         /\ Head(g.todo) \notin StartStep => Writing(g.todo)
         /\ Head(g.todo) = "record" => Recording(g.todo)
         /\ Writing(h.todo) => Writing(g.todo) /\ Head(g.todo) # "finish"
         /\ Recording(h.todo) => Recording(g.todo) /\ Head(g.todo) \notin {"record", "finish"}
         /\ Head(g.todo) = "record" => h # Rest /\ Head(h.todo) = "finish"
         /\ Head(g.todo) = "start" => h # Rest /\ Head(h.todo) = "watchdog"
         /\ h # Rest /\ Head(h.todo) = "finish" => Head(g.todo) = "record"
<1>1. g \in Handling /\ Sound(g) /\ Left(g, h)
  BY PopIs
<1>2. Orderly(g.todo) /\ g.todo \in Seq(Step)
  BY <1>1 DEF Sound, Rest, Orderly
<1>3. Head(g.todo) = g.todo[1] /\ 1 \in 1..Len(g.todo) /\ Len(g.todo) \in Nat \ {0}
  <2>1. \A s \in Seq(Step) : Head(s) = s[1]
    OBVIOUS
  <2>2. Len(g.todo) \in Nat \ {0}
    BY <1>2, EmptySeq
  <2> QED BY <1>2, <2>1, <2>2
<1>4. CASE h = Rest
  <2>1. ~Writing(h.todo) /\ ~Recording(h.todo)
    BY <1>4, EmptySeq DEF Rest, Writing, Recording
  <2>2. Head(g.todo) \notin {"record", "start"}
    BY <1>1, <1>4 DEF Left, Rest
  <2> QED BY <1>1, <1>2, <1>3, <1>4, <2>1, <2>2 DEF Writing, Recording
<1>5. CASE h # Rest
  <2>1. /\ h.todo = Tail(g.todo)
        /\ Head(h.todo) = "finish" => Head(g.todo) = "record"
        /\ h.todo # <<>> /\ h.todo \in Seq(Step)
    BY <1>1, <1>5 DEF Left, Orderly
  <2>2. /\ Len(h.todo) = Len(g.todo) - 1
        /\ \A n \in 1..Len(h.todo) : h.todo[n] = g.todo[n + 1]
    BY <1>2, <1>3, <2>1, HeadTailProperties
  <2>3. Head(h.todo) = g.todo[2]
    <3>1. \A s \in Seq(Step) : Head(s) = s[1]
      OBVIOUS
    <3>2. Len(h.todo) \in Nat \ {0}
      BY <2>1, EmptySeq
    <3> QED BY <2>1, <2>2, <3>1, <3>2
  <2>4. \A n \in 1..Len(h.todo) : n + 1 \in 1..Len(g.todo) /\ n + 1 > 1
    BY <1>3, <2>2
  <2>5. (Writing(h.todo) => Writing(g.todo)) /\ (Recording(h.todo) => Recording(g.todo))
    BY <2>2, <2>4 DEF Writing, Recording
  <2>6. Head(g.todo) = "finish" => ~Writing(h.todo)
    BY <1>2, <1>3, <2>2, <2>4 DEF Writing, Orderly
  <2>7. Recording(h.todo) => Writing(h.todo)
    BY DEF Recording, Writing, StartStep
  <2>8. Head(g.todo) = "record" => Head(h.todo) = "finish"
    BY <1>2, <1>3, <2>3 DEF Orderly
  <2>9. Head(g.todo) = "start" => Head(h.todo) = "watchdog"
    BY <1>2, <1>3, <2>3 DEF Orderly
  <2>10. Head(g.todo) = "record" => ~Recording(h.todo)
    <3>1. ASSUME Head(g.todo) = "record", NEW n \in 1..Len(h.todo)
          PROVE  h.todo[n] # "record"
      <4>1. CASE n = 1
        BY <2>2, <2>3, <2>8, <3>1, <4>1
      <4>2. CASE n # 1
        <5>1. 2 \in 1..Len(g.todo) /\ g.todo[2] = "finish" /\ n + 1 > 2
          BY <1>3, <2>2, <2>3, <2>8, <3>1, <4>2
        <5>2. g.todo[n + 1] \in StartStep
          BY <1>2, <2>4, <5>1 DEF Orderly
        <5> QED BY <2>2, <5>2 DEF StartStep
      <4> QED BY <4>1, <4>2
    <3> QED BY <3>1 DEF Recording
  <2>11. /\ Head(g.todo) \notin StartStep => Writing(g.todo)
         /\ Head(g.todo) = "record" => Recording(g.todo)
    BY <1>3 DEF Writing, Recording
  <2> QED BY <1>1, <1>5, <2>1, <2>5, <2>6, <2>7, <2>8, <2>9, <2>10, <2>11
<1> QED BY <1>4, <1>5

\* While the listener handles an event of a key, no other thread is at work on it.
LEMMA HandledAlone ==
  ASSUME MonitorInv, SerialInv, Serial, NEW l \in Listener, NEW g, g = listener[l], g.todo # <<>>
  PROVE  /\ Listener = {l} /\ g.key \in Key /\ pinger.step = "idle" /\ callback[g.key].step = "idle"
         /\ Minding(g)
         /\ \A i \in RowsOf(table, g.key) : i \in Nat /\ (Spare(i) \/ ClosedBy(g, i))
<1>1. Listener = {l}
  BY DEF Serial
<1>2. g.key \in Key
  BY PopIs DEF Handling
<1>3. pinger.step = "idle" /\ callback[g.key].step = "idle"
  BY <1>2 DEF SerialInv, Alone, Quiet
<1>4. ASSUME NEW i \in RowsOf(table, g.key)
      PROVE  i \in Nat /\ (Spare(i) \/ ClosedBy(g, i))
  <2>1. i \in Ids /\ i \in Nat
    BY <1>2, IdsAre
  <2>2. ASSUME NEW k \in Key, ForcedBy(callback[k], i)
        PROVE  FALSE
    <3>1. i \in RowsOf(table, k) /\ k # g.key
      BY <1>3, <2>2 DEF SerialInv, Minded, ForcedBy
    <3> QED BY <3>1, OneKey
  <2>3. ~CheckedBy(pinger, i)
    BY <1>3 DEF CheckedBy
  <2> QED BY <1>1, <2>1, <2>2, <2>3 DEF SerialInv, Closing
<1> QED BY <1>1, <1>2, <1>3, <1>4 DEF SerialInv

\* Steps before the write, and those that start a session.
LEMMA HandlerAdds ==
  ASSUME MonitorInv, MonitorInv', SerialInv, Serial, NEW l \in Listener,
         NEW g, g = listener[l], g.todo # <<>>, Head(g.todo) \notin {"record", "finish", "watchdog"},
         NEW h, h = Pop(l), Adds(g.key, table, table'),
         Head(g.todo) = "look" => UNCHANGED table,
         NEW new, listener' = [listener EXCEPT ![l] = new], new.todo = h.todo,
         new.todo # <<>> => new.key = g.key,
         Recording(new.todo) => InTable(table', g.key, new.row),
         UNCHANGED <<history, Interruptions, timers, callback, pinger>>
  PROVE  SerialInv'
<1>1. PICK k : k = g.key
  OBVIOUS
<1>2. /\ Listener = {l} /\ k \in Key /\ pinger.step = "idle" /\ callback[k].step = "idle"
      /\ Minding(g)
      /\ \A i \in RowsOf(table, k) : i \in Nat /\ (Spare(i) \/ ClosedBy(g, i))
  BY <1>1, HandledAlone
<1>3. /\ Left(g, h)
      /\ Head(g.todo) \notin StartStep => Writing(g.todo)
      /\ Writing(h.todo) => Writing(g.todo)
      /\ Head(g.todo) = "start" => h # Rest /\ Head(h.todo) = "watchdog"
  BY TodoIs
<1>4. Touches(k, table, table') /\ RowsOf(table, k) \subseteq RowsOf(table', k) /\ Stated(table')
  BY <1>1 DEF Adds, SerialInv
<1>5. ASSUME NEW i \in RowsOf(table', k)
      PROVE  Spare(i)' /\ i \in Nat
  <2>0. i \in Nat
    BY <1>5 DEF MonitorInv, Kept, Table, RowsOf
  <2>1. CASE i \in RowsOf(table, k)
    BY <1>2, <2>0, <2>1 DEF ClosedBy, Spare
  <2>2. CASE i \notin RowsOf(table, k)
    <3>1. i \notin DOMAIN table.rows
      <4>1. \A j \in Key \ {k} : i \in RowsOf(table, j) => FALSE
        BY <1>4, <1>5, OneKey DEF Touches
      <4>2. i \in Ids => \E j \in Key : i \in RowsOf(table, j)
        BY IdsAre
      <4> QED BY <2>2, <4>1, <4>2 DEF Ids
    <3>2. i >= table.next
      BY <1>4, <1>5, <3>1 DEF Touches, RowsOf
    <3>3. Times(history, i) = 0
      BY <2>0, <3>2, IdsAre
    <3>4. 0 <= Interruptions
      BY <2>0, <3>3 DEF SerialInv
    <3> QED BY <2>0, <3>3, <3>4 DEF Spare
  <2> QED BY <2>1, <2>2
<1>6. Minding(new)'
  <2>1. ASSUME new.todo # <<>>
        PROVE  /\ Writing(new.todo) => k \in jobs /\ RowsOf(table', k) # {}
               /\ Head(new.todo) # "finish"
               /\ k \in timed /\ RowsOf(table', k) # {} => k \in jobs \/ Head(new.todo) = "watchdog"
    <3>1. Writing(new.todo) => k \in jobs /\ RowsOf(table', k) # {}
      BY <1>1, <1>2, <1>3, <1>4 DEF Minding
    <3>2. Head(new.todo) # "finish"
      BY <1>3, <2>1 DEF Left, Rest
    <3>3. CASE Head(g.todo) \notin StartStep
      BY <1>1, <1>2, <1>3, <3>1, <3>2, <3>3 DEF Minding
    <3>4. CASE Head(g.todo) = "start"
      BY <1>3, <3>1, <3>2, <3>4
    <3>5. CASE Head(g.todo) = "look"
      BY <1>1, <1>2, <3>1, <3>2, <3>5 DEF Minding
    <3> QED BY <3>3, <3>4, <3>5 DEF StartStep
  <2>2. Recording(new.todo) => new.todo # <<>> /\ InTable(table', k, new.row) /\ Spare(new.row.id)'
    BY <1>1, <1>5, EmptySeq DEF Recording, InTable
  <2> QED BY <1>1, <2>1, <2>2 DEF Minding, timers
<1>7. Repeats(k)
  BY DEF Repeats, SerialInv
<1>8. new.todo = <<>> /\ k \in timed' /\ RowsOf(table', k) # {} => k \in jobs'
  <2>1. CASE Head(g.todo) \notin StartStep
    BY <1>1, <1>2, <1>3, <2>1 DEF Minding, timers
  <2>2. CASE Head(g.todo) = "start"
    BY <1>3, <2>2 DEF Left, Rest
  <2>3. CASE Head(g.todo) = "look"
    BY <1>1, <1>2, <2>3 DEF Minding, timers
  <2> QED BY <2>1, <2>2, <2>3 DEF StartStep
<1>9. jobs' \ {k} = jobs \ {k} /\ timed' \ {k} = timed \ {k}
  BY DEF timers
<1> QED BY <1>1, <1>2, <1>4, <1>5, <1>6, <1>7, <1>8, <1>9, ListenerKeeps

\* The first row is in the table.
LEMMA FirstInTable ==
  ASSUME NEW t, Table(t), NEW k, RowsOf(t, k) # {}, NEW row, row = FirstRow(t, k)
  PROVE  InTable(t, k, row) /\ row \in Row
<1>1. PICK i \in RowsOf(t, k) : row = t.rows[i]
  BY FirstRowIs
<1> QED BY <1>1 DEF Table, RowsOf, InTable

\* update_db_session, in an update or a start.
LEMMA WriteLiveAdds ==
  ASSUME MonitorInv, MonitorInv', SerialInv, Serial, NEW l \in Listener,
         listener[l].todo # <<>>, Head(listener[l].todo) \in {"update", "start"},
         NEW live \in Item \cup {NoItem}, WriteLive(l, live),
         UNCHANGED <<timers, callback, pinger, fates, Interruptions>>
  PROVE  SerialInv'
<1>1. PICK g : g = listener[l] /\ g \in Handling
  BY TodoIs
<1>2. PICK k \in Key : k = g.key
  BY <1>1 DEF Handling
<1>3. PICK state \in State : state = g.state
  BY <1>1 DEF Handling
<1>4. PICK h : h = Pop(l) /\ Left(g, h)
  BY <1>1, TodoIs
<1> DEFINE seen == IF live = NoItem THEN table ELSE WriteSession(table, k, live, state)
<1>5. Adds(k, table, seen)
  BY WriteSessionAdds, Restated DEF MonitorInv, Kept
<1>6. table' = SetState(seen, k, state)
  BY <1>1, <1>2, <1>3 DEF WriteLive
<1>7. Adds(k, table, table') /\ RowsOf(table', k) # {}
  <2> HIDE DEF seen
  <2>1. Table(table) /\ Table(seen)
    BY <1>5 DEF Adds, MonitorInv, Kept
  <2>2. Adds(k, seen, table') /\ RowsOf(table', k) # {}
    BY <1>6, <2>1, SetStateAdds, SetStateGrows
  <2> QED BY <1>5, <2>1, <2>2, AddsTwice
<1>8. PICK row : row = FirstRow(table', k)
  OBVIOUS
<1>9. InTable(table', k, row)
  BY <1>7, <1>8, FirstInTable DEF Adds
<1> DEFINE more == [h EXCEPT !.live = live, !.row = row]
<1>10. PICK new : new = IF h.todo = <<>> THEN h ELSE more
  OBVIOUS
<1>11. listener' = [listener EXCEPT ![l] = new]
  BY <1>1, <1>2, <1>4, <1>8, <1>10 DEF WriteLive
<1>12. /\ new.todo = h.todo
       /\ new.todo # <<>> => new.key = k /\ new.row = row
  <2>1. h.todo # <<>> => h \in Handling /\ h.key = k
    BY <1>2, <1>4 DEF Left, Rest
  <2>2. h.todo # <<>> => more.todo = h.todo /\ more.key = h.key /\ more.row = row
    BY <2>1 DEF Handling
  <2> HIDE DEF more
  <2> QED BY <1>10, <2>1, <2>2
<1>13. Recording(new.todo) => new.todo # <<>>
  BY EmptySeq DEF Recording
<1>14. UNCHANGED <<history, Interruptions, timers, callback, pinger>>
  BY DEF fates, records
<1> HIDE DEF more, seen
<1> QED BY <1>1, <1>2, <1>4, <1>7, <1>9, <1>11, <1>12, <1>13, <1>14, HandlerAdds DEF InTable

\* A start that sees nothing.
LEMMA HandlerStops ==
  ASSUME MonitorInv, MonitorInv', SerialInv, Serial, NEW l \in Listener,
         listener[l].todo # <<>>, Head(listener[l].todo) \in {"look", "start"},
         listener' = [listener EXCEPT ![l] = Rest],
         UNCHANGED <<table, timers, callback, pinger, fates, Interruptions>>
  PROVE  SerialInv'
<1>1. PICK g : g = listener[l]
  OBVIOUS
<1>2. PICK k \in Key : k = g.key
  BY <1>1, HandledAlone
<1>3. /\ Listener = {l} /\ pinger.step = "idle" /\ callback[k].step = "idle" /\ Minding(g)
      /\ \A i \in RowsOf(table, k) : i \in Nat /\ (Spare(i) \/ ClosedBy(g, i))
  BY <1>1, <1>2, HandledAlone
<1>4. Rest.todo = <<>>
  BY DEF Rest
<1>5. Touches(k, table, table') /\ Stated(table') /\ Repeats(k)
  BY DEF Touches, SerialInv, Repeats, fates, records
<1>6. \A i \in RowsOf(table', k) : Spare(i)'
  BY <1>1, <1>3 DEF ClosedBy, Spare, fates, records
<1>7. k \in timed' /\ RowsOf(table', k) # {} => k \in jobs'
  BY <1>1, <1>2, <1>3 DEF Minding, timers
<1>8. Minding(Rest)'
  BY <1>4 DEF Minding
<1>9. jobs' \ {k} = jobs \ {k} /\ timed' \ {k} = timed \ {k}
  BY DEF timers
<1>10. PICK h : h = Rest
  OBVIOUS
<1> QED BY <1>1, <1>2, <1>3, <1>4, <1>5, <1>6, <1>7, <1>8, <1>9, <1>10, ListenerKeeps

LEMMA HandlerReadsSerial ==
  ASSUME MonitorInv, MonitorInv', SerialInv, Serial, NEW l \in Listener,
         HandlerUpdate(l) \/ HandlerStart(l) \/ HandlerLook(l)
  PROVE  SerialInv'
<1>1. listener[l].todo # <<>> /\ UNCHANGED <<timers, callback, pinger, fates, Interruptions>>
  BY DEF HandlerUpdate, HandlerStart, HandlerLook, At, bounds, Interruptions
<1>2. CASE HandlerUpdate(l)
  <2>1. PICK live \in Look(l) :
          WriteLive(l, IF listener[l].live = NoItem THEN live ELSE listener[l].live)
    BY <1>2 DEF HandlerUpdate
  <2>2. PICK chosen : chosen = IF listener[l].live = NoItem THEN live ELSE listener[l].live
    OBVIOUS
  <2>3. chosen \in Item \cup {NoItem} /\ WriteLive(l, chosen)
    BY <1>1, <2>1, <2>2, LookIs
  <2>4. Head(listener[l].todo) \in {"update", "start"}
    BY <1>2 DEF HandlerUpdate, At
  <2> QED BY <1>1, <2>3, <2>4, WriteLiveAdds
<1>3. CASE HandlerStart(l)
  <2>1. PICK live \in Look(l) :
          IF live = NoItem
          THEN /\ listener' = [listener EXCEPT ![l] = Rest]
               /\ UNCHANGED table
          ELSE WriteLive(l, live)
    BY <1>3 DEF HandlerStart, Rest
  <2>2. Head(listener[l].todo) = "start"
    BY <1>3 DEF HandlerStart, At
  <2>3. CASE live = NoItem
    BY <1>1, <2>1, <2>2, <2>3, HandlerStops
  <2>4. CASE live # NoItem
    BY <1>1, <2>1, <2>2, <2>4, LookIs, WriteLiveAdds
  <2> QED BY <2>3, <2>4
<1>4. CASE HandlerLook(l)
  <2>1. PICK live \in Look(l) :
          listener' = [listener EXCEPT ![l] =
            IF live = NoItem THEN Rest ELSE [Pop(l) EXCEPT !.live = live]]
    BY <1>4 DEF HandlerLook, Rest
  <2>2. Head(listener[l].todo) = "look" /\ UNCHANGED table
    BY <1>4 DEF HandlerLook, At
  <2>3. CASE live = NoItem
    BY <1>1, <2>1, <2>2, <2>3, HandlerStops
  <2>4. CASE live # NoItem
    <3>1. PICK g : g = listener[l] /\ g \in Handling
      BY <1>1, TodoIs
    <3>2. PICK h : h = Pop(l) /\ Left(g, h)
      BY <1>1, <3>1, TodoIs
    <3>3. h \in Handling /\ h.key = g.key /\ h.row = g.row
      BY <2>2, <3>1, <3>2 DEF Left
    <3>4. PICK new : new = [h EXCEPT !.live = live]
      OBVIOUS
    <3>5. new.todo = h.todo /\ new.key = h.key /\ new.row = h.row
      BY <3>3, <3>4 DEF Handling
    <3>6. listener' = [listener EXCEPT ![l] = new]
      BY <2>1, <2>4, <3>2, <3>4
    <3>7. Adds(g.key, table, table')
      BY <2>2, Restated DEF MonitorInv, Kept
    <3>8. Recording(new.todo) => InTable(table', g.key, new.row)
      <4>1. Recording(h.todo) => Recording(g.todo)
        BY <1>1, <3>1, <3>2, TodoIs
      <4>2. Minding(g)
        BY <3>1 DEF SerialInv
      <4> QED BY <1>1, <2>2, <3>1, <3>3, <3>5, <4>1, <4>2 DEF Minding
    <3>9. UNCHANGED <<history, Interruptions, timers, callback, pinger>>
      BY <1>1 DEF fates, records
    <3> QED BY <1>1, <2>2, <3>1, <3>2, <3>3, <3>5, <3>6, <3>7, <3>8, <3>9, HandlerAdds
  <2> QED BY <2>3, <2>4
<1> QED BY <1>2, <1>3, <1>4

\* A pause, a resumption, and the end of a session: its row is in the table.
LEMMA HandlerWritesSerial ==
  ASSUME MonitorInv, MonitorInv', SerialInv, Serial, NEW l \in Listener,
         HandlerPaused(l) \/ HandlerSettle(l)
  PROVE  SerialInv'
<1>1. listener[l].todo # <<>> /\ Head(listener[l].todo) \in {"pause", "resume", "touch", "settle"}
  BY DEF HandlerPaused, HandlerSettle, At
<1>2. PICK g : g = listener[l] /\ g \in Handling
  BY <1>1, TodoIs
<1>3. PICK h : h = Pop(l) /\ Left(g, h)
  BY <1>1, <1>2, TodoIs
<1>4. PICK k \in Key : k = g.key
  BY <1>2 DEF Handling
<1>5. RowsOf(table, k) # {} /\ (Recording(h.todo) => InTable(table, k, g.row))
  <2>1. Minding(g) /\ Writing(g.todo) /\ (Recording(h.todo) => Recording(g.todo))
    BY <1>1, <1>2, <1>3, TodoIs DEF SerialInv, StartStep
  <2> QED BY <1>1, <1>2, <1>4, <2>1 DEF Minding
<1>6. Table(table)
  BY DEF MonitorInv, Kept
<1>7. UNCHANGED <<history, Interruptions, timers, callback, pinger>>
  BY DEF HandlerPaused, HandlerSettle, fates, records, bounds, Interruptions
<1>8. CASE HandlerPaused(l)
  <2>1. PICK paused \in BOOLEAN : table' = SetLastPaused(table, k, paused)
    BY <1>2, <1>4, <1>8 DEF HandlerPaused, At
  <2>2. Adds(k, table, table')
    BY <1>5, <1>6, <2>1, SetLastPausedAdds
  <2>3. listener' = [listener EXCEPT ![l] = h]
    BY <1>3, <1>8 DEF HandlerPaused, Advance
  <2>4. /\ h.todo # <<>> => h.key = k
        /\ Recording(h.todo) => InTable(table', k, h.row)
    <3>1. Recording(h.todo) => h.todo # <<>>
      BY EmptySeq DEF Recording
    <3> QED BY <1>3, <1>4, <1>5, <2>2, <3>1 DEF Left, Rest, Adds, InTable
  <2> QED BY <1>1, <1>2, <1>3, <1>4, <1>7, <2>2, <2>3, <2>4, HandlerAdds
<1>9. CASE HandlerSettle(l)
  <2>1. PICK row : row = FirstRow(table', k)
    OBVIOUS
  <2> DEFINE calm == SetLastPaused(table, k, FALSE)
  <2>2. PICK new : new = [h EXCEPT !.row = row]
    OBVIOUS
  <2>3. table' = SetState(calm, k, "stopped") /\ listener' = [listener EXCEPT ![l] = new]
    BY <1>2, <1>3, <1>4, <1>9, <2>1, <2>2 DEF HandlerSettle
  <2>4. Adds(k, table, table') /\ RowsOf(table', k) # {}
    <3>1. Adds(k, table, calm) /\ Table(calm) /\ "stopped" \in State
      BY <1>5, <1>6, SetLastPausedAdds DEF Adds, State
    <3> HIDE DEF calm
    <3>2. Adds(k, calm, table') /\ RowsOf(table', k) # {}
      BY <2>3, <3>1, SetStateAdds, SetStateGrows
    <3> QED BY <1>6, <3>1, <3>2, AddsTwice
  <2>5. InTable(table', k, row)
    BY <2>1, <2>4, FirstInTable DEF Adds
  <2>6. Head(g.todo) = "settle"
    BY <1>2, <1>9 DEF HandlerSettle, At
  <2>7. new.todo = h.todo /\ new.key = k /\ new.row = row
    <3>1. h \in Handling /\ h.key = k
      BY <1>3, <1>4, <2>6 DEF Left
    <3> QED BY <2>2, <3>1 DEF Handling
  <2>8. /\ Adds(g.key, table, table') /\ listener' = [listener EXCEPT ![l] = new]
        /\ new.todo = h.todo /\ new.key = g.key /\ InTable(table', g.key, new.row)
    BY <1>4, <2>3, <2>4, <2>5, <2>7
  <2> HIDE DEF calm
  <2> QED BY <1>1, <1>2, <1>3, <1>7, <2>6, <2>8, HandlerAdds
<1> QED BY <1>8, <1>9

\* write_session_history for a row that is in the table, or that has a state.
LEMMA Stamped ==
  ASSUME MonitorInv, NEW row \in Row, table' \in Stamp(row),
         InTable(table, row.key, row) \/ row.state # NoState
  PROVE  Adds(row.key, table, table') /\ \A j : RowsOf(table', j) = RowsOf(table, j)
<1>1. Table(table) /\ row.key \in Key /\ "stopped" \in State
  BY DEF MonitorInv, Kept, Row, State
<1>2. CASE table' = table
  BY <1>1, <1>2, Restated
<1>3. CASE row.state = NoState /\ table' = SetState(table, row.key, "stopped")
  <2>1. RowsOf(table, row.key) # {}
    BY <1>3 DEF InTable
  <2> QED BY <1>1, <1>3, <2>1, SetStateAdds
<1> QED BY <1>2, <1>3 DEF Stamp

\* It adds the row to the history once, or not at all.
LEMMA Repeated ==
  ASSUME MonitorInv, SerialInv, NEW row \in Row, Spare(row.id),
         RecordOk(row) \/ RecordFails(row) \/ RecordRaises(row)
  PROVE  /\ \A i \in Nat \ {row.id} : Times(history', i) = Times(history, i)
         /\ \A i \in Nat : Times(history', i) <= Interruptions + 1
         /\ RecordFails(row) => history' = history
<1>1. row.id \in Nat /\ history \in Seq(Nat) /\ Interruptions \in Nat
  BY DEF Row, MonitorInv, Kept, SerialInv
<1>2. \A i \in Nat : Times(history, i) \in Nat /\ Times(history, i) <= Interruptions + 1
  BY <1>1, TimesIs DEF SerialInv
<1>3. RecordFails(row) => history' = history
  BY DEF RecordFails
<1>4. CASE history' = history
  BY <1>2, <1>4
<1>5. CASE history' = Append(history, row.id)
  <2>1. \A i \in Nat : Times(history', i) = IF i = row.id THEN Times(history, i) + 1 ELSE Times(history, i)
    BY <1>1, <1>5, TimesAppended
  <2>2. \A i \in Nat \ {row.id} : Times(history', i) = Times(history, i)
    BY <2>1
  <2>3. Times(history', row.id) <= Interruptions + 1
    <3>1. PICK t \in Nat : t = Times(history, row.id) /\ t <= Interruptions
      BY <1>1, <1>2 DEF Spare
    <3> QED BY <1>1, <2>1, <3>1
  <2>4. \A i \in Nat : Times(history', i) <= Interruptions + 1
    BY <1>2, <2>2, <2>3
  <2> QED BY <1>3, <2>2, <2>4
<1>6. history' = history \/ history' = Append(history, row.id)
  BY DEF RecordOk, RecordFails, RecordRaises
<1> QED BY <1>3, <1>4, <1>5, <1>6

\* An exception that ends a handler or a job allows each row one write more.
LEMMA Interrupted ==
  ASSUME MonitorInv, MonitorInv', SerialInv, Counted, Break, restarts' = restarts, NEW k \in Key,
         \A i \in Nat \ RowsOf(table, k) : Times(history', i) = Times(history, i),
         \A i \in Nat : Times(history', i) <= Interruptions + 1
  PROVE  /\ Interruptions' = Interruptions + 1
         /\ Repeats(k)
         /\ \A i \in Nat : Spare(i)'
<1>1. PICK n \in Nat : n = Interruptions
  BY DEF Counted, Interruptions
<1>2. Interruptions' = n + 1
  BY <1>1 DEF Counted, Interruptions, Break
<1>3. ASSUME NEW i \in Nat
      PROVE  Times(history', i) <= n + 1 /\ Times(history', i) <= (n + 1) + 1
  <2>1. PICK t \in Nat : t = Times(history', i)
    BY TimesIs DEF MonitorInv, Kept
  <2>2. t <= n + 1
    BY <1>1, <2>1
  <2> QED BY <2>1, <2>2
<1> QED BY <1>1, <1>2, <1>3 DEF Repeats, Spare

\* on_stop writes.
LEMMA HandlerRecordSerial ==
  ASSUME MonitorInv, MonitorInv', SerialInv, Serial, NEW l \in Listener, HandlerRecord(l)
  PROVE  SerialInv'
<1>1. listener[l].todo # <<>> /\ Head(listener[l].todo) = "record"
  BY DEF HandlerRecord, At
<1>2. PICK g : g = listener[l] /\ g \in Handling
  BY <1>1, TodoIs
<1>3. PICK h : h = Pop(l) /\ Left(g, h)
  BY <1>1, <1>2, TodoIs
<1>4. PICK k \in Key : k = g.key
  BY <1>2 DEF Handling
<1>5. /\ Listener = {l} /\ pinger.step = "idle" /\ callback[k].step = "idle" /\ Minding(g)
      /\ \A i \in RowsOf(table, k) : i \in Nat /\ (Spare(i) \/ ClosedBy(g, i))
  BY <1>1, <1>2, <1>4, HandledAlone
<1>6. /\ Recording(g.todo) /\ Writing(g.todo)
      /\ ~Recording(h.todo) /\ h # Rest /\ Head(h.todo) = "finish"
  <2>1. "record" \notin StartStep
    BY DEF StartStep
  <2> QED BY <1>1, <1>2, <1>3, <2>1, TodoIs
<1>7. PICK row : row = g.row
  OBVIOUS
<1>8. /\ k \in jobs /\ InTable(table, k, row) /\ Spare(row.id)
  BY <1>1, <1>2, <1>4, <1>5, <1>6, <1>7 DEF Minding
<1>9. row \in Row
  <2>1. Sound(g)
    BY <1>2 DEF MonitorInv
  <2>2. \E n \in 1..Len(g.todo) : g.todo[n] = "record"
    BY <1>6 DEF Recording
  <2> QED BY <1>1, <1>2, <1>7, <2>1, <2>2 DEF Sound, Rest, Held
<1>10. RecordOk(row) \/ RecordFails(row)
  BY <1>2, <1>7 DEF HandlerRecord
<1>11. Adds(k, table, table') /\ RowsOf(table', k) = RowsOf(table, k)
  <2>1. table' \in Stamp(row)
    BY <1>2, <1>7 DEF HandlerRecord
  <2> QED BY <1>8, <1>9, <2>1, Stamped DEF InTable
<1>12. /\ \A i \in Nat \ {row.id} : Times(history', i) = Times(history, i)
       /\ \A i \in Nat : Times(history', i) <= Interruptions + 1
       /\ RecordFails(row) => history' = history
  BY <1>8, <1>9, <1>10, Repeated
<1>13. PICK new : /\ listener' = [listener EXCEPT ![l] = new]
                  /\ new.todo = h.todo /\ new.row = row /\ new.key = k
                  /\ new.saved \/ RecordFails(row)
  <2>1. h \in Handling /\ h.row = row /\ h.key = k
    BY <1>3, <1>4, <1>6, <1>7 DEF Left
  <2> DEFINE done == [h EXCEPT !.saved = TRUE]
             failed == [h EXCEPT !.saved = FALSE]
  <2>2. /\ done.todo = h.todo /\ done.row = row /\ done.key = k /\ done.saved
        /\ failed.todo = h.todo /\ failed.row = row /\ failed.key = k
    BY <2>1 DEF Handling
  <2>3. \/ listener' = [listener EXCEPT ![l] = done]
        \/ listener' = [listener EXCEPT ![l] = failed] /\ RecordFails(row)
    BY <1>2, <1>3, <1>7 DEF HandlerRecord
  <2> HIDE DEF done, failed
  <2> QED BY <2>2, <2>3
<1>14. Touches(k, table, table') /\ Stated(table') /\ Repeats(k)
  <2>1. Interruptions' = Interruptions
    BY DEF HandlerRecord, bounds, Interruptions
  <2> QED BY <1>8, <1>11, <1>12, <2>1 DEF Adds, SerialInv, Repeats, InTable
<1>15. Minding(new)'
  BY <1>4, <1>5, <1>6, <1>8, <1>11, <1>13 DEF Minding, InTable, HandlerRecord, timers
<1>16. ASSUME NEW i \in RowsOf(table', k)
       PROVE  Spare(i)' \/ ClosedBy(new, i)
  <2>1. CASE i = row.id
    <3>1. CASE new.saved
      BY <1>3, <1>6, <1>13, <2>1, <3>1 DEF ClosedBy, Left
    <3>2. CASE RecordFails(row)
      BY <1>8, <1>12, <2>1, <3>2 DEF Spare, HandlerRecord, bounds, Interruptions
    <3> QED BY <1>13, <3>1, <3>2
  <2>2. CASE i # row.id
    <3>1. i \in Nat /\ Spare(i)
      BY <1>1, <1>2, <1>5, <1>11, <1>16 DEF ClosedBy
    <3> QED BY <1>12, <2>2, <3>1 DEF Spare, HandlerRecord, bounds, Interruptions
  <2> QED BY <2>1, <2>2
<1>17. /\ jobs' \ {k} = jobs \ {k} /\ timed' \ {k} = timed \ {k}
       /\ UNCHANGED <<callback, pinger, Interruptions>>
  BY DEF HandlerRecord, timers, bounds, Interruptions
<1>18. new.todo # <<>>
  BY <1>3, <1>6, <1>13 DEF Left
<1> QED BY <1>1, <1>2, <1>4, <1>5, <1>13, <1>14, <1>15, <1>16, <1>17, <1>18, ListenerKeeps

\* on_stop removes the row that it wrote, or sets a timer.
LEMMA HandlerFinishSerial ==
  ASSUME MonitorInv, MonitorInv', SerialInv, Serial, NEW l \in Listener, HandlerFinish(l)
  PROVE  SerialInv'
<1>1. listener[l].todo # <<>> /\ Head(listener[l].todo) = "finish"
  BY DEF HandlerFinish, At
<1>2. PICK g : g = listener[l] /\ g \in Handling
  BY <1>1, TodoIs
<1>3. PICK h : h = Pop(l) /\ Left(g, h)
  BY <1>1, <1>2, TodoIs
<1>4. PICK k \in Key : k = g.key
  BY <1>2 DEF Handling
<1>5. /\ Listener = {l} /\ pinger.step = "idle" /\ callback[k].step = "idle" /\ Minding(g)
      /\ \A i \in RowsOf(table, k) : i \in Nat /\ (Spare(i) \/ ClosedBy(g, i))
  BY <1>1, <1>2, <1>4, HandledAlone
<1>6. /\ ~Recording(h.todo) /\ ~Writing(h.todo)
      /\ h # Rest => Head(h.todo) # "finish"
      /\ h.todo # <<>> => h # Rest /\ h.key = k
  BY <1>1, <1>2, <1>3, <1>4, TodoIs DEF Left, Rest
<1>7. listener' = [listener EXCEPT ![l] = h] /\ UNCHANGED <<callback, pinger, history, Interruptions>>
  BY <1>3 DEF HandlerFinish, Advance, records, bounds, Interruptions
<1>8. Table(table) /\ Repeats(k)
  BY <1>7 DEF MonitorInv, Kept, Repeats, SerialInv
<1>9. ASSUME Touches(k, table, table'), Stated(table'),
             \A i \in RowsOf(table', k) : Spare(i),
             jobs' \ {k} = jobs \ {k}, timed' \ {k} = timed \ {k},
             k \in timed' /\ RowsOf(table', k) # {} => k \in jobs'
      PROVE  SerialInv'
  <2>1. Minding(h)'
    BY <1>6, <1>9 DEF Minding
  <2>2. \A i \in RowsOf(table', k) : Spare(i)'
    BY <1>7, <1>9 DEF Spare
  <2> QED BY <1>1, <1>2, <1>4, <1>5, <1>6, <1>7, <1>8, <1>9, <2>1, <2>2, ListenerKeeps
<1>10. CASE g.saved
  <2>1. /\ table' = Delete(table, {g.row.id}) /\ jobs' = jobs \ {k}
        /\ timed' = IF RowsOf(table', k) = {} THEN timed ELSE timed \ {k}
    BY <1>2, <1>4, <1>10 DEF HandlerFinish, RemoveRecorded, Outlives
  <2>2. {g.row.id} \cap DOMAIN table.rows \subseteq RowsOf(table, k)
    BY <1>1, <1>2, <1>4, <1>5, <1>10 DEF Minding
  <2>3. /\ Touches(k, table, table') /\ Stated(table')
        /\ RowsOf(table', k) = RowsOf(table, k) \ {g.row.id}
    <3>1. PICK S : S = {g.row.id}
      OBVIOUS
    <3>2. /\ Touches(k, table, Delete(table, S)) /\ RowsOf(Delete(table, S), k) = RowsOf(table, k) \ S
          /\ Stated(table) => Stated(Delete(table, S))
      BY <1>8, <2>2, <3>1, DeleteTouches
    <3> QED BY <2>1, <3>1, <3>2 DEF SerialInv
  <2>4. \A i \in RowsOf(table', k) : Spare(i)
    BY <1>5, <2>3 DEF ClosedBy
  <2> QED BY <1>9, <2>1, <2>3, <2>4
<1>11. CASE ~g.saved
  <2>1. table' = table /\ jobs' = jobs \cup {k} /\ timed' = timed \cup {k}
    BY <1>2, <1>4, <1>11 DEF HandlerFinish, Retry, SetTimer
  <2>2. \A i \in RowsOf(table', k) : Spare(i)
    BY <1>5, <1>11, <2>1 DEF ClosedBy
  <2>3. Touches(k, table, table') /\ Stated(table')
    BY <2>1 DEF Touches, SerialInv
  <2> QED BY <1>9, <2>1, <2>2, <2>3
<1> QED BY <1>10, <1>11

\* The timer of a session that started.
LEMMA HandlerWatchdogSerial ==
  ASSUME MonitorInv, MonitorInv', SerialInv, Serial, NEW l \in Listener, HandlerWatchdog(l)
  PROVE  SerialInv'
<1>1. listener[l].todo # <<>> /\ Head(listener[l].todo) = "watchdog"
  BY DEF HandlerWatchdog, At
<1>2. PICK g : g = listener[l] /\ g \in Handling
  BY <1>1, TodoIs
<1>3. PICK h : h = Pop(l) /\ Left(g, h)
  BY <1>1, <1>2, TodoIs
<1>4. PICK k \in Key : k = g.key
  BY <1>2 DEF Handling
<1>5. /\ Listener = {l} /\ pinger.step = "idle" /\ callback[k].step = "idle" /\ Minding(g)
      /\ \A i \in RowsOf(table, k) : i \in Nat /\ (Spare(i) \/ ClosedBy(g, i))
  BY <1>1, <1>2, <1>4, HandledAlone
<1>6. /\ Recording(h.todo) => Recording(g.todo)
      /\ Writing(h.todo) => Writing(g.todo)
      /\ h # Rest => Head(h.todo) # "finish" /\ h.key = k /\ h.row = g.row
      /\ h.todo # <<>> => h # Rest
  BY <1>1, <1>2, <1>3, <1>4, TodoIs DEF Left, Rest
<1>7. /\ listener' = [listener EXCEPT ![l] = h]
      /\ UNCHANGED <<table, callback, pinger, history, Interruptions>>
      /\ jobs' = jobs \cup {k} /\ timed' = timed \cup {k}
  BY <1>2, <1>3, <1>4 DEF HandlerWatchdog, Advance, SetTimer, fates, records, bounds, Interruptions
<1>8. Touches(k, table, table') /\ Stated(table') /\ Repeats(k)
  BY <1>7 DEF Touches, SerialInv, Repeats
<1>9. Minding(h)'
  BY <1>1, <1>2, <1>4, <1>5, <1>6, <1>7 DEF Minding, Spare
<1>10. \A i \in RowsOf(table', k) : Spare(i)'
  BY <1>1, <1>2, <1>5, <1>7 DEF ClosedBy, Spare
<1>11. jobs' \ {k} = jobs \ {k} /\ timed' \ {k} = timed \ {k}
  BY <1>7
<1> QED BY <1>1, <1>2, <1>4, <1>5, <1>6, <1>7, <1>8, <1>9, <1>10, <1>11, ListenerKeeps

\* An exception: the session keeps its timer, or counts as one without.
LEMMA HandlerRaisesSerial ==
  ASSUME MonitorInv, MonitorInv', SerialInv, Serial, Counted, NEW l \in Listener, HandlerRaises(l)
  PROVE  SerialInv'
<1>1. listener[l].todo # <<>> /\ Break /\ restarts' = restarts
  BY DEF HandlerRaises
<1>2. PICK g : g = listener[l] /\ g \in Handling /\ Sound(g)
  BY <1>1, PopIs
<1>3. PICK k \in Key : k = g.key
  BY <1>2 DEF Handling
<1>4. /\ Listener = {l} /\ pinger.step = "idle" /\ callback[k].step = "idle" /\ Minding(g)
      /\ \A i \in RowsOf(table, k) : i \in Nat
  BY <1>1, <1>2, <1>3, HandledAlone
<1>5. Table(table) /\ Stated(table)
  BY DEF MonitorInv, Kept, SerialInv
<1>6. /\ Touches(k, table, table') /\ Stated(table')
      /\ \A i \in Nat \ RowsOf(table, k) : Times(history', i) = Times(history, i)
      /\ \A i \in Nat : Times(history', i) <= Interruptions + 1
  <2>1. CASE At(l, "record") /\ RecordRaises(g.row) /\ table' \in Stamp(g.row)
    <3>1. Recording(g.todo) /\ Head(g.todo) = "record"
      BY <1>1, <1>2, <2>1, TodoIs DEF At
    <3>2. PICK row : row = g.row
      OBVIOUS
    <3>3. InTable(table, k, row) /\ Spare(row.id)
      BY <1>1, <1>2, <1>3, <1>4, <3>1, <3>2 DEF Minding
    <3>4. row \in Row
      <4>1. \E n \in 1..Len(g.todo) : g.todo[n] = "record"
        BY <3>1 DEF Recording
      <4> QED BY <1>1, <1>2, <3>2, <4>1 DEF Sound, Rest, Held
    <3>5. Adds(k, table, table')
      BY <2>1, <3>2, <3>3, <3>4, Stamped DEF InTable
    <3>6. /\ \A i \in Nat \ {row.id} : Times(history', i) = Times(history, i)
          /\ \A i \in Nat : Times(history', i) <= Interruptions + 1
      BY <2>1, <3>2, <3>3, <3>4, Repeated
    <3> QED BY <1>5, <3>3, <3>5, <3>6 DEF Adds, InTable
  <2>2. CASE UNCHANGED <<table, history>>
    BY <1>5, <2>2 DEF Touches, SerialInv
  <2> QED BY <1>2, <2>1, <2>2 DEF HandlerRaises
<1>7. Interruptions' = Interruptions + 1 /\ Repeats(k) /\ \A i \in Nat : Spare(i)'
  BY <1>1, <1>6, Interrupted
<1>8. PICK h : h = Rest
  OBVIOUS
<1>9. h.todo = <<>> /\ Minding(h)' /\ listener' = [listener EXCEPT ![l] = h]
  BY <1>8 DEF HandlerRaises, Rest, Minding
<1>10. /\ jobs' \ {k} = jobs \ {k} /\ timed' \ {k} = timed \ {k}
       /\ k \in timed' => k \in jobs'
       /\ UNCHANGED <<callback, pinger>>
  BY <1>2, <1>3 DEF HandlerRaises, Untimed
<1>11. \A i \in RowsOf(table', k) : Spare(i)'
  BY <1>7 DEF MonitorInv, Kept, Table, RowsOf
<1> QED BY <1>1, <1>2, <1>3, <1>4, <1>6, <1>7, <1>9, <1>10, <1>11, ListenerKeeps

\* While a force_stop_stream of a key is at work, or may begin, no other thread is.
LEMMA ForcedAlone ==
  ASSUME MonitorInv, SerialInv, NEW k \in Key, Quiet(k), pinger.step = "idle"
  PROVE  \A i \in RowsOf(table, k) : i \in Nat /\ (Spare(i) \/ ForcedBy(callback[k], i))
<1>1. ASSUME NEW i \in RowsOf(table, k)
      PROVE  i \in Nat /\ (Spare(i) \/ ForcedBy(callback[k], i))
  <2>1. i \in Ids /\ i \in Nat
    BY IdsAre
  <2>2. ASSUME NEW j \in Key, j # k, ForcedBy(callback[j], i)
        PROVE  FALSE
    <3>1. i \in RowsOf(table, j)
      BY <2>2 DEF SerialInv, Minded, ForcedBy
    <3> QED BY <2>2, <3>1, OneKey
  <2>3. ASSUME NEW l \in Listener, ClosedBy(listener[l], i)
        PROVE  FALSE
    <3>1. Minding(listener[l]) /\ listener[l].todo # <<>>
      BY <2>3 DEF SerialInv, ClosedBy
    <3>2. i \in RowsOf(table, listener[l].key) /\ listener[l].key # k
      BY <2>3, <3>1 DEF Minding, ClosedBy, Quiet
    <3> QED BY <3>2, OneKey
  <2>4. ~CheckedBy(pinger, i)
    BY DEF CheckedBy
  <2> QED BY <2>1, <2>2, <2>3, <2>4 DEF SerialInv, Closing
<1> QED BY <1>1

\* An event finds nobody at work on its key; it sets the timer if there is a row.
LEMMA ReceiveSerial ==
  ASSUME MonitorInv, MonitorInv', SerialInv, Serial, NEW l \in Listener, NEW k \in Key,
         NEW item \in Item, NEW state \in EventState, Receive(l, k, item, state)
  PROVE  SerialInv'
<1>1. Listener = {l}
  BY DEF Serial
<1>2. pinger.step = "idle" /\ callback[k].step = "idle" /\ listener[l].todo = <<>>
  <2>1. Cardinality(Listener) = 1
    BY <1>1, FS_Singleton
  <2> QED BY <2>1 DEF Receive, Undisturbed, Serial
<1>3. Quiet(k)
  BY <1>1, <1>2 DEF Quiet
<1>4. \A i \in RowsOf(table, k) : i \in Nat /\ Spare(i)
  BY <1>2, <1>3, ForcedAlone DEF ForcedBy
<1>5. PICK row : row = FirstRow(table, k)
  OBVIOUS
<1>6. /\ row # Nobody <=> RowsOf(table, k) # {}
      /\ row # Nobody => InTable(table, k, row)
  <2>1. Table(table)
    BY DEF MonitorInv, Kept
  <2>2. RowsOf(table, k) # {} => InTable(table, k, row) /\ row \in Row
    BY <1>5, <2>1, FirstInTable
  <2>3. RowsOf(table, k) = {} => row = Nobody
    BY <1>5, <2>1, FirstRowIs
  <2> QED BY <2>2, <2>3 DEF Row, Nobody
<1>7. PICK todo : /\ Beginning(todo)
                  /\ row = Nobody => Starting(todo)
                  /\ listener' = [listener EXCEPT ![l] = Begun(k, state, row, todo)]
  BY <1>5, ReceiveIs
<1>8. PICK h : h = Begun(k, state, row, todo)
  OBVIOUS
<1>9. /\ h.todo = todo
      /\ todo # <<>> => h.key = k /\ h.row = row
  BY <1>8 DEF Begun, Rest
<1>10. /\ UNCHANGED <<table, history, callback, pinger, Interruptions>>
       /\ jobs' \ {k} = jobs \ {k} /\ timed' \ {k} = timed \ {k}
       /\ row # Nobody => k \in jobs'
  BY <1>5 DEF Receive, SetTimer, timers, fates, records, Interruptions
<1>11. /\ Writing(todo) => row # Nobody
       /\ Recording(todo) => todo # <<>> /\ Writing(todo)
       /\ todo # <<>> => Head(todo) # "finish"
  <2>1. \A s \in Seq(Step) : Head(s) = s[1]
    OBVIOUS
  <2>2. todo # <<>> => Head(todo) # "finish"
    BY <1>7, <2>1 DEF Beginning, Orderly
  <2>3. Recording(todo) => todo # <<>> /\ Writing(todo)
    BY EmptySeq DEF Recording, Writing, StartStep
  <2> QED BY <1>7, <2>2, <2>3 DEF Writing, Starting
<1>12. Minding(h)'
  BY <1>4, <1>6, <1>9, <1>10, <1>11 DEF Minding, Spare, InTable
<1>13. Touches(k, table, table') /\ Stated(table') /\ Repeats(k)
  BY <1>10 DEF Touches, SerialInv, Repeats
<1>14. \A i \in RowsOf(table', k) : Spare(i)'
  BY <1>4, <1>10 DEF Spare
<1>15. PICK g : g = listener[l]
  OBVIOUS
<1>16. /\ listener' = [listener EXCEPT ![l] = h]
       /\ g.todo # <<>> => g.key = k
       /\ h.todo # <<>> => h.key = k
       /\ h.todo = <<>> /\ k \in timed' /\ RowsOf(table', k) # {} => k \in jobs'
  BY <1>2, <1>6, <1>7, <1>8, <1>9, <1>10, <1>15
<1> QED BY <1>1, <1>2, <1>10, <1>12, <1>13, <1>14, <1>15, <1>16, ListenerKeeps

-----------------------------------------------------------------------------
(***************************************************************************)
(* The scheduler's jobs.                                                   *)
(***************************************************************************)
LEMMA FireSerial ==
  ASSUME MonitorInv, MonitorInv', SerialInv, Serial, NEW k \in Key, Fire(k)
  PROVE  SerialInv'
<1>1. Quiet(k) /\ pinger.step = "idle"
  BY DEF Fire, Serial
<1>2. PICK row : row = FirstRow(table, k)
  OBVIOUS
<1>3. PICK c : c = IF callback[k].step # "idle" THEN callback[k]
                   ELSE IF row = Nobody THEN Idle
                   ELSE [step |-> "record", row |-> row, saved |-> FALSE]
  OBVIOUS
<1>4. callback' = [callback EXCEPT ![k] = c]
  BY <1>2, <1>3 DEF Fire
<1>5. \A i \in RowsOf(table, k) : i \in Nat /\ (Spare(i) \/ ForcedBy(callback[k], i))
  BY <1>1, ForcedAlone
<1>6. /\ UNCHANGED <<table, timed, listener, pinger, history, Interruptions>>
      /\ jobs' \ {k} = jobs \ {k}
  BY DEF Fire, fates, records, bounds, Interruptions
<1>7. Touches(k, table, table') /\ Stated(table') /\ Repeats(k)
  BY <1>6 DEF Touches, SerialInv, Repeats
<1>8. /\ row # Nobody <=> RowsOf(table, k) # {}
      /\ row # Nobody => InTable(table, k, row)
  <2>1. Table(table)
    BY DEF MonitorInv, Kept
  <2>2. RowsOf(table, k) # {} => InTable(table, k, row) /\ row \in Row
    BY <1>2, <2>1, FirstInTable
  <2>3. RowsOf(table, k) = {} => row = Nobody
    BY <1>2, <2>1, FirstRowIs
  <2> QED BY <2>2, <2>3 DEF Row, Nobody
<1>9. Minded(k, c)'
  <2>1. CASE callback[k].step # "idle"
    <3>1. Minded(k, callback[k]) /\ c = callback[k]
      BY <1>3, <2>1 DEF SerialInv
    <3> QED BY <1>6, <3>1 DEF Minded, Spare
  <2>2. CASE callback[k].step = "idle" /\ row = Nobody
    BY <1>3, <2>2 DEF Minded, Idle
  <2>3. CASE callback[k].step = "idle" /\ row # Nobody
    <3>1. c.step = "record" /\ c.row = row
      BY <1>3, <2>3
    <3>2. row.id \in RowsOf(table, k) /\ Spare(row.id)
      BY <1>5, <1>8, <2>3 DEF InTable, ForcedBy
    <3> QED BY <1>6, <3>1, <3>2 DEF Minded, Spare
  <2> QED BY <2>1, <2>2, <2>3
<1>10. \A i \in RowsOf(table', k) : Spare(i)' \/ ForcedBy(c, i)
  BY <1>3, <1>5, <1>6 DEF ForcedBy, Spare
<1>11. c.step = "idle" => RowsOf(table', k) = {}
  BY <1>3, <1>6, <1>8
<1> QED BY <1>1, <1>4, <1>6, <1>7, <1>9, <1>10, <1>11, CallbackKeeps

LEMMA CallbackRecordSerial ==
  ASSUME MonitorInv, MonitorInv', SerialInv, Serial, NEW k \in Key, CallbackRecord(k)
  PROVE  SerialInv'
<1>1. PICK b : b = callback[k] /\ b \in Forced /\ b.step = "record" /\ ~b.saved
  BY DEF CallbackRecord, MonitorInv, Forcing, Idle
<1>2. PICK row : row = b.row
  OBVIOUS
<1>3. row \in Row /\ InTable(table, k, row) /\ Spare(row.id)
  <2>1. Forcing(k, b) /\ Minded(k, b)
    BY <1>1 DEF MonitorInv, SerialInv
  <2> QED BY <1>1, <1>2, <2>1 DEF Forcing, Forced, Idle, Minded, InTable
<1>4. Quiet(k) /\ pinger.step = "idle"
  BY <1>1 DEF SerialInv, Alone
<1>5. \A i \in RowsOf(table, k) : i \in Nat /\ Spare(i)
  BY <1>1, <1>4, ForcedAlone DEF ForcedBy
<1>6. RecordOk(row) \/ RecordFails(row)
  BY <1>1, <1>2 DEF CallbackRecord
<1>7. Adds(k, table, table') /\ RowsOf(table', k) = RowsOf(table, k)
  <2>1. table' \in Stamp(row)
    BY <1>1, <1>2 DEF CallbackRecord
  <2> QED BY <1>3, <2>1, Stamped DEF InTable
<1>8. /\ \A i \in Nat \ {row.id} : Times(history', i) = Times(history, i)
      /\ \A i \in Nat : Times(history', i) <= Interruptions + 1
      /\ RecordFails(row) => history' = history
  BY <1>3, <1>6, Repeated
<1>9. PICK c : /\ callback' = [callback EXCEPT ![k] = c]
               /\ c.step = "finish" /\ c.row = row
               /\ c.saved \/ RecordFails(row)
  <2> DEFINE done == [b EXCEPT !.step = "finish", !.saved = TRUE]
             failed == [b EXCEPT !.step = "finish"]
  <2>1. /\ done.row = row /\ done.step = "finish" /\ done.saved
        /\ failed.row = row /\ failed.step = "finish"
    BY <1>1, <1>2 DEF Forced
  <2>2. \/ callback' = [callback EXCEPT ![k] = done]
        \/ callback' = [callback EXCEPT ![k] = failed] /\ RecordFails(row)
    BY <1>1, <1>2 DEF CallbackRecord
  <2> HIDE DEF done, failed
  <2> QED BY <2>1, <2>2
<1>10. Touches(k, table, table') /\ Stated(table') /\ Repeats(k)
  <2>1. Interruptions' = Interruptions
    BY DEF CallbackRecord, bounds, Interruptions
  <2> QED BY <1>3, <1>7, <1>8, <2>1 DEF Adds, SerialInv, Repeats, InTable
<1>11. UNCHANGED <<listener, pinger, jobs, timed, Interruptions>>
  BY DEF CallbackRecord, timers, bounds, Interruptions
<1>12. Minded(k, c)'
  BY <1>3, <1>7, <1>9 DEF Minded, InTable
<1>13. ASSUME NEW i \in RowsOf(table', k)
       PROVE  Spare(i)' \/ ForcedBy(c, i)
  <2>1. CASE i = row.id
    <3>1. CASE c.saved
      BY <1>9, <2>1, <3>1 DEF ForcedBy
    <3>2. CASE RecordFails(row)
      BY <1>3, <1>8, <1>11, <2>1, <3>2 DEF Spare
    <3> QED BY <1>9, <3>1, <3>2
  <2>2. CASE i # row.id
    BY <1>5, <1>7, <1>8, <1>11, <1>13, <2>2 DEF Spare
  <2> QED BY <2>1, <2>2
<1> QED BY <1>4, <1>9, <1>10, <1>11, <1>12, <1>13, CallbackKeeps

LEMMA CallbackFinishSerial ==
  ASSUME MonitorInv, MonitorInv', SerialInv, Serial, NEW k \in Key, CallbackFinish(k)
  PROVE  SerialInv'
<1>1. PICK b : b = callback[k] /\ b \in Forced /\ b.step = "finish"
  BY DEF CallbackFinish, MonitorInv, Forcing, Idle
<1>2. Quiet(k) /\ pinger.step = "idle"
  BY <1>1 DEF SerialInv, Alone
<1>3. \A i \in RowsOf(table, k) : i \in Nat /\ (Spare(i) \/ ForcedBy(b, i))
  BY <1>1, <1>2, ForcedAlone
<1>4. callback' = [callback EXCEPT ![k] = Idle] /\ UNCHANGED <<listener, pinger, history, Interruptions>>
  BY DEF CallbackFinish, records, bounds, Interruptions
<1>5. Table(table) /\ Repeats(k)
  BY <1>4 DEF MonitorInv, Kept, Repeats, SerialInv
<1>6. ASSUME Touches(k, table, table'), Stated(table'),
             \A i \in RowsOf(table', k) : Spare(i),
             jobs' \ {k} = jobs \ {k}, timed' \ {k} = timed \ {k},
             k \in timed' /\ RowsOf(table', k) # {} => k \in jobs'
      PROVE  SerialInv'
  <2>1. PICK c : c = Idle
    OBVIOUS
  <2>2. Minded(k, c)' /\ callback' = [callback EXCEPT ![k] = c]
    BY <1>4, <2>1 DEF Minded, Idle
  <2>3. \A i \in RowsOf(table', k) : Spare(i)'
    BY <1>4, <1>6 DEF Spare
  <2> QED BY <1>2, <1>4, <1>5, <1>6, <2>2, <2>3, CallbackKeeps
<1>7. CASE b.saved
  <2>1. /\ table' = Delete(table, {b.row.id}) /\ jobs' = jobs
        /\ timed' = IF RowsOf(table', k) = {} THEN timed ELSE timed \ {k}
    BY <1>1, <1>7 DEF CallbackFinish, RemoveRecorded, Outlives
  <2>2. PICK S : S = {b.row.id}
    OBVIOUS
  <2>3. S \cap DOMAIN table.rows \subseteq RowsOf(table, k)
    <3>1. Minded(k, b)
      BY <1>1 DEF SerialInv
    <3> QED BY <1>1, <2>2, <3>1 DEF Minded
  <2>4. /\ Touches(k, table, table') /\ Stated(table')
        /\ RowsOf(table', k) = RowsOf(table, k) \ S
    <3>1. table' = Delete(table, S)
      BY <2>1, <2>2
    <3> QED BY <1>5, <2>3, <3>1, DeleteTouches DEF SerialInv
  <2>5. \A i \in RowsOf(table', k) : Spare(i)
    BY <1>3, <2>2, <2>4 DEF ForcedBy
  <2> QED BY <1>6, <2>1, <2>4, <2>5
<1>8. ASSUME ~b.saved
      PROVE  \A i \in RowsOf(table, k) : Spare(i)
  BY <1>3, <1>8 DEF ForcedBy
<1>9. CASE ~b.saved /\ ~LastAttempt(b.row)
  <2>1. CASE RowsOf(table, k) = {}
    <3>1. UNCHANGED <<table, jobs, timed>>
      BY <1>1, <1>9, <2>1 DEF CallbackFinish, timers
    <3>2. Touches(k, table, table') /\ Stated(table')
      BY <3>1 DEF Touches, SerialInv
    <3> QED BY <1>6, <2>1, <3>1, <3>2
  <2>2. CASE RowsOf(table, k) # {}
    <3>1. table' = IncrementAttempts(table, k) /\ jobs' = jobs \cup {k} /\ timed' = timed \cup {k}
      BY <1>1, <1>9, <2>2 DEF CallbackFinish, Retry, SetTimer
    <3>2. Adds(k, table, table') /\ RowsOf(table', k) = RowsOf(table, k)
      BY <1>5, <2>2, <3>1, IncrementAdds
    <3>3. Touches(k, table, table') /\ Stated(table')
      BY <3>2 DEF Adds, SerialInv
    <3> QED BY <1>6, <1>8, <1>9, <3>1, <3>2, <3>3
  <2> QED BY <2>1, <2>2
<1>10. CASE ~b.saved /\ LastAttempt(b.row)
  <2>1. table' = Delete(table, RowsOf(table, k)) /\ UNCHANGED <<jobs, timed>>
    BY <1>1, <1>10 DEF CallbackFinish, GiveUp, timers
  <2>2. Touches(k, table, table') /\ Stated(table') /\ RowsOf(table', k) = {}
    BY <1>5, <2>1, DeleteTouches DEF SerialInv
  <2> QED BY <1>6, <2>1, <2>2
<1> QED BY <1>7, <1>9, <1>10

LEMMA CallbackRaisesSerial ==
  ASSUME MonitorInv, MonitorInv', SerialInv, Serial, Counted, NEW k \in Key, CallbackRaises(k)
  PROVE  SerialInv'
<1>1. PICK b : b = callback[k] /\ b \in Forced /\ b.step # "idle"
  BY DEF CallbackRaises, MonitorInv, Forcing, Idle
<1>2. PICK row : row = b.row
  OBVIOUS
<1>3. row \in Row /\ InTable(table, k, row) /\ (b.step = "record" => Spare(row.id))
  <2>1. Forcing(k, b) /\ Minded(k, b)
    BY <1>1 DEF MonitorInv, SerialInv
  <2> QED BY <1>1, <1>2, <2>1 DEF Forcing, Forced, Idle, Minded, InTable
<1>4. Quiet(k) /\ pinger.step = "idle" /\ Break /\ restarts' = restarts
  BY <1>1 DEF SerialInv, Alone, CallbackRaises
<1>5. Table(table) /\ Stated(table)
  BY DEF MonitorInv, Kept, SerialInv
<1>6. /\ Touches(k, table, table') /\ Stated(table')
      /\ \A i \in Nat \ RowsOf(table, k) : Times(history', i) = Times(history, i)
      /\ \A i \in Nat : Times(history', i) <= Interruptions + 1
  <2>1. CASE b.step = "record" /\ RecordRaises(row) /\ table' \in Stamp(row)
    <3>1. Adds(k, table, table')
      BY <1>3, <2>1, Stamped DEF InTable
    <3>2. /\ \A i \in Nat \ {row.id} : Times(history', i) = Times(history, i)
          /\ \A i \in Nat : Times(history', i) <= Interruptions + 1
      BY <1>3, <2>1, Repeated
    <3> QED BY <1>3, <1>5, <3>1, <3>2 DEF Adds, InTable
  <2>2. CASE UNCHANGED <<table, history>>
    BY <1>5, <2>2 DEF Touches, SerialInv
  <2> QED BY <1>1, <1>2, <2>1, <2>2 DEF CallbackRaises
<1>7. Interruptions' = Interruptions + 1 /\ Repeats(k) /\ \A i \in Nat : Spare(i)'
  BY <1>4, <1>6, Interrupted
<1>8. PICK c : c = Idle
  OBVIOUS
<1>9. Minded(k, c)' /\ callback' = [callback EXCEPT ![k] = c]
  BY <1>8 DEF CallbackRaises, Minded, Idle
<1>10. /\ jobs' \ {k} = jobs \ {k} /\ timed' \ {k} = timed \ {k}
       /\ k \in timed' => k \in jobs'
       /\ UNCHANGED <<listener, pinger>>
  BY DEF CallbackRaises, Untimed
<1>11. \A i \in RowsOf(table', k) : Spare(i)'
  BY <1>7 DEF MonitorInv, Kept, Table, RowsOf
<1> QED BY <1>4, <1>6, <1>7, <1>9, <1>10, <1>11, CallbackKeeps

-----------------------------------------------------------------------------
(***************************************************************************)
(* The check of all sessions.                                              *)
(***************************************************************************)
\* While it is at work, no other thread is.
LEMMA CheckedAlone ==
  ASSUME MonitorInv, SerialInv, pinger.step # "idle"
  PROVE  /\ \A k \in Key : callback[k].step = "idle"
         /\ \A l \in Listener : listener[l].todo = <<>>
         /\ \A i \in Ids : i \in Nat /\ (Spare(i) \/ CheckedBy(pinger, i))
<1>1. /\ \A k \in Key : callback[k].step = "idle"
      /\ \A l \in Listener : listener[l].todo = <<>>
  BY DEF SerialInv, Alone
<1>2. \A i \in Ids : i \in Nat
  BY DEF MonitorInv, Kept, Table, Ids
<1>3. ASSUME NEW i \in Ids
      PROVE  Spare(i) \/ CheckedBy(pinger, i)
  <2>1. \A k \in Key : ~ForcedBy(callback[k], i)
    BY <1>1 DEF ForcedBy
  <2>2. \A l \in Listener : ~ClosedBy(listener[l], i)
    BY <1>1 DEF ClosedBy
  <2> QED BY <2>1, <2>2 DEF SerialInv, Closing
<1> QED BY <1>1, <1>2, <1>3

\* The check goes on, or ends.
LEMMA PingerKeeps ==
  ASSUME MonitorInv, MonitorInv', SerialInv, pinger.step # "idle",
         NEW p, pinger' = p, UNCHANGED <<jobs, listener, callback, Interruptions>>,
         Stated(table'), Checkable(p)',
         \A i \in Ids' : Spare(i)' \/ CheckedBy(p, i),
         \A i \in Nat : Times(history', i) <= Interruptions + 1,
         \A k \in timed' : k \in timed /\ (RowsOf(table', k) # {} => RowsOf(table, k) # {})
  PROVE  SerialInv'
<1>1. /\ \A k \in Key : callback[k].step = "idle"
      /\ \A l \in Listener : listener[l].todo = <<>>
  BY CheckedAlone
<1>2. Alone'
  BY <1>1 DEF Alone
<1>3. \A k \in Key : Minded(k, callback[k])'
  BY <1>1 DEF Minded
<1>4. \A l \in Listener : Minding(listener[l])'
  BY <1>1 DEF Minding
<1>5. Checkable(pinger)'
  BY DEF Checkable, Spare
<1>6. \A i \in Ids' : Spare(i)' \/ Closing(i)'
  BY DEF Closing
<1>7. Interruptions' \in Nat /\ \A i \in Nat : Times(history', i) <= Interruptions' + 1
  BY DEF SerialInv
<1>8. ASSUME NEW k \in timed', RowsOf(table', k) # {}
      PROVE  Watched(k)'
  <2>1. Watched(k)
    BY <1>8 DEF SerialInv, StaleStreamWatched
  <2> QED BY <2>1 DEF Watched, Quiet
<1>9. StaleStreamWatched'
  BY <1>8 DEF StaleStreamWatched
<1> QED BY <1>2, <1>3, <1>4, <1>5, <1>6, <1>7, <1>9 DEF SerialInv

\* The row it wrote is the one it is at, and it has no other copy of it.
LEMMA CheckedIs ==
  ASSUME MonitorInv, SerialInv, pinger \in Checking, pinger.todo # {}
  PROVE  /\ Current \in pinger.todo /\ Current \in Row
         /\ \A other \in pinger.todo : Current.id <= other.id
         /\ \A i \in Nat : CheckedBy(pinger, i) => i = Current.id
         /\ \A row \in pinger.todo \ {Current} : Spare(row.id)
         /\ pinger.step # "finish" \/ ~pinger.saved => Spare(Current.id)
<1>1. \A row \in pinger.todo : row \in Row /\ row.id \in Nat
  BY DEF Checking, Row
<1>2. Current \in pinger.todo /\ \A other \in pinger.todo : Current.id <= other.id
  <2> DEFINE ids == {row.id : row \in pinger.todo}
  <2>1. ids \subseteq Nat /\ ids # {}
    BY <1>1
  <2>2. PICK row \in pinger.todo : row.id = Lowest(ids)
    <3>1. Lowest(ids) \in ids
      BY <2>1, LowestIsIn
    <3> QED BY <3>1
  <2>3. \A other \in pinger.todo : row.id <= other.id
    BY <2>1, <2>2, LowestIsIn
  <2> QED BY <2>3 DEF Current
<1>3. PICK row \in pinger.todo : row = Current
  BY <1>2
<1>4. \A i \in Nat : CheckedBy(pinger, i) => i = row.id
  BY <1>1, <1>2, <1>3 DEF CheckedBy
<1>5. Checkable(pinger) /\ pinger.step # "idle"
  BY DEF SerialInv, Checking
<1>6. ASSUME NEW other \in pinger.todo \ {row}
      PROVE  Spare(other.id)
  <2>1. other.id # row.id
    BY <1>5, <1>6 DEF Checkable
  <2>2. ~CheckedBy(pinger, other.id)
    BY <1>1, <1>4, <2>1
  <2> QED BY <1>5, <2>2 DEF Checkable
<1>7. pinger.step # "finish" \/ ~pinger.saved => Spare(row.id)
  BY <1>5 DEF Checkable, CheckedBy
<1> QED BY <1>1, <1>2, <1>3, <1>4, <1>6, <1>7

\* An exception empties the table, whether the play it was at is in the history or not.
LEMMA PingerRaisesSerial ==
  ASSUME MonitorInv, MonitorInv', SerialInv, PingerRaises
  PROVE  SerialInv'
<1>1. PICK p : p = Idle
  OBVIOUS
<1>2. Ids' = {} /\ Stated(table') /\ \A k : RowsOf(table', k) = {}
  BY Deleted DEF PingerRaises, MonitorInv, Kept, Ids, Stated, RowsOf
<1>3. Checkable(p)' /\ pinger' = p
  BY <1>1 DEF Checkable, Idle, PingerRaises
<1>4. /\ UNCHANGED <<jobs, timed, listener, callback, Interruptions>>
      /\ pinger.step # "idle"
  BY DEF PingerRaises, timers, bounds, Interruptions
<1>5. \A i \in Nat : Times(history', i) <= Interruptions + 1
  <2>1. CASE pinger.step = "record"
    <3>1. pinger \in Checking /\ pinger.todo # {}
      BY <2>1, CheckingIs
    <3>2. PICK row \in Row : row = Current /\ Spare(row.id)
      BY <2>1, <3>1, CheckedIs
    <3>3. RecordRaises(row)
      BY <2>1, <3>2 DEF PingerRaises
    <3> QED BY <3>2, <3>3, Repeated
  <2>2. CASE pinger.step # "record"
    BY <2>2 DEF PingerRaises, SerialInv
  <2> QED BY <2>1, <2>2
<1> QED BY <1>2, <1>3, <1>4, <1>5, PingerKeeps

\* The session list: without one the check ends.
LEMMA PingerListSerial ==
  ASSUME MonitorInv, MonitorInv', SerialInv, PingerList
  PROVE  SerialInv'
<1>1. pinger.step = "list" /\ UNCHANGED <<jobs, timed, listener, callback, history, Interruptions>>
  BY DEF PingerList, timers, fates, records, bounds, Interruptions
<1>2. \A i \in Ids : Spare(i)
  BY <1>1, CheckedAlone DEF CheckedBy
<1>3. \A i \in Nat : Times(history', i) <= Interruptions + 1
  BY <1>1 DEF SerialInv
<1>4. CASE pinger' = Idle /\ UNCHANGED table
  <2>1. PICK p : p = Idle
    OBVIOUS
  <2>2. Checkable(p)' /\ \A i \in Ids' : Spare(i)'
    BY <1>1, <1>2, <1>4, <2>1 DEF Checkable, Idle, Spare, Ids
  <2>3. Stated(table')
    BY <1>4 DEF SerialInv
  <2> QED BY <1>1, <1>3, <1>4, <2>1, <2>2, <2>3, PingerKeeps
<1>6. CASE /\ pinger' = [step |-> "check", todo |-> pinger.todo, live |-> playing,
                         left |-> {k \in Key : playing[k] # NoItem}, saved |-> FALSE]
           /\ UNCHANGED table
  <2>1. PICK p : p = [step |-> "check", todo |-> pinger.todo, live |-> playing,
                      left |-> {k \in Key : playing[k] # NoItem}, saved |-> FALSE]
    OBVIOUS
  <2>2. p.step = "check" /\ p.todo = pinger.todo
    BY <2>1
  <2>3. Checkable(pinger) /\ \A i : ~CheckedBy(pinger, i)
    BY <1>1 DEF SerialInv, CheckedBy
  <2>4. Checkable(p)'
    BY <1>1, <2>2, <2>3 DEF Checkable, Spare
  <2>5. \A i \in Ids' : Spare(i)'
    BY <1>1, <1>2, <1>6 DEF Spare, Ids
  <2>6. Stated(table') /\ pinger' = p
    BY <1>6, <2>1 DEF SerialInv
  <2> QED BY <1>1, <1>3, <1>6, <2>4, <2>5, <2>6, PingerKeeps
<1> QED BY <1>4, <1>6 DEF PingerList

\* A row is done, or was never written: the check goes on with the others.
LEMMA NextSerial ==
  ASSUME MonitorInv, MonitorInv', SerialInv, pinger \in Checking, pinger.todo # {},
         pinger' = NextStream, UNCHANGED <<timers, listener, callback, history, Interruptions>>,
         Stated(table'), Ids' \subseteq Ids,
         \A k \in Key : RowsOf(table', k) \subseteq RowsOf(table, k),
         pinger.step = "finish" /\ pinger.saved => Current.id \notin Ids'
  PROVE  SerialInv'
<1>1. PICK cur : cur = Current
  OBVIOUS
<1>2. PICK p : p = [pinger EXCEPT !.step = "check", !.todo = @ \ {cur}]
  OBVIOUS
<1>3. p.step = "check" /\ p.todo = pinger.todo \ {cur} /\ pinger' = p
  BY <1>1, <1>2 DEF Checking, NextStream
<1>4. pinger.step # "idle"
  BY DEF Checking
<1>5. Checkable(p)'
  <2>1. \A row \in p.todo : Spare(row.id)
    BY <1>1, <1>3, CheckedIs
  <2>2. Checkable(pinger)
    BY DEF SerialInv
  <2> QED BY <1>3, <1>4, <2>1, <2>2 DEF Checkable, Spare
<1>6. ASSUME NEW i \in Ids'
      PROVE  Spare(i)'
  <2>1. i \in Nat /\ (Spare(i) \/ CheckedBy(pinger, i))
    BY <1>4, <1>6, CheckedAlone
  <2>2. CheckedBy(pinger, i) => i = cur.id /\ pinger.step = "finish" /\ pinger.saved
    BY <1>1, <2>1, CheckedIs DEF CheckedBy
  <2> QED BY <1>1, <1>6, <2>1, <2>2 DEF Spare
<1>7. \A i \in Nat : Times(history', i) <= Interruptions + 1
  BY DEF SerialInv
<1>8. \A k \in timed' : k \in timed /\ (RowsOf(table', k) # {} => RowsOf(table, k) # {})
  BY DEF timers, MonitorInv, Typed
<1> QED BY <1>3, <1>4, <1>5, <1>6, <1>7, <1>8, PingerKeeps DEF timers

LEMMA PingerCheckSerial ==
  ASSUME MonitorInv, MonitorInv', SerialInv, PingerCheck
  PROVE  SerialInv'
<1>1. /\ pinger \in Checking /\ pinger.todo # {} /\ pinger.step = "check"
      /\ UNCHANGED <<table, timers, listener, callback, history, Interruptions>>
  BY CheckingIs DEF PingerCheck, records, bounds, Interruptions
<1>2. Stated(table')
  BY <1>1 DEF SerialInv
<1>3. CASE pinger' = NextStream
  BY <1>1, <1>2, <1>3, NextSerial DEF Ids
<1>4. CASE pinger' = [pinger EXCEPT !.step = "record"]
  <2>1. PICK p : p = [pinger EXCEPT !.step = "record"]
    OBVIOUS
  <2>2. p.step = "record" /\ p.todo = pinger.todo
    BY <1>1, <2>1 DEF Checking
  <2>3. \A i : ~CheckedBy(pinger, i)
    BY <1>1 DEF CheckedBy
  <2>4. Checkable(p)'
    <3>1. Checkable(pinger)
      BY DEF SerialInv
    <3> QED BY <1>1, <2>2, <2>3, <3>1 DEF Checkable, Spare
  <2>5. \A i \in Ids' : Spare(i)'
    <3>1. \A i \in Ids : Spare(i)
      BY <1>1, <2>3, CheckedAlone
    <3> QED BY <1>1, <3>1 DEF Spare, Ids
  <2>6. \A i \in Nat : Times(history', i) <= Interruptions + 1
    BY <1>1 DEF SerialInv
  <2> QED BY <1>1, <1>2, <1>4, <2>1, <2>4, <2>5, <2>6, PingerKeeps DEF timers
<1> QED BY <1>3, <1>4 DEF PingerCheck

\* It writes the row it is at, the first it has left.
LEMMA PingerRecordSerial ==
  ASSUME MonitorInv, MonitorInv', SerialInv, PingerRecord
  PROVE  SerialInv'
<1>1. /\ pinger \in Checking /\ pinger.todo # {} /\ pinger.step = "record"
      /\ UNCHANGED <<timers, listener, callback, Interruptions>>
  BY CheckingIs DEF PingerRecord, bounds, Interruptions
<1>2. PICK row \in pinger.todo : row = Current
  BY <1>1, CheckedIs
<1>3. /\ row \in Row /\ Spare(row.id)
      /\ \A other \in pinger.todo : row.id <= other.id
      /\ \A other \in pinger.todo \ {row} : Spare(other.id)
  BY <1>1, <1>2, CheckedIs
<1>4. Checkable(pinger) /\ row.state # NoState /\ row.id \in Nat
  BY <1>1, <1>3 DEF SerialInv, Checkable, Row
<1>5. RecordOk(row) \/ RecordFails(row)
  BY <1>2 DEF PingerRecord
<1>6. /\ \A i \in Nat \ {row.id} : Times(history', i) = Times(history, i)
      /\ \A i \in Nat : Times(history', i) <= Interruptions + 1
      /\ RecordFails(row) => history' = history
  BY <1>3, <1>5, Repeated
<1>7. table' = table
  BY DEF PingerRecord
<1>8. Stated(table')
  BY <1>7 DEF SerialInv
<1>9. PICK p : /\ pinger' = p /\ p.step = "finish" /\ p.todo = pinger.todo
               /\ p.saved \/ RecordFails(row)
  <2> DEFINE done == [pinger EXCEPT !.step = "finish", !.saved = TRUE]
             failed == [pinger EXCEPT !.step = "finish", !.saved = FALSE]
  <2>1. /\ done.step = "finish" /\ done.saved /\ done.todo = pinger.todo
        /\ failed.step = "finish" /\ failed.todo = pinger.todo
    BY <1>1 DEF Checking
  <2>2. \/ pinger' = done
        \/ pinger' = failed /\ RecordFails(row)
    BY <1>2 DEF PingerRecord
  <2> HIDE DEF done, failed
  <2> QED BY <2>1, <2>2
<1>10. Spare(row.id)' \/ CheckedBy(p, row.id)
  BY <1>1, <1>3, <1>4, <1>6, <1>9 DEF CheckedBy, Spare
<1>11. \A i \in Nat \ {row.id} : Spare(i) => Spare(i)'
  BY <1>1, <1>6 DEF Spare
<1>12. Checkable(p)'
  <2>1. ASSUME NEW other \in p.todo
        PROVE  Spare(other.id)' \/ CheckedBy(p, other.id)
    <3>1. CASE other = row
      BY <1>10, <3>1
    <3>2. CASE other # row
      <4>1. other.id # row.id /\ Spare(other.id) /\ other.id \in Nat
        BY <1>1, <1>3, <1>4, <1>9, <2>1, <3>2 DEF Checkable, Checking, Row
      <4> QED BY <1>11, <4>1
    <3> QED BY <3>1, <3>2
  <2> QED BY <1>1, <1>4, <1>9, <2>1 DEF Checkable
<1>13. ASSUME NEW i \in Ids'
       PROVE  Spare(i)' \/ CheckedBy(p, i)
  <2>1. i \in Ids
    BY <1>7, <1>13 DEF Ids
  <2>2. i \in Nat /\ Spare(i)
    BY <1>1, <2>1, CheckedAlone DEF CheckedBy
  <2> QED BY <1>10, <1>11, <2>2
<1>14. \A k \in timed' : k \in timed /\ (RowsOf(table', k) # {} => RowsOf(table, k) # {})
  BY <1>1, <1>7 DEF timers
<1> QED BY <1>1, <1>6, <1>8, <1>9, <1>12, <1>13, <1>14, PingerKeeps DEF timers

\* It removes the row it wrote, counts a failure, or gives the session up.
LEMMA PingerFinishSerial ==
  ASSUME MonitorInv, MonitorInv', SerialInv, PingerFinish
  PROVE  SerialInv'
<1>1. /\ pinger \in Checking /\ pinger.todo # {} /\ pinger.step = "finish"
      /\ UNCHANGED <<timers, listener, callback, history, Interruptions>>
  BY CheckingIs DEF PingerFinish, records, bounds, Interruptions
<1>2. PICK row : row = Current /\ row \in Row
  BY <1>1, CheckedIs
<1>3. PICK k \in Key : k = row.key
  BY <1>2 DEF Row
<1>4. Table(table) /\ Stated(table)
  BY DEF MonitorInv, Kept, SerialInv
<1>5. ASSUME NEW S, table' = Delete(table, S), pinger' = NextStream,
             pinger.saved => row.id \in S
      PROVE  SerialInv'
  <2>1. /\ DOMAIN table'.rows = DOMAIN table.rows \ S
        /\ \A i \in DOMAIN table.rows \ S : table'.rows[i] = table.rows[i]
    BY <1>4, <1>5, Deleted
  <2>2. Stated(table') /\ Ids' \subseteq Ids /\ (pinger.saved => row.id \notin Ids')
    BY <1>4, <1>5, <2>1 DEF Stated, Ids
  <2>3. \A j \in Key : RowsOf(table', j) \subseteq RowsOf(table, j)
    BY <2>1 DEF RowsOf
  <2> QED BY <1>1, <1>2, <1>5, <2>2, <2>3, NextSerial
<1>6. CASE pinger.saved
  <2>1. PICK S : S = {row.id}
    OBVIOUS
  <2>2. table' = Delete(table, S) /\ pinger' = NextStream
    BY <1>2, <1>6, <2>1 DEF PingerFinish, RemoveRecorded
  <2> QED BY <1>5, <2>1, <2>2
<1>7. CASE ~pinger.saved /\ ~LastAttempt(row)
  <2>1. table' = IncrementAttempts(table, k) /\ pinger' = NextStream /\ RowsOf(table, k) # {}
    BY <1>2, <1>3, <1>7 DEF PingerFinish
  <2>2. Adds(k, table, table') /\ \A j : RowsOf(table', j) = RowsOf(table, j)
    BY <1>4, <2>1, IncrementAdds
  <2>3. Stated(table') /\ Ids' \subseteq Ids
    <3>1. DOMAIN table'.rows = DOMAIN table.rows
      BY <1>4, <2>1, Incremented
    <3> QED BY <1>4, <2>2, <3>1 DEF Adds, Ids
  <2> QED BY <1>1, <1>7, <2>1, <2>2, <2>3, NextSerial
<1>8. CASE ~pinger.saved /\ LastAttempt(row)
  <2>1. table' = Delete(table, RowsOf(table, k)) /\ pinger' = NextStream
    BY <1>2, <1>3, <1>8 DEF PingerFinish, GiveUp
  <2> QED BY <1>5, <1>8, <2>1
<1> QED BY <1>6, <1>7, <1>8

\* A session of the server is written; its row is new, or has the timer it had.
LEMMA PingerEndSerial ==
  ASSUME MonitorInv, MonitorInv', SerialInv, PingerDone \/ \E k \in Key : PingerSync(k)
  PROVE  SerialInv'
<1>1. /\ pinger \in Checking /\ pinger.step = "check" /\ pinger.todo = {}
      /\ UNCHANGED <<jobs, listener, callback, history, Interruptions>>
  BY CheckingIs DEF PingerDone, PingerSync, timers, fates, records, bounds, Interruptions
<1>2. /\ \A i \in Ids : i \in Nat /\ Spare(i)
      /\ \A i \in Nat : Times(history', i) <= Interruptions + 1
  BY <1>1, CheckedAlone DEF CheckedBy, SerialInv
<1>3. CASE PingerDone
  <2>1. PICK p : p = Idle
    OBVIOUS
  <2>2. Checkable(p)' /\ pinger' = p /\ UNCHANGED <<table, timed>>
    BY <1>3, <2>1 DEF PingerDone, Checkable, Idle, timers
  <2>3. Stated(table') /\ \A i \in Ids' : Spare(i)'
    BY <1>1, <1>2, <2>2 DEF SerialInv, Ids, Spare
  <2> QED BY <1>1, <1>2, <2>2, <2>3, PingerKeeps
<1>4. ASSUME NEW k \in Key, PingerSync(k)
      PROVE  SerialInv'
  <2>1. PICK item \in Item : table' = WriteSession(table, k, item, "playing")
    BY <1>1, <1>4, CheckingIs DEF PingerSync, Checking
  <2>2. Table(table) /\ "playing" \in State
    BY DEF MonitorInv, Kept, State
  <2>3. Adds(k, table, table') /\ (table'.next = table.next => \A j : RowsOf(table', j) = RowsOf(table, j))
    BY <2>1, <2>2, WriteSessionAdds
  <2>4. Stated(table')
    BY <2>3 DEF Adds, SerialInv
  <2>5. PICK p : p = [pinger EXCEPT !.left = pinger.left \ {k}]
    OBVIOUS
  <2>6. pinger' = p /\ p.todo = {}
    BY <1>1, <1>4, <2>5 DEF PingerSync, Checking
  <2>7. Checkable(p)'
    BY <2>6 DEF Checkable
  <2>8. ASSUME NEW i \in Ids'
        PROVE  Spare(i)'
    <3>1. i \in Nat
      BY <2>8 DEF MonitorInv, Kept, Table, Ids
    <3>2. CASE i \in Ids
      BY <1>1, <1>2, <3>2 DEF Spare
    <3>3. CASE i \notin Ids
      <4>1. i >= table.next
        BY <2>3, <2>8, <3>3 DEF Adds, Touches, Ids
      <4>2. Times(history, i) = 0 /\ Interruptions \in Nat
        BY <3>1, <4>1, IdsAre DEF SerialInv
      <4> QED BY <1>1, <4>2 DEF Spare
    <3> QED BY <3>2, <3>3
  <2>9. ASSUME NEW j \in timed', RowsOf(table', j) # {}
        PROVE  j \in timed /\ RowsOf(table, j) # {}
    <3>1. timed' = IF table'.next = table.next THEN timed ELSE timed \ {k}
      BY <1>4 DEF PingerSync
    <3>2. CASE table'.next = table.next
      BY <2>3, <2>9, <3>1, <3>2
    <3>3. CASE table'.next # table.next
      <4>1. j \in timed /\ j # k /\ j \in Key
        BY <2>9, <3>1, <3>3 DEF MonitorInv, Typed
      <4> QED BY <2>3, <2>9, <4>1 DEF Adds, Touches
    <3> QED BY <3>2, <3>3
  <2>10. \A j \in timed' : j \in timed
    BY <1>4 DEF PingerSync
  <2> QED BY <1>1, <1>2, <2>4, <2>6, <2>7, <2>8, <2>9, <2>10, PingerKeeps
<1> QED BY <1>3, <1>4

LEMMA PingSerial ==
  ASSUME MonitorInv, MonitorInv', SerialInv, Ping
  PROVE  SerialInv'
<1>1. CASE PingerList
  BY <1>1, PingerListSerial
<1>2. CASE PingerCheck
  BY <1>2, PingerCheckSerial
<1>3. CASE PingerRecord
  BY <1>3, PingerRecordSerial
<1>4. CASE PingerFinish
  BY <1>4, PingerFinishSerial
<1>5. CASE PingerDone \/ \E k \in Key : PingerSync(k)
  BY <1>5, PingerEndSerial
<1>6. CASE PingerRaises
  BY <1>6, PingerRaisesSerial
<1> QED BY <1>1, <1>2, <1>3, <1>4, <1>5, <1>6 DEF Ping

\* The check starts with rows that may be written; a death of the process allows
\* each one write more, and a reconnection finds nobody at work.
LEMMA StartSerial ==
  ASSUME MonitorInv, MonitorInv', SerialInv, Serial, Counted, Restart \/ Reconnect
  PROVE  SerialInv'
<1>1. table' = table /\ history' = history /\ StartPinger /\ Table(table)
  BY DEF Restart, Reconnect, fates, records, MonitorInv, Kept
<1>2. PICK r \in Nat : r = Interruptions /\ \A i \in Nat : Times(history, i) <= r + 1
  BY DEF SerialInv
<1>3. \A i \in Nat : Times(history, i) \in Nat
  BY TimesIs DEF MonitorInv, Kept
<1>4. \A i \in Ids : i \in Nat
  BY DEF MonitorInv, Kept, Table, Ids
<1>5. ASSUME \A i \in Ids : Spare(i)'
      PROVE  Checkable(pinger)'
  <2>1. PICK p : p = [step |-> "list", todo |-> {table.rows[i] : i \in Ids}]
    OBVIOUS
  <2>2. pinger' = p /\ \A row \in p.todo : \E i \in Ids : row = table.rows[i]
    BY <1>1, <2>1 DEF StartPinger
  <2>3. \A row \in p.todo : row.id \in Ids /\ row = table.rows[row.id] /\ row.state # NoState
    BY <1>1, <2>2 DEF Table, Ids, SerialInv, Stated
  <2>4. Checkable(p)'
    BY <1>5, <2>3 DEF Checkable
  <2> QED BY <2>2, <2>4 DEF Checkable
<1>6. CASE Restart
  <2>1. /\ Interruptions' = r + 1 /\ timed' = {}
        /\ listener' = [l \in Listener |-> Rest] /\ callback' = [k \in Key |-> Idle]
    <3>1. Interruptions' = r + 1
      BY <1>2, <1>6 DEF Restart, Counted, Interruptions
    <3> QED BY <1>6, <3>1 DEF Restart, Rest
  <2>2. ASSUME NEW i \in Nat
        PROVE  Times(history', i) <= Interruptions' /\ Times(history', i) <= Interruptions' + 1
    <3>1. PICK t \in Nat : t = Times(history, i)
      BY <1>3
    <3>2. t <= r + 1
      BY <1>2, <3>1
    <3> QED BY <1>1, <2>1, <3>1, <3>2
  <2>3. \A i \in Ids : Spare(i)'
    BY <1>4, <2>2 DEF Spare
  <2>4. /\ \A k \in Key : callback'[k].step = "idle"
        /\ \A l \in Listener : listener'[l].todo = <<>>
    BY <2>1 DEF Idle, Rest
  <2>5. Alone'
    BY <2>4 DEF Alone
  <2>6. (\A k \in Key : Minded(k, callback[k])') /\ \A l \in Listener : Minding(listener[l])'
    BY <2>4 DEF Minded, Minding
  <2>7. StaleStreamWatched'
    BY <2>1 DEF StaleStreamWatched
  <2>8. Stated(table') /\ \A i \in Ids' : Spare(i)'
    BY <1>1, <2>3 DEF SerialInv, Ids
  <2>9. Interruptions' \in Nat
    BY <2>1
  <2> QED BY <1>5, <2>2, <2>3, <2>5, <2>6, <2>7, <2>8, <2>9 DEF SerialInv
<1>7. CASE Reconnect
  <2>1. /\ UNCHANGED <<jobs, timed, listener, callback, Interruptions>> /\ pinger.step = "idle"
        /\ \A k \in Key : Quiet(k) /\ callback[k].step = "idle"
    BY <1>7 DEF Reconnect, timers, Serial, Interruptions
  <2>2. \A l \in Listener : listener[l].todo = <<>>
    <3>1. ASSUME NEW l \in Listener, listener[l].todo # <<>>
          PROVE  FALSE
      BY <2>1, <3>1, PopIs DEF Handling, Quiet
    <3> QED BY <3>1
  <2>3. \A i \in Ids : ~Closing(i)
    BY <2>1, <2>2 DEF Closing, ForcedBy, ClosedBy, CheckedBy
  <2>4. \A i \in Ids : Spare(i)'
    BY <1>1, <2>1, <2>3 DEF SerialInv, Spare
  <2>5. Alone'
    BY <2>1, <2>2 DEF Alone
  <2>6. (\A k \in Key : Minded(k, callback[k])') /\ \A l \in Listener : Minding(listener[l])'
    BY <2>1, <2>2 DEF Minded, Minding
  <2>7. StaleStreamWatched'
    BY <1>1, <2>1 DEF SerialInv, StaleStreamWatched, Watched, Quiet
  <2>8. Stated(table') /\ \A i \in Ids' : Spare(i)'
    BY <1>1, <2>4 DEF SerialInv, Ids
  <2>9. Interruptions' \in Nat /\ \A i \in Nat : Times(history', i) <= Interruptions' + 1
    BY <1>1, <2>1 DEF SerialInv
  <2> QED BY <1>5, <2>4, <2>5, <2>6, <2>7, <2>8, <2>9 DEF SerialInv
<1> QED BY <1>6, <1>7

-----------------------------------------------------------------------------
(***************************************************************************)
(* That invariant holds, and what follows from it.                         *)
(***************************************************************************)
LEMMA SerialInvInit == Init => SerialInv
<1> SUFFICES ASSUME Init PROVE SerialInv
  OBVIOUS
<1>1. /\ \A k \in Key : callback[k].step = "idle"
      /\ \A l \in Listener : listener[l].todo = <<>>
      /\ pinger.step = "idle" /\ timed = {} /\ Interruptions = 0 /\ history = <<>>
      /\ DOMAIN table.rows = {}
  BY DEF Init, Idle, Interruptions
<1>2. Alone /\ Checkable(pinger) /\ StaleStreamWatched
  BY <1>1 DEF Alone, Checkable, StaleStreamWatched
<1>3. (\A k \in Key : Minded(k, callback[k])) /\ \A l \in Listener : Minding(listener[l])
  BY <1>1 DEF Minded, Minding
<1>4. Stated(table) /\ Ids = {}
  BY <1>1 DEF Stated, Ids
<1>5. \A i \in Nat : Times(history, i) = 0
  <2>1. <<>> \in Seq(Nat) /\ DOMAIN <<>> = {}
    OBVIOUS
  <2> QED BY <1>1, <2>1, TimesIs
<1> QED BY <1>1, <1>2, <1>3, <1>4, <1>5 DEF SerialInv

LEMMA SerialIdles ==
  ASSUME SerialInv, UNCHANGED <<table, timers, listener, callback, pinger, history, Interruptions>>
  PROVE  SerialInv'
<1>1. Alone' /\ StaleStreamWatched' /\ Checkable(pinger)'
  BY DEF SerialInv, Alone, StaleStreamWatched, Watched, Quiet, Checkable, Spare, timers
<1>2. (\A k \in Key : Minded(k, callback[k])') /\ \A l \in Listener : Minding(listener[l])'
  BY DEF SerialInv, Minded, Minding, Spare, timers
<1>3. Stated(table') /\ \A i \in Ids' : Spare(i)' \/ Closing(i)'
  BY DEF SerialInv, Spare, Closing, Ids
<1>4. Interruptions' \in Nat /\ \A i \in Nat : Times(history', i) <= Interruptions' + 1
  BY DEF SerialInv
<1> QED BY <1>1, <1>2, <1>3, <1>4 DEF SerialInv

LEMMA CountedStep == Counted /\ [Next]_vars => Counted'
<1> SUFFICES ASSUME Counted, [Next]_vars PROVE Counted'
  OBVIOUS
<1>1. CASE \E k \in Key, item \in Item \cup {NoItem} : Plays(k, item)
  BY <1>1 DEF Plays, bounds, Counted
<1>2. CASE \E l \in Listener, k \in Key, item \in Item, state \in EventState :
             Receive(l, k, item, state)
  BY <1>2 DEF Receive, Counted
<1>3. ASSUME NEW l \in Listener, Handle(l) \/ HandlerRaises(l)
      PROVE  Counted'
  <2>1. CASE HandlerUpdate(l) \/ HandlerPaused(l) \/ HandlerSettle(l) \/ HandlerRecord(l)
    BY <2>1 DEF HandlerUpdate, HandlerPaused, HandlerSettle, HandlerRecord, bounds, Counted
  <2>2. CASE HandlerFinish(l) \/ HandlerLook(l) \/ HandlerWatchdog(l)
    BY <2>2 DEF HandlerFinish, HandlerLook, HandlerWatchdog, bounds, Counted
  <2>3. CASE HandlerStart(l)
    BY <2>3 DEF HandlerStart, bounds, Counted
  <2>4. CASE HandlerRaises(l)
    BY <2>4 DEF HandlerRaises, Break, Counted
  <2> QED BY <1>3, <2>1, <2>2, <2>3, <2>4 DEF Handle
<1>4. ASSUME NEW k \in Key,
             Fire(k) \/ CallbackRecord(k) \/ CallbackFinish(k) \/ CallbackRaises(k)
      PROVE  Counted'
  BY <1>4 DEF Fire, CallbackRecord, CallbackFinish, CallbackRaises, Break, bounds, Counted
<1>5. CASE Restart \/ Reconnect
  BY <1>5 DEF Restart, Reconnect, Counted
<1>6. CASE Ping
  BY <1>6 DEF Ping, PingerList, PingerCheck, PingerRecord, PingerFinish, PingerSync, PingerDone,
              PingerRaises, bounds, Counted
<1>7. CASE UNCHANGED vars
  BY <1>7 DEF vars, bounds, Counted
<1> QED BY <1>1, <1>2, <1>3, <1>4, <1>5, <1>6, <1>7 DEF Next

LEMMA SerialInvStep ==
  ASSUME Serial
  PROVE  MonitorInv /\ SerialInv /\ Counted /\ [Next]_vars => SerialInv'
<1> SUFFICES ASSUME MonitorInv, SerialInv, Counted, [Next]_vars PROVE SerialInv'
  OBVIOUS
<1>0. MonitorInv'
  BY MonitorInvStep
<1>1. ASSUME NEW k \in Key, NEW item \in Item \cup {NoItem}, Plays(k, item)
      PROVE  SerialInv'
  BY <1>1, SerialIdles DEF Plays, fates, records, bounds, Interruptions
<1>2. ASSUME NEW l \in Listener, NEW k \in Key, NEW item \in Item, NEW state \in EventState,
             Receive(l, k, item, state)
      PROVE  SerialInv'
  BY <1>0, <1>2, ReceiveSerial
<1>3. ASSUME NEW l \in Listener, Handle(l) \/ HandlerRaises(l)
      PROVE  SerialInv'
  <2>1. CASE HandlerUpdate(l) \/ HandlerStart(l) \/ HandlerLook(l)
    BY <1>0, <2>1, HandlerReadsSerial
  <2>2. CASE HandlerPaused(l) \/ HandlerSettle(l)
    BY <1>0, <2>2, HandlerWritesSerial
  <2>3. CASE HandlerRecord(l)
    BY <1>0, <2>3, HandlerRecordSerial
  <2>4. CASE HandlerFinish(l)
    BY <1>0, <2>4, HandlerFinishSerial
  <2>5. CASE HandlerWatchdog(l)
    BY <1>0, <2>5, HandlerWatchdogSerial
  <2>6. CASE HandlerRaises(l)
    BY <1>0, <2>6, HandlerRaisesSerial
  <2> QED BY <1>3, <2>1, <2>2, <2>3, <2>4, <2>5, <2>6 DEF Handle
<1>4. ASSUME NEW k \in Key,
             Fire(k) \/ CallbackRecord(k) \/ CallbackFinish(k) \/ CallbackRaises(k)
      PROVE  SerialInv'
  BY <1>0, <1>4, FireSerial, CallbackRecordSerial, CallbackFinishSerial, CallbackRaisesSerial
<1>5. CASE Restart \/ Reconnect
  BY <1>0, <1>5, StartSerial
<1>6. CASE Ping
  BY <1>0, <1>6, PingSerial
<1>7. CASE UNCHANGED vars
  BY <1>7, SerialIdles DEF vars, fates, records, bounds, Interruptions
<1> QED BY <1>1, <1>2, <1>3, <1>4, <1>5, <1>6, <1>7 DEF Next

LEMMA SerialInvHolds ==
  ASSUME Serial
  PROVE  Spec => [](MonitorInv /\ SerialInv)
<1>1. Init => MonitorInv /\ SerialInv /\ Counted
  BY MonitorInvInit, SerialInvInit DEF Init, Counted
<1>2. MonitorInv /\ SerialInv /\ Counted /\ [Next]_vars => (MonitorInv /\ SerialInv /\ Counted)'
  BY MonitorInvStep, SerialInvStep, CountedStep
<1> QED BY <1>1, <1>2, PTL DEF Spec

\* A play is written to the history once, and once more at most for each death of
\* the process and each exception that ends a handler or a job, as long as one
\* thread at a time works on a session: there is one listener, and no timer fires
\* during an event of its session or during the check.  Two listeners, or a timer
\* that fires during the stop event, can write the same row twice, each from a
\* copy of its own.
THEOREM MonitorDuplicates ==
  ASSUME Serial
  PROVE  Spec => []DuplicatesNeedInterruption
<1>1. ASSUME MonitorInv, SerialInv, Counted
      PROVE  DuplicatesNeedInterruption
  <2>1. \A i \in Recorded : i \in Nat
    BY <1>1 DEF MonitorInv, Kept, Table
  <2>2. ASSUME NEW i \in Recorded
        PROVE  Cardinality({n \in DOMAIN history : history[n] = i}) <= 1 + restarts + breaks
    <3>1. Times(history, i) <= Interruptions + 1
      BY <1>1, <2>1 DEF SerialInv
    <3>2. 1 + restarts + breaks = Interruptions + 1
      BY <1>1 DEF Counted, Interruptions
    <3> QED BY <3>1, <3>2 DEF Times
  <2> QED BY <2>2 DEF DuplicatesNeedInterruption
<1>2. MonitorInv /\ SerialInv /\ Counted => DuplicatesNeedInterruption
  BY <1>1
<1>3. Init => Counted
  BY DEF Init, Counted
<1>4. Spec => []Counted
  BY <1>3, CountedStep, PTL DEF Spec
<1> QED BY <1>2, <1>4, SerialInvHolds, PTL

\* Once a timer was set for a session, its rows are never left without one, under
\* the same conditions: every handler, every force_stop_stream and every check
\* leaves a job behind for the rows it does not remove, unless an exception ends it.
\* A timer that fires during an event can remove the row, which the event then
\* writes again with no timer.
THEOREM MonitorWatched ==
  ASSUME Serial
  PROVE  Spec => []StaleStreamWatched
<1>1. MonitorInv /\ SerialInv => StaleStreamWatched
  BY DEF SerialInv
<1> QED BY <1>1, SerialInvHolds, PTL
=============================================================================
