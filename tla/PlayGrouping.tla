---------------------------- MODULE PlayGrouping ----------------------------
(***************************************************************************)
(* How plays become entries of the history                                 *)
(* (plexpy/activity_processor.py: the end of write_session_history,        *)
(* group_history, regroup_history).                                        *)
(*                                                                         *)
(* A play that ends is a row of session_history; rows with one reference   *)
(* are one entry of every table and graph.  The thread that writes a row   *)
(* inserts it without a reference, reads the rows before it, sets the      *)
(* reference and writes the row's metadata, in transactions of their own.  *)
(* The websocket listener and the scheduler both write rows; regrouping    *)
(* runs in a thread beside them, and the administrator deletes rows and    *)
(* changes the watched percent meanwhile.                                  *)
(***************************************************************************)
EXTENDS Integers, Sequences

CONSTANTS
  Writer,       \* threads that write history
  User,         \* users
  Title,        \* items of the libraries, by rating_key
  Programme,    \* live television, by guid
  Offset,       \* positions at which a play may stop
  Threshold,    \* positions from which an item counts as watched
  MaxRows,      \* bound: plays
  MaxTroubles,  \* bound: failures, deletions, changes of the watched percent, days
  MaxRegroups   \* bound: regroupings

ASSUME GroupingAssumption ==
  /\ Title \cap Programme = {}
  /\ Offset \subseteq Nat /\ Threshold \subseteq Nat \ {0}
  /\ {MaxRows, MaxTroubles, MaxRegroups} \subseteq Nat

VARIABLES
  rows,      \* session_history: a row for every id that is not deleted
  plays,     \* every row ever inserted: whose it was, and of what
  writer,    \* per thread: the row it writes
  regroup,   \* the regrouping thread
  threshold, \* where the watched percent falls
  upset,     \* whether something disturbed the grouping since it was last right
  troubles, regroups

vars == <<rows, plays, writer, regroup, threshold, upset, troubles, regroups>>

None == 0 \* NULL: ids begin with one
Ids == DOMAIN rows
Key == Title \cup Programme
Free == [step |-> "free", row |-> None, new |-> None, ref |-> None]
Stopped == [step |-> "off", todo |-> {}, new |-> None, ref |-> None, clean |-> FALSE]

\* What a query returns that asks for the last row only: one of the rows, or none.
Latest(s) == {i \in s : \A j \in s : j <= i}

\* Something that happens seldom.
Trouble == troubles < MaxTroubles /\ troubles' = troubles + 1

(***************************************************************************)
(* group_history.                                                          *)
(***************************************************************************)
\* check_watched: percent and markers alike compare the position with a threshold.
\* A mistake: the position must lie beyond it.
Beyond(offset) == offset > threshold
Watched(offset) == offset >= threshold

\* The rows the query for a live programme looks at, and the one for other items.
Live(id, user) == {i \in Ids : i <= id /\ rows[i].user = user /\ rows[i].meta /\ ~rows[i].old}
\* A mistake: any item of the user.
SameUser(id, user, key) == {i \in Ids : i <= id /\ rows[i].user = user}
Same(id, user, key) == {i \in Ids : i <= id /\ rows[i].user = user /\ rows[i].key = key}

\* The play that joins and the one it joins, if the rule lets it: of a live programme
\* the row before is looked at, of other items the last two rows of the item.
Joined(id, user, key) ==
  IF key \in Programme
  THEN {[new |-> id, prev |-> prev] : prev \in {p \in Latest(Live(id, user)) : rows[p].key = key}}
  ELSE {pair \in [new : Latest(Same(id, user, key)), prev : Same(id, user, key)] :
          /\ pair.prev \in Latest(Same(id, user, key) \ {pair.new})
          /\ ~Watched(rows[pair.prev].offset)
          /\ rows[pair.prev].offset <= rows[pair.new].offset}

\* What the update will write: the reference of the row before, or the row's own id.
Grouped(id, user, key) ==
  IF Joined(id, user, key) = {} THEN [new |-> id, ref |-> id]
  ELSE LET pair == CHOOSE pair \in Joined(id, user, key) : TRUE
       IN [new |-> pair.new, ref |-> rows[pair.prev].ref]

\* The update.  Mistakes: it brings a deleted row back; only a play that joins another
\* is referred.
Upsert(new, ref) ==
  [i \in Ids \cup {new} |-> IF i = new THEN [ref |-> ref] ELSE rows[i]]
OnlyJoined(new, ref) ==
  [i \in Ids |-> IF i = new /\ ref # new THEN [rows[i] EXCEPT !.ref = ref] ELSE rows[i]]
Refer(new, ref) == [i \in Ids |-> IF i = new THEN [rows[i] EXCEPT !.ref = ref] ELSE rows[i]]

(***************************************************************************)
(* write_session_history, once the session is worth logging.               *)
(***************************************************************************)
\* Somebody else is at work on the history.
Busy(t) == regroup.step # "off" \/ \E o \in Writer \ {t} : writer[o].step # "free"

\* The row.  It disturbs whoever is at work.
Insert(t) ==
  /\ writer[t].step = "free" /\ Len(plays) < MaxRows
  /\ \E user \in User, key \in Key, offset \in Offset :
       LET id == Len(plays) + 1 IN
       /\ plays' = Append(plays, [user |-> user, key |-> key])
       /\ rows' = [i \in Ids \cup {id} |->
                    IF i = id THEN [user |-> user, key |-> key, offset |-> offset,
                                    ref |-> None, meta |-> FALSE, old |-> FALSE]
                              ELSE rows[i]]
       /\ writer' = [writer EXCEPT ![t] = [Free EXCEPT !.step = "select", !.row = id]]
  /\ upset' = (upset \/ Busy(t))
  /\ regroup' = [regroup EXCEPT !.clean = FALSE]
  /\ UNCHANGED <<threshold, troubles, regroups>>

\* group_history's query.
Select(t) ==
  LET id == writer[t].row
      g == Grouped(id, plays[id].user, plays[id].key) IN
  /\ writer[t].step = "select"
  /\ writer' = [writer EXCEPT ![t] = [step |-> "update", row |-> id, new |-> g.new, ref |-> g.ref]]
  /\ UNCHANGED <<rows, plays, regroup, threshold, upset, troubles, regroups>>

\* group_history's update.
Update(t) ==
  /\ writer[t].step = "update"
  /\ rows' = Refer(writer[t].new, writer[t].ref)
  /\ writer' = [writer EXCEPT ![t] = [Free EXCEPT !.step = "metadata", !.row = writer[t].row]]
  /\ UNCHANGED <<plays, regroup, threshold, upset, troubles, regroups>>

\* The row's media info and metadata.
Describe(t) ==
  /\ writer[t].step = "metadata"
  /\ rows' = [i \in Ids |-> IF i = writer[t].row THEN [rows[i] EXCEPT !.meta = TRUE] ELSE rows[i]]
  /\ writer' = [writer EXCEPT ![t] = Free]
  /\ UNCHANGED <<plays, regroup, threshold, upset, troubles, regroups>>

\* A statement fails, or the process dies: the row stays as it is.
Break(t) ==
  /\ writer[t].step # "free"
  /\ Trouble
  /\ writer' = [writer EXCEPT ![t] = Free]
  /\ upset' = TRUE
  /\ UNCHANGED <<rows, plays, regroup, threshold, regroups>>

(***************************************************************************)
(* regroup_history.                                                        *)
(***************************************************************************)
\* Every row that has metadata, in the order of their ids.  (Each request starts a thread
\* of its own; that two of them overlap is left out.)
StartRegroup ==
  /\ regroup.step = "off" /\ regroups < MaxRegroups
  /\ regroups' = regroups + 1
  /\ regroup' = [Stopped EXCEPT !.step = "select", !.todo = {i \in Ids : rows[i].meta},
                                !.clean = \A t \in Writer : writer[t].step = "free"]
  /\ UNCHANGED <<rows, plays, writer, threshold, upset, troubles>>

\* The next row of the list.  A mistake: the list is taken from its end.
FromTheEnd(todo) == Latest(todo)
Following(todo) == {i \in todo : \A j \in todo : i <= j}

SelectAgain ==
  /\ regroup.step = "select"
  /\ \E id \in Following(regroup.todo) :
       LET g == Grouped(id, plays[id].user, plays[id].key) IN
       regroup' = [step |-> "update", todo |-> regroup.todo \ {id},
                   new |-> g.new, ref |-> g.ref, clean |-> regroup.clean]
  /\ UNCHANGED <<rows, plays, writer, threshold, upset, troubles, regroups>>

UpdateAgain ==
  /\ regroup.step = "update"
  /\ rows' = Refer(regroup.new, regroup.ref)
  /\ regroup' = [regroup EXCEPT !.step = "select", !.new = None, !.ref = None]
  /\ UNCHANGED <<plays, writer, threshold, upset, troubles, regroups>>

\* The end: what disturbed the grouping before is repaired, unless it was disturbed
\* meanwhile.
EndRegroup ==
  /\ regroup.step = "select" /\ regroup.todo = {}
  /\ regroup' = Stopped
  /\ upset' = (upset /\ ~regroup.clean)
  /\ UNCHANGED <<rows, plays, writer, threshold, troubles, regroups>>

\* A statement fails: regrouping ends where it is.
BreakRegroup ==
  /\ regroup.step # "off"
  /\ Trouble
  /\ regroup' = Stopped
  /\ upset' = TRUE
  /\ UNCHANGED <<rows, plays, writer, threshold, regroups>>

(***************************************************************************)
(* The administrator and the clock.                                        *)
(***************************************************************************)
Edited ==
  /\ Trouble
  /\ upset' = TRUE
  /\ regroup' = [regroup EXCEPT !.clean = FALSE]
  /\ UNCHANGED <<plays, writer, regroups>>

\* delete_session_history_rows.
Delete(id) ==
  /\ rows' = [i \in Ids \ {id} |-> rows[i]]
  /\ Edited /\ UNCHANGED threshold

\* The watched percent.
Configure(position) ==
  /\ position # threshold /\ threshold' = position
  /\ Edited /\ UNCHANGED rows

\* A day passes, for every row there is.
Day ==
  /\ Trouble
  /\ \E i \in Ids : ~rows[i].old
  /\ rows' = [i \in Ids |-> [rows[i] EXCEPT !.old = TRUE]]
  /\ UNCHANGED <<plays, writer, regroup, threshold, upset, regroups>>

-----------------------------------------------------------------------------
Init ==
  /\ rows = [i \in {} |-> 0]
  /\ plays = <<>>
  /\ writer = [t \in Writer |-> Free]
  /\ regroup = Stopped
  /\ threshold \in Threshold
  /\ upset = FALSE
  /\ troubles = 0 /\ regroups = 0

Next ==
  \/ \E t \in Writer : Insert(t) \/ Select(t) \/ Update(t) \/ Describe(t) \/ Break(t)
  \/ StartRegroup \/ SelectAgain \/ UpdateAgain \/ EndRegroup \/ BreakRegroup
  \/ \E id \in Ids : Delete(id)
  \/ \E position \in Threshold : Configure(position)
  \/ Day

Spec == Init /\ [][Next]_vars

-----------------------------------------------------------------------------
(***************************************************************************)
(* Properties.                                                             *)
(***************************************************************************)
Row == [user : User, key : Key, offset : Offset, ref : Nat, meta : BOOLEAN, old : BOOLEAN]

\* Types; a row on disk is one of the plays, and a thread works on one of them.
TypeOK ==
  /\ plays \in Seq([user : User, key : Key])
  /\ Ids \subseteq DOMAIN plays
  /\ rows \in [Ids -> Row]
  /\ \A i \in Ids : rows[i].user = plays[i].user /\ rows[i].key = plays[i].key
  /\ writer \in [Writer -> [step : {"free", "select", "update", "metadata"},
                            row : Nat, new : Nat, ref : Nat]]
  /\ \A t \in Writer : writer[t].step # "free" => writer[t].row \in DOMAIN plays
  /\ regroup \in [step : {"off", "select", "update"}, todo : SUBSET (DOMAIN plays),
                  new : Nat, ref : Nat, clean : BOOLEAN]
  /\ threshold \in Threshold /\ upset \in BOOLEAN
  /\ troubles \in Nat /\ regroups \in Nat

\* One entry of the history is one user's plays of one thing, whichever threads
\* grouped them and whatever was deleted between.
EntryIsOneTitle ==
  \A i, j \in Ids :
    rows[i].ref = rows[j].ref /\ rows[i].ref # None =>
      rows[i].user = rows[j].user /\ rows[i].key = rows[j].key

\* The rule, for an item of a library: a play joins the entry of the last play of
\* the item by the user, if that stopped before the threshold and not further on.
Before(i) == {j \in Ids : j < i /\ rows[j].user = rows[i].user /\ rows[j].key = rows[i].key}
Continues(i, j) ==
  /\ \A k \in Before(i) : k <= j
  /\ rows[j].offset < threshold /\ rows[j].offset <= rows[i].offset
GroupedByRule ==
  ~upset => \A i \in Ids :
    rows[i].key \in Title /\ rows[i].meta =>
      IF \E j \in Before(i) : Continues(i, j)
      THEN \E j \in Before(i) : Continues(i, j) /\ rows[i].ref = rows[j].ref
      ELSE rows[i].ref = i

\* A row that was written to its end stays without an entry, so that the tables count
\* it with every other such row as one play, only after two writers came between each
\* other, or behind a row of the same item that a failure left half-written: grouping
\* copies the missing reference onwards, and grouping everything again repairs neither
\* that row nor the ones behind it.
AlwaysReferred ==
  ~upset => \A i \in Ids :
    rows[i].ref = None /\ rows[i].meta => \E j \in Before(i) : ~rows[j].meta

\* Grouping the whole history again leaves the entries of live television as they
\* were.
RegroupKeepsLive ==
  [][\A i \in Ids \cap DOMAIN rows' :
       UpdateAgain /\ rows[i].key \in Programme => rows'[i].ref = rows[i].ref]_vars
=============================================================================
