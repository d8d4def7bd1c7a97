------------------------ MODULE PlayGrouping_proofs ------------------------
(***************************************************************************)
(* Proofs about PlayGrouping: its types, and that no entry of the history  *)
(* mixes users or items, for any number of writers, plays and troubles.    *)
(*                                                                         *)
(* A reference is copied from row to row, so what has to be kept is not    *)
(* that two rows of an entry agree but that a reference names a play of    *)
(* the same user and item; and a thread that has read a reference carries  *)
(* it past the steps of others, so the same is kept of what it carries.    *)
(***************************************************************************)
EXTENDS PlayGrouping, TLAPS

Play == [user : User, key : Key]

\* A reference, where there is one, names a play like the row's.
Names(ref, i) == ref # None => ref \in DOMAIN plays /\ plays[ref] = plays[i]
RefInv == \A i \in Ids : Names(rows[i].ref, i)

\* What a thread is about to write, too.
CarriedInv ==
  /\ \A t \in Writer : writer[t].step = "update" =>
       writer[t].new \in DOMAIN plays /\ Names(writer[t].ref, writer[t].new)
  /\ regroup.step = "update" =>
       regroup.new \in DOMAIN plays /\ Names(regroup.ref, regroup.new)

GroupingInv == TypeOK /\ RefInv /\ CarriedInv

-----------------------------------------------------------------------------
\* What group_history decides refers a play to a play like it.
LEMMA GroupedNames ==
  ASSUME TypeOK, RefInv, NEW id \in DOMAIN plays
  PROVE  LET g == Grouped(id, plays[id].user, plays[id].key) IN
         /\ g.new \in DOMAIN plays /\ g.new \in Nat /\ g.ref \in Nat /\ Names(g.ref, g.new)
         /\ plays[g.new] = plays[id]
<1> DEFINE user == plays[id].user
           key == plays[id].key
           joined == Joined(id, user, key)
<1>0. plays \in Seq(Play)
  BY DEF TypeOK, Play
<1>1. /\ DOMAIN plays \subseteq Nat /\ 0 \notin DOMAIN plays
      /\ \A i \in DOMAIN plays : plays[i] \in Play
  BY <1>0
<1>2. CASE joined = {}
  <2>1. Grouped(id, user, key) = [new |-> id, ref |-> id]
    BY <1>2 DEF Grouped
  <2> QED BY <2>1, <1>1 DEF Names, None
<1>3. CASE joined # {}
  <2> DEFINE pair == CHOOSE p \in joined : TRUE
  <2>1. pair \in joined
    BY <1>3
  <2>2. Grouped(id, user, key) = [new |-> pair.new, ref |-> rows[pair.prev].ref]
    BY <1>3 DEF Grouped
  <2>3. ASSUME NEW p \in joined
        PROVE  /\ p.prev \in Ids /\ rows[p.prev].user = user /\ rows[p.prev].key = key
               /\ p.new \in DOMAIN plays /\ plays[p.new] = plays[id]
    <3>1. CASE key \in Programme
      <4>1. PICK prev \in Latest(Live(id, user)) :
              rows[prev].key = key /\ p = [new |-> id, prev |-> prev]
        BY <3>1 DEF Joined
      <4>2. p.new = id /\ p.prev = prev
        BY <4>1
      <4>3. prev \in Ids /\ rows[prev].user = user
        BY <4>1 DEF Latest, Live
      <4> QED BY <4>1, <4>2, <4>3
    <3>2. CASE key \notin Programme
      <4> DEFINE same == Same(id, user, key)
      <4>1. p \in [new : Latest(same), prev : same]
        BY <3>2 DEF Joined
      <4>2. p.new \in Latest(same) /\ p.prev \in same
        BY <4>1
      <4>3. p.new \in same
        BY <4>2 DEF Latest
      <4>4. same \subseteq Ids /\ \A i \in same : rows[i].user = user /\ rows[i].key = key
        BY DEF Same
      <4>5. p.new \in DOMAIN plays /\ plays[p.new].user = user /\ plays[p.new].key = key
        BY <4>3, <4>4 DEF TypeOK
      <4>6. plays[p.new] \in Play /\ plays[id] \in Play
        BY <4>5, <1>1
      <4>7. plays[p.new] = plays[id]
        BY <4>5, <4>6 DEF Play
      <4> QED BY <4>2, <4>4, <4>5, <4>7
    <3> QED BY <3>1, <3>2
  <2> HIDE DEF pair, joined
  <2>4. pair.prev \in DOMAIN plays /\ plays[pair.prev] \in Play /\ plays[id] \in Play
    BY <2>1, <2>3, <1>1 DEF TypeOK
  <2>5. plays[pair.prev].user = user /\ plays[pair.prev].key = key
    BY <2>1, <2>3 DEF TypeOK
  <2>6. plays[pair.prev] = plays[id]
    BY <2>4, <2>5 DEF Play
  <2>7. Names(rows[pair.prev].ref, pair.prev)
    BY <2>1, <2>3 DEF RefInv
  <2>8. rows[pair.prev].ref \in Nat
    BY <2>1, <2>3 DEF TypeOK, Row
  <2>9. Names(rows[pair.prev].ref, pair.new)
    BY <2>1, <2>3, <2>6, <2>7 DEF Names
  <2> QED BY <2>1, <2>2, <2>3, <2>8, <2>9, <1>1
<1> QED BY <1>2, <1>3

\* The update keeps the rows typed, and every reference named, if what it writes is.
LEMMA ReferKeeps ==
  ASSUME TypeOK, RefInv, NEW new \in Nat, NEW ref \in Nat, new \in DOMAIN plays, Names(ref, new),
         rows' = Refer(new, ref), plays' = plays
  PROVE  /\ Ids' = Ids
         /\ rows' \in [Ids -> Row]
         /\ \A i \in Ids : rows'[i].user = rows[i].user /\ rows'[i].key = rows[i].key
         /\ RefInv'
<1>1. Ids' = Ids
  BY DEF Refer, Ids
<1>2. \A i \in Ids : rows'[i] = IF i = new THEN [rows[i] EXCEPT !.ref = ref] ELSE rows[i]
  BY DEF Refer
<1>3. \A i \in Ids : rows[i] \in Row
  BY DEF TypeOK
<1>4. \A i \in Ids : rows'[i] \in Row /\ rows'[i].user = rows[i].user /\ rows'[i].key = rows[i].key
  BY <1>2, <1>3 DEF Row
<1>5. rows' \in [Ids -> Row]
  BY <1>1, <1>4 DEF Refer, Ids
<1>6. RefInv'
  <2> SUFFICES ASSUME NEW i \in Ids PROVE Names(rows[i].ref, i)'
    BY <1>1 DEF RefInv
  <2>1. CASE i = new
    <3>1. rows'[i].ref = ref
      BY <1>2, <1>3, <2>1 DEF Row
    <3> QED BY <3>1, <2>1 DEF Names, None
  <2>2. CASE i # new
    BY <1>2, <2>2 DEF RefInv, Names, None
  <2> QED BY <2>1, <2>2
<1> QED BY <1>1, <1>4, <1>5, <1>6

-----------------------------------------------------------------------------
\* The initial states.
LEMMA InitGrouping == Init => GroupingInv
<1> SUFFICES ASSUME Init PROVE GroupingInv
  OBVIOUS
<1>1. Ids = {} /\ rows \in [Ids -> Row]
  BY DEF Init, Ids
<1>2. plays = <<>> /\ DOMAIN plays = {}
  BY DEF Init
<1>3. plays \in Seq([user : User, key : Key])
  BY <1>2
<1>4. /\ writer \in [Writer -> [step : {"free", "select", "update", "metadata"},
                                row : Nat, new : Nat, ref : Nat]]
      /\ \A t \in Writer : writer[t].step = "free"
  BY DEF Init, Free, None
<1>5. regroup \in [step : {"off", "select", "update"}, todo : SUBSET (DOMAIN plays),
                   new : Nat, ref : Nat, clean : BOOLEAN]
  BY DEF Init, Stopped, None
<1>6. TypeOK
  BY <1>1, <1>3, <1>4, <1>5 DEF Init, TypeOK
<1>7. regroup.step = "off"
  BY DEF Init, Stopped
<1> QED BY <1>1, <1>4, <1>6, <1>7 DEF GroupingInv, RefInv, CarriedInv

\* The new row has no reference, and the plays before it stay what they were.
LEMMA InsertKeeps ==
  ASSUME GroupingInv, NEW t \in Writer, Insert(t)
  PROVE  GroupingInv'
<1> USE DEF GroupingInv
<1>1. PICK user \in User, key \in Key, offset \in Offset :
        /\ plays' = Append(plays, [user |-> user, key |-> key])
        /\ rows' = [i \in Ids \cup {Len(plays) + 1} |->
                     IF i = Len(plays) + 1
                     THEN [user |-> user, key |-> key, offset |-> offset,
                           ref |-> None, meta |-> FALSE, old |-> FALSE]
                     ELSE rows[i]]
        /\ writer' = [writer EXCEPT ![t] = [Free EXCEPT !.step = "select", !.row = Len(plays) + 1]]
  BY DEF Insert
<1> DEFINE id == Len(plays) + 1
<1>2. /\ plays \in Seq(Play) /\ Len(plays) \in Nat /\ DOMAIN plays = 1 .. Len(plays)
  BY DEF TypeOK, Play
<1>3. [user |-> user, key |-> key] \in Play
  BY DEF Play
<1>4. /\ plays' \in Seq(Play) /\ Len(plays') = id /\ DOMAIN plays' = DOMAIN plays \cup {id}
      /\ plays'[id] = [user |-> user, key |-> key]
      /\ \A i \in DOMAIN plays : plays'[i] = plays[i]
  BY <1>1, <1>2, <1>3
<1>5. Ids' = Ids \cup {id} /\ id \notin DOMAIN plays /\ id \in Nat /\ id \notin Ids
  BY <1>1, <1>2 DEF Ids, TypeOK
<1>6. /\ rows'[id] = [user |-> user, key |-> key, offset |-> offset,
                      ref |-> None, meta |-> FALSE, old |-> FALSE]
      /\ \A i \in Ids : rows'[i] = rows[i]
  BY <1>1, <1>5
<1>7. rows'[id] \in Row
  BY <1>6 DEF Row, None
<1>8. rows' \in [Ids' -> Row]
  BY <1>1, <1>5, <1>6, <1>7 DEF TypeOK
<1>9. \A i \in Ids' : rows'[i].user = plays'[i].user /\ rows'[i].key = plays'[i].key
  <2> TAKE i \in Ids'
  <2>1. CASE i = id
    BY <2>1, <1>6, <1>4
  <2>2. CASE i \in Ids
    BY <2>2, <1>6, <1>4 DEF TypeOK
  <2> QED BY <2>1, <2>2, <1>5
<1>10. /\ writer' \in [Writer -> [step : {"free", "select", "update", "metadata"},
                                  row : Nat, new : Nat, ref : Nat]]
       /\ writer'[t].step = "select" /\ writer'[t].row = id
       /\ \A o \in Writer \ {t} : writer'[o] = writer[o]
  BY <1>1, <1>5 DEF TypeOK, Free, None
<1>11. \A o \in Writer : writer'[o].step # "free" => writer'[o].row \in DOMAIN plays'
  BY <1>10, <1>4 DEF TypeOK
<1>12. /\ regroup'.step = regroup.step /\ regroup'.new = regroup.new /\ regroup'.ref = regroup.ref
       /\ regroup' \in [step : {"off", "select", "update"}, todo : SUBSET (DOMAIN plays'),
                        new : Nat, ref : Nat, clean : BOOLEAN]
  BY <1>4 DEF Insert, TypeOK
<1>13. threshold' \in Threshold /\ upset' \in BOOLEAN /\ troubles' \in Nat /\ regroups' \in Nat
  BY DEF Insert, TypeOK, Busy
<1>14. TypeOK'
  BY <1>4, <1>5, <1>8, <1>9, <1>10, <1>11, <1>12, <1>13 DEF TypeOK, Play
<1>15. ASSUME NEW ref, NEW i \in DOMAIN plays, Names(ref, i)
       PROVE  ref # None => ref \in DOMAIN plays' /\ plays'[ref] = plays'[i]
  BY <1>4, <1>15 DEF Names
<1>16. ASSUME NEW i \in Ids'
       PROVE  rows'[i].ref # None =>
                rows'[i].ref \in DOMAIN plays' /\ plays'[rows'[i].ref] = plays'[i]
  <2>1. CASE i = id
    BY <2>1, <1>6
  <2>2. CASE i \in Ids
    <3>1. i \in DOMAIN plays /\ Names(rows[i].ref, i)
      BY <2>2 DEF RefInv, TypeOK
    <3>2. rows'[i] = rows[i]
      BY <2>2, <1>6
    <3> QED BY <3>1, <3>2, <1>15
  <2> QED BY <2>1, <2>2, <1>5
<1>17. RefInv'
  BY <1>16 DEF RefInv, Names, None
<1>18. ASSUME NEW o \in Writer, writer'[o].step = "update"
       PROVE  /\ writer'[o].new \in DOMAIN plays'
              /\ writer'[o].ref # None =>
                   /\ writer'[o].ref \in DOMAIN plays'
                   /\ plays'[writer'[o].ref] = plays'[writer'[o].new]
  <2>1. o # t /\ writer'[o] = writer[o]
    BY <1>10, <1>18
  <2>2. writer[o].new \in DOMAIN plays /\ Names(writer[o].ref, writer[o].new)
    BY <2>1, <1>18 DEF CarriedInv
  <2> QED BY <2>1, <2>2, <1>15, <1>4
<1>19. ASSUME regroup'.step = "update"
       PROVE  /\ regroup'.new \in DOMAIN plays'
              /\ regroup'.ref # None =>
                   regroup'.ref \in DOMAIN plays' /\ plays'[regroup'.ref] = plays'[regroup'.new]
  <2>1. regroup.new \in DOMAIN plays /\ Names(regroup.ref, regroup.new)
    BY <1>12, <1>19 DEF CarriedInv
  <2> QED BY <2>1, <1>12, <1>15, <1>4
<1>20. CarriedInv'
  BY <1>18, <1>19 DEF CarriedInv, Names, None
<1> QED BY <1>14, <1>17, <1>20

\* A thread that has read what group_history decides carries a good reference.
LEMMA SelectKeeps ==
  ASSUME GroupingInv, NEW t \in Writer, Select(t)
  PROVE  GroupingInv'
<1> USE DEF GroupingInv
<1> DEFINE id == writer[t].row
           g == Grouped(id, plays[id].user, plays[id].key)
<1>1. id \in DOMAIN plays
  BY DEF Select, TypeOK
<1>2. g.new \in DOMAIN plays /\ g.new \in Nat /\ g.ref \in Nat /\ Names(g.ref, g.new)
  BY <1>1, GroupedNames
<1>3. /\ writer' = [writer EXCEPT ![t] = [step |-> "update", row |-> id,
                                          new |-> g.new, ref |-> g.ref]]
      /\ UNCHANGED <<rows, plays, regroup, threshold, upset, troubles, regroups>>
  BY DEF Select
<1> HIDE DEF g, id
<1>4. /\ writer' \in [Writer -> [step : {"free", "select", "update", "metadata"},
                                 row : Nat, new : Nat, ref : Nat]]
      /\ writer'[t].new = g.new /\ writer'[t].ref = g.ref /\ writer'[t].row = writer[t].row
      /\ \A o \in Writer \ {t} : writer'[o] = writer[o]
  <2> DEFINE place == [step |-> "update", row |-> writer[t].row, new |-> g.new, ref |-> g.ref]
  <2>1. writer[t] \in [step : {"free", "select", "update", "metadata"},
                       row : Nat, new : Nat, ref : Nat]
    BY DEF TypeOK
  <2>2. writer' = [writer EXCEPT ![t] = place]
    BY <1>3 DEF id
  <2>3. place \in [step : {"free", "select", "update", "metadata"},
                  row : Nat, new : Nat, ref : Nat]
    BY <1>2, <2>1
  <2> HIDE DEF place
  <2>4. writer' \in [Writer -> [step : {"free", "select", "update", "metadata"},
                               row : Nat, new : Nat, ref : Nat]]
    BY <2>2, <2>3 DEF TypeOK
  <2>5. writer'[t] = place /\ \A o \in Writer \ {t} : writer'[o] = writer[o]
    BY <2>2 DEF TypeOK
  <2> QED BY <2>4, <2>5 DEF place
<1>5. \A o \in Writer : writer'[o].step # "free" => writer'[o].row \in DOMAIN plays
  BY <1>1, <1>4 DEF TypeOK, id
<1>6. TypeOK'
  BY <1>3, <1>4, <1>5 DEF TypeOK, Ids
<1>7. RefInv'
  BY <1>3 DEF RefInv, Names, Ids
<1>8. CarriedInv'
  BY <1>2, <1>3, <1>4 DEF CarriedInv, Names
<1> QED BY <1>6, <1>7, <1>8

\* A thread that leaves the history alone and goes to a step that carries nothing.
LEMMA WriterLeaves ==
  ASSUME GroupingInv, NEW t \in Writer, NEW place,
         writer' = [writer EXCEPT ![t] = place],
         place \in [step : {"free", "select", "metadata"}, row : Nat, new : Nat, ref : Nat],
         place.step # "free" => place.row \in DOMAIN plays
  PROVE  /\ writer' \in [Writer -> [step : {"free", "select", "update", "metadata"},
                                    row : Nat, new : Nat, ref : Nat]]
         /\ \A o \in Writer : writer'[o].step # "free" => writer'[o].row \in DOMAIN plays
         /\ \A o \in Writer : writer'[o].step = "update" =>
              /\ writer'[o].new \in DOMAIN plays
              /\ Names(writer'[o].ref, writer'[o].new)
<1>1. /\ writer'[t] = place
      /\ \A o \in Writer \ {t} : writer'[o] = writer[o]
      /\ DOMAIN writer' = Writer
  BY DEF GroupingInv, TypeOK
<1>2. writer' \in [Writer -> [step : {"free", "select", "update", "metadata"},
                             row : Nat, new : Nat, ref : Nat]]
  <2>1. place \in [step : {"free", "select", "update", "metadata"},
                   row : Nat, new : Nat, ref : Nat]
    OBVIOUS
  <2> QED BY <2>1 DEF GroupingInv, TypeOK
<1>3. \A o \in Writer : writer'[o].step # "free" => writer'[o].row \in DOMAIN plays
  BY <1>1 DEF GroupingInv, TypeOK
<1>4. place.step # "update"
  OBVIOUS
<1> QED BY <1>1, <1>2, <1>3, <1>4 DEF GroupingInv, CarriedInv

\* The update refers the row; the thread goes on.
LEMMA UpdateKeeps ==
  ASSUME GroupingInv, NEW t \in Writer, Update(t)
  PROVE  GroupingInv'
<1> USE DEF GroupingInv
<1> DEFINE place == [Free EXCEPT !.step = "metadata", !.row = writer[t].row]
<1>1. /\ writer[t].step = "update" /\ rows' = Refer(writer[t].new, writer[t].ref)
      /\ writer' = [writer EXCEPT ![t] = place]
      /\ UNCHANGED <<plays, regroup, threshold, upset, troubles, regroups>>
  BY DEF Update
<1>2. /\ writer[t].new \in Nat /\ writer[t].ref \in Nat /\ writer[t].row \in Nat
      /\ writer[t].row \in DOMAIN plays
      /\ writer[t].new \in DOMAIN plays /\ Names(writer[t].ref, writer[t].new)
  BY <1>1 DEF TypeOK, CarriedInv
<1>3. /\ Ids' = Ids /\ rows' \in [Ids -> Row] /\ RefInv'
      /\ \A i \in Ids : rows'[i].user = rows[i].user /\ rows'[i].key = rows[i].key
  BY <1>1, <1>2, ReferKeeps
<1>4. /\ place \in [step : {"free", "select", "metadata"}, row : Nat, new : Nat, ref : Nat]
      /\ place.row \in DOMAIN plays
  BY <1>2 DEF Free, None
<1> HIDE DEF place
<1>5. /\ writer' \in [Writer -> [step : {"free", "select", "update", "metadata"},
                                 row : Nat, new : Nat, ref : Nat]]
      /\ \A o \in Writer : writer'[o].step # "free" => writer'[o].row \in DOMAIN plays
      /\ \A o \in Writer : writer'[o].step = "update" =>
           writer'[o].new \in DOMAIN plays /\ Names(writer'[o].ref, writer'[o].new)
  BY <1>1, <1>4, WriterLeaves
<1>6. TypeOK'
  BY <1>1, <1>3, <1>5 DEF TypeOK
<1>7. CarriedInv'
  BY <1>1, <1>5 DEF CarriedInv, Names
<1> QED BY <1>3, <1>6, <1>7

\* Writing the metadata, and failing to write anything, refers nothing.
LEMMA DescribeOrBreakKeeps ==
  ASSUME GroupingInv, NEW t \in Writer, Describe(t) \/ Break(t)
  PROVE  GroupingInv'
<1> USE DEF GroupingInv
<1>1. /\ writer' = [writer EXCEPT ![t] = Free]
      /\ UNCHANGED <<plays, regroup, threshold, regroups>>
      /\ upset' \in BOOLEAN /\ troubles' \in Nat
  <2>1. CASE Describe(t)
    BY <2>1 DEF Describe, TypeOK
  <2>2. CASE Break(t)
    BY <2>2 DEF Break, Trouble, TypeOK
  <2> QED BY <2>1, <2>2
<1>2. Free \in [step : {"free", "select", "metadata"}, row : Nat, new : Nat, ref : Nat]
      /\ Free.step = "free"
  BY DEF Free, None
<1>3. /\ writer' \in [Writer -> [step : {"free", "select", "update", "metadata"},
                                 row : Nat, new : Nat, ref : Nat]]
      /\ \A o \in Writer : writer'[o].step # "free" => writer'[o].row \in DOMAIN plays
      /\ \A o \in Writer : writer'[o].step = "update" =>
           writer'[o].new \in DOMAIN plays /\ Names(writer'[o].ref, writer'[o].new)
  BY <1>1, <1>2, WriterLeaves
<1>4. /\ Ids' = Ids /\ rows' \in [Ids -> Row]
      /\ \A i \in Ids : /\ rows'[i].user = rows[i].user /\ rows'[i].key = rows[i].key
                        /\ rows'[i].ref = rows[i].ref
  <2>1. CASE Describe(t)
    <3>1. rows' = [i \in Ids |-> IF i = writer[t].row THEN [rows[i] EXCEPT !.meta = TRUE] ELSE rows[i]]
      BY <2>1 DEF Describe
    <3>2. \A i \in Ids : rows[i] \in Row
      BY DEF TypeOK
    <3>3. \A i \in Ids : [rows[i] EXCEPT !.meta = TRUE] \in Row
      BY <3>2 DEF Row
    <3>4. Ids' = Ids
      BY <3>1 DEF Ids
    <3>5. rows' \in [Ids -> Row]
      BY <3>1, <3>2, <3>3, Zenon
    <3>6. \A i \in Ids : /\ rows'[i].user = rows[i].user /\ rows'[i].key = rows[i].key
                         /\ rows'[i].ref = rows[i].ref
      BY <3>1, <3>2 DEF Row
    <3> QED BY <3>4, <3>5, <3>6
  <2>2. CASE Break(t)
    BY <2>2 DEF Break, Ids, TypeOK
  <2> QED BY <2>1, <2>2
<1>5. TypeOK'
  BY <1>1, <1>3, <1>4 DEF TypeOK
<1>6. RefInv'
  BY <1>1, <1>4 DEF RefInv, Names
<1>7. CarriedInv'
  BY <1>1, <1>3 DEF CarriedInv, Names
<1> QED BY <1>5, <1>6, <1>7

\* Regrouping reads a row's new reference as the writers do.
LEMMA SelectAgainKeeps ==
  ASSUME GroupingInv, SelectAgain
  PROVE  GroupingInv'
<1> USE DEF GroupingInv
<1>1. PICK id \in Following(regroup.todo) :
        LET g == Grouped(id, plays[id].user, plays[id].key) IN
        regroup' = [step |-> "update", todo |-> regroup.todo \ {id},
                    new |-> g.new, ref |-> g.ref, clean |-> regroup.clean]
  BY DEF SelectAgain
<1> DEFINE g == Grouped(id, plays[id].user, plays[id].key)
<1>2. id \in DOMAIN plays
  BY DEF Following, TypeOK
<1>3. g.new \in DOMAIN plays /\ g.new \in Nat /\ g.ref \in Nat /\ Names(g.ref, g.new)
  BY <1>2, GroupedNames
<1>4. /\ regroup' = [step |-> "update", todo |-> regroup.todo \ {id},
                     new |-> g.new, ref |-> g.ref, clean |-> regroup.clean]
      /\ UNCHANGED <<rows, plays, writer, threshold, upset, troubles, regroups>>
  BY <1>1 DEF SelectAgain
<1> HIDE DEF g
<1>5. /\ regroup' \in [step : {"off", "select", "update"}, todo : SUBSET (DOMAIN plays),
                       new : Nat, ref : Nat, clean : BOOLEAN]
      /\ regroup'.new = g.new /\ regroup'.ref = g.ref
  BY <1>3, <1>4 DEF TypeOK
<1>6. TypeOK'
  BY <1>4, <1>5 DEF TypeOK, Ids
<1>7. RefInv'
  BY <1>4 DEF RefInv, Names, Ids
<1>8. CarriedInv'
  BY <1>3, <1>4, <1>5 DEF CarriedInv, Names
<1> QED BY <1>6, <1>7, <1>8

\* Regrouping writes what it has read.
LEMMA UpdateAgainKeeps ==
  ASSUME GroupingInv, UpdateAgain
  PROVE  GroupingInv'
<1> USE DEF GroupingInv
<1>1. /\ regroup.step = "update" /\ rows' = Refer(regroup.new, regroup.ref)
      /\ regroup' = [regroup EXCEPT !.step = "select", !.new = None, !.ref = None]
      /\ UNCHANGED <<plays, writer, threshold, upset, troubles, regroups>>
  BY DEF UpdateAgain
<1>2. /\ regroup.new \in Nat /\ regroup.ref \in Nat
      /\ regroup.new \in DOMAIN plays /\ Names(regroup.ref, regroup.new)
  BY <1>1 DEF TypeOK, CarriedInv
<1>3. /\ Ids' = Ids /\ rows' \in [Ids -> Row] /\ RefInv'
      /\ \A i \in Ids : rows'[i].user = rows[i].user /\ rows'[i].key = rows[i].key
  BY <1>1, <1>2, ReferKeeps
<1>4. /\ regroup' \in [step : {"off", "select", "update"}, todo : SUBSET (DOMAIN plays),
                       new : Nat, ref : Nat, clean : BOOLEAN]
      /\ regroup'.step = "select"
  BY <1>1 DEF TypeOK, None
<1>5. TypeOK'
  BY <1>1, <1>3, <1>4 DEF TypeOK
<1>6. CarriedInv'
  BY <1>1, <1>4 DEF CarriedInv, Names
<1> QED BY <1>3, <1>5, <1>6

\* Regrouping begins and ends without a reference in its hand.
LEMMA BoundsOfRegroupKeep ==
  ASSUME GroupingInv, StartRegroup \/ EndRegroup \/ BreakRegroup
  PROVE  GroupingInv'
<1> USE DEF GroupingInv
<1>1. UNCHANGED <<rows, plays, writer, threshold>>
  BY DEF StartRegroup, EndRegroup, BreakRegroup
<1>2. Stopped \in [step : {"off", "select", "update"}, todo : SUBSET (DOMAIN plays),
                   new : Nat, ref : Nat, clean : BOOLEAN]
      /\ Stopped.step = "off"
  BY DEF Stopped, None
<1>3. {i \in Ids : rows[i].meta} \in SUBSET (DOMAIN plays)
  BY DEF TypeOK
<1>4. /\ regroup' \in [step : {"off", "select", "update"}, todo : SUBSET (DOMAIN plays),
                       new : Nat, ref : Nat, clean : BOOLEAN]
      /\ regroup'.step # "update"
  <2>1. CASE StartRegroup
    <3> DEFINE clean == \A t \in Writer : writer[t].step = "free"
    <3>1. clean \in BOOLEAN
      OBVIOUS
    <3>2. regroup' = [Stopped EXCEPT !.step = "select", !.todo = {i \in Ids : rows[i].meta},
                                     !.clean = clean]
      BY <2>1 DEF StartRegroup
    <3> HIDE DEF clean
    <3> QED BY <3>1, <3>2, <1>3 DEF Stopped, None
  <2>2. CASE EndRegroup
    BY <2>2, <1>2 DEF EndRegroup
  <2>3. CASE BreakRegroup
    BY <2>3, <1>2 DEF BreakRegroup
  <2> QED BY <2>1, <2>2, <2>3
<1>5. upset' \in BOOLEAN /\ troubles' \in Nat /\ regroups' \in Nat
  <2>1. CASE StartRegroup
    BY <2>1 DEF StartRegroup, TypeOK
  <2>2. CASE EndRegroup
    BY <2>2 DEF EndRegroup, TypeOK
  <2>3. CASE BreakRegroup
    BY <2>3 DEF BreakRegroup, Trouble, TypeOK
  <2> QED BY <2>1, <2>2, <2>3
<1>6. TypeOK'
  BY <1>1, <1>4, <1>5 DEF TypeOK, Ids
<1>7. RefInv'
  BY <1>1 DEF RefInv, Names, Ids
<1>8. CarriedInv'
  BY <1>1, <1>4 DEF CarriedInv, Names
<1> QED BY <1>6, <1>7, <1>8

\* A deleted play keeps naming what it was: that is why the references to it stay good.
LEMMA EditKeeps ==
  ASSUME GroupingInv,
         (\E id \in Ids : Delete(id)) \/ (\E position \in Threshold : Configure(position)) \/ Day
  PROVE  GroupingInv'
<1> USE DEF GroupingInv
<1>1. /\ UNCHANGED <<plays, writer, regroups>> /\ troubles' \in Nat
      /\ threshold' \in Threshold
  <2>1. CASE \E id \in Ids : Delete(id)
    BY <2>1 DEF Delete, Edited, Trouble, TypeOK
  <2>2. CASE \E position \in Threshold : Configure(position)
    BY <2>2 DEF Configure, Edited, Trouble, TypeOK
  <2>3. CASE Day
    BY <2>3 DEF Day, Trouble, TypeOK
  <2> QED BY <2>1, <2>2, <2>3
<1>2. upset' \in BOOLEAN
  BY DEF Delete, Configure, Day, Edited, TypeOK
<1>3. /\ regroup' \in [step : {"off", "select", "update"}, todo : SUBSET (DOMAIN plays),
                       new : Nat, ref : Nat, clean : BOOLEAN]
      /\ regroup'.step = regroup.step /\ regroup'.new = regroup.new /\ regroup'.ref = regroup.ref
  BY DEF Delete, Configure, Day, Edited, TypeOK
<1>4. /\ Ids' \subseteq Ids /\ rows' \in [Ids' -> Row]
      /\ \A i \in Ids' : /\ rows'[i].user = rows[i].user /\ rows'[i].key = rows[i].key
                         /\ rows'[i].ref = rows[i].ref
  <2>1. CASE \E id \in Ids : Delete(id)
    <3>1. PICK id \in Ids : rows' = [i \in Ids \ {id} |-> rows[i]]
      BY <2>1 DEF Delete
    <3>2. Ids' = Ids \ {id}
      BY <3>1 DEF Ids
    <3> QED BY <3>1, <3>2 DEF TypeOK
  <2>2. CASE \E position \in Threshold : Configure(position)
    BY <2>2 DEF Configure, TypeOK, Ids
  <2>3. CASE Day
    <3>1. rows' = [i \in Ids |-> [rows[i] EXCEPT !.old = TRUE]]
      BY <2>3 DEF Day
    <3>2. \A i \in Ids : rows[i] \in Row
      BY DEF TypeOK
    <3>3. \A i \in Ids : [rows[i] EXCEPT !.old = TRUE] \in Row
      BY <3>2 DEF Row
    <3>4. Ids' = Ids
      BY <3>1 DEF Ids
    <3>5. rows' \in [Ids' -> Row]
      BY <3>1, <3>3, <3>4, Zenon
    <3>6. \A i \in Ids : /\ rows'[i].user = rows[i].user /\ rows'[i].key = rows[i].key
                         /\ rows'[i].ref = rows[i].ref
      BY <3>1, <3>2 DEF Row
    <3> QED BY <3>4, <3>5, <3>6
  <2> QED BY <2>1, <2>2, <2>3
<1>5. /\ Ids' \subseteq DOMAIN plays'
      /\ \A i \in Ids' : rows'[i].user = plays'[i].user /\ rows'[i].key = plays'[i].key
  BY <1>1, <1>4 DEF TypeOK
<1>6. TypeOK'
  BY <1>1, <1>2, <1>3, <1>4, <1>5 DEF TypeOK
<1>7. RefInv'
  BY <1>1, <1>4 DEF RefInv, Names
<1>8. CarriedInv'
  BY <1>1, <1>3 DEF CarriedInv, Names
<1> QED BY <1>6, <1>7, <1>8

-----------------------------------------------------------------------------
\* Every step keeps the invariant.
LEMMA StepKeeps == GroupingInv /\ [Next]_vars => GroupingInv'
<1> SUFFICES ASSUME GroupingInv, [Next]_vars PROVE GroupingInv'
  OBVIOUS
<1>1. ASSUME NEW t \in Writer, Insert(t) PROVE GroupingInv'
  BY <1>1, InsertKeeps
<1>2. ASSUME NEW t \in Writer, Select(t) PROVE GroupingInv'
  BY <1>2, SelectKeeps
<1>3. ASSUME NEW t \in Writer, Update(t) PROVE GroupingInv'
  BY <1>3, UpdateKeeps
<1>4. ASSUME NEW t \in Writer, Describe(t) \/ Break(t) PROVE GroupingInv'
  BY <1>4, DescribeOrBreakKeeps
<1>5. CASE SelectAgain
  BY <1>5, SelectAgainKeeps
<1>6. CASE UpdateAgain
  BY <1>6, UpdateAgainKeeps
<1>7. CASE StartRegroup \/ EndRegroup \/ BreakRegroup
  BY <1>7, BoundsOfRegroupKeep
<1>8. CASE (\E id \in Ids : Delete(id)) \/ (\E position \in Threshold : Configure(position)) \/ Day
  BY <1>8, EditKeeps
<1>9. CASE UNCHANGED vars
  BY <1>9 DEF vars, GroupingInv, TypeOK, RefInv, CarriedInv, Names, Ids
<1> QED BY <1>1, <1>2, <1>3, <1>4, <1>5, <1>6, <1>7, <1>8, <1>9 DEF Next

\* The rows, the threads and the regrouping always have their types, and a row on disk
\* is one of the plays that were written.
THEOREM TypeCorrect == Spec => []TypeOK
<1>1. GroupingInv => TypeOK
  BY DEF GroupingInv
<1> QED BY <1>1, InitGrouping, StepKeeps, PTL DEF Spec

\* However many threads write, regroup, delete and fail, an entry of the history is one
\* user's plays of one thing: two rows with one reference name the same play by it.
THEOREM EntryCorrect == Spec => []EntryIsOneTitle
<1>1. GroupingInv => EntryIsOneTitle
  <2> SUFFICES ASSUME GroupingInv, NEW i \in Ids, NEW j \in Ids,
                      rows[i].ref = rows[j].ref, rows[i].ref # None
               PROVE  rows[i].user = rows[j].user /\ rows[i].key = rows[j].key
    BY DEF EntryIsOneTitle
  <2>1. plays[i] = plays[rows[i].ref] /\ plays[j] = plays[rows[j].ref]
    BY DEF GroupingInv, RefInv, Names
  <2> QED BY <2>1 DEF GroupingInv, TypeOK
<1> QED BY <1>1, InitGrouping, StepKeeps, PTL DEF Spec

-----------------------------------------------------------------------------
(***************************************************************************)
(* That the rule is kept.  The row a thread writes is the newest while     *)
(* nothing is upset, so that it is in nobody's way; and a clean regrouping *)
(* has repaired what lies behind it, because it goes from the oldest row   *)
(* to the newest.                                                          *)
(***************************************************************************)
\* What the rule makes of a row, and why a reference may be missing.
Rule(i, ref) ==
  IF \E j \in Before(i) : Continues(i, j)
  THEN \E j \in Before(i) : Continues(i, j) /\ ref = rows[j].ref
  ELSE ref = i
Explained(i, ref) == ref = None => \E j \in Before(i) : ~rows[j].meta
Right(i, ref) == Rule(i, ref) /\ Explained(i, ref)

Written == {i \in Ids : rows[i].meta}
IsTitle(i) == plays[i].key \in Title

\* One thread at most writes, and the row that it writes is the last.
AloneInv ==
  /\ \A t, o \in Writer : writer[t].step # "free" /\ writer[o].step # "free" => t = o
  /\ \A t \in Writer : writer[t].step # "free" =>
       /\ writer[t].row = Len(plays) /\ writer[t].row \in Ids /\ ~rows[writer[t].row].meta
       /\ writer[t].step = "update" => writer[t].new = writer[t].row
  /\ \A t \in Writer, i \in Ids, ref \in Nat :
       /\ i = writer[t].row /\ IsTitle(i)
       /\ \/ writer[t].step = "update" /\ ref = writer[t].ref
          \/ writer[t].step = "metadata" /\ ref = rows[i].ref
       => Right(i, ref)

\* What regrouping is about to write is right.
RegroupRight ==
  \A i \in Ids, ref \in Nat :
    regroup.step = "update" /\ i = regroup.new /\ ref = regroup.ref /\ IsTitle(i) => Right(i, ref)

\* While nothing is upset, every row is right, and regrouping changes none.
RightInv ==
  /\ AloneInv
  /\ \A i \in Written, ref \in Nat : IsTitle(i) /\ ref = rows[i].ref => Right(i, ref)
  /\ regroup.todo \subseteq Written
  /\ regroup.step = "update" => regroup.new \in Written
  /\ RegroupRight

\* What a regrouping that nobody disturbed has repaired so far.
CleanInv ==
  /\ \A t \in Writer : writer[t].step = "free"
  /\ regroup.todo \subseteq Written
  /\ \A i \in Written \ regroup.todo : \A k \in regroup.todo : i < k
  /\ \A i \in Written \ regroup.todo, ref \in Nat :
       IsTitle(i) /\ ref = rows[i].ref =>
         Right(i, ref) \/ (regroup.step = "update" /\ i = regroup.new)
  /\ regroup.step = "update" =>
       /\ regroup.new \in Written \ regroup.todo
       /\ \A i \in Written \ regroup.todo : i <= regroup.new
  /\ RegroupRight

RuleInv ==
  /\ ~upset => RightInv
  /\ regroup.step # "off" /\ regroup.clean => CleanInv

\* A row of a live programme that was written to its end has a reference, always.
IsLive(i) == plays[i].key \in Programme
LiveInv ==
  /\ \A i \in Written : IsLive(i) => rows[i].ref # None
  /\ \A t \in Writer : writer[t].step = "update" =>
       /\ IsLive(writer[t].new) => writer[t].ref # None
       /\ IsLive(writer[t].row) => writer[t].new = writer[t].row
  /\ \A t \in Writer :
       writer[t].step = "metadata" /\ writer[t].row \in Ids /\ IsLive(writer[t].row) =>
         rows[writer[t].row].ref # None
  /\ regroup.step = "update" /\ IsLive(regroup.new) => regroup.ref # None

\* Nothing that a row is judged by has changed.
LEMMA JudgedAlike ==
  ASSUME NEW i \in Ids, NEW ref, Before(i)' = Before(i), threshold' = threshold,
         rows'[i].offset = rows[i].offset,
         \A j \in Before(i) : /\ rows'[j].offset = rows[j].offset
                              /\ rows'[j].ref = rows[j].ref /\ rows'[j].meta = rows[j].meta
  PROVE  Right(i, ref)' <=> Right(i, ref)
<1>1. \A j \in Before(i) : Continues(i, j)' <=> Continues(i, j)
  BY DEF Continues
<1>2. Rule(i, ref)' <=> Rule(i, ref)
  BY <1>1 DEF Rule
<1>3. Explained(i, ref)' <=> Explained(i, ref)
  BY DEF Explained, None
<1> QED BY <1>2, <1>3 DEF Right

\* Rows whose user and item, position and metadata stay are judged alike as long as the
\* references before them stay.
LEMMA SameRowsJudgedAlike ==
  ASSUME TypeOK, NEW i \in Ids, NEW ref, Ids' = Ids, threshold' = threshold,
         \A j \in Ids : /\ rows'[j].user = rows[j].user /\ rows'[j].key = rows[j].key
                        /\ rows'[j].offset = rows[j].offset,
         \A j \in Before(i) : rows'[j].ref = rows[j].ref /\ rows'[j].meta = rows[j].meta
  PROVE  Right(i, ref)' <=> Right(i, ref)
<1>1. Before(i)' = Before(i)
  BY DEF Before
<1>2. Before(i) \subseteq Ids
  BY DEF Before
<1> QED BY <1>1, <1>2, JudgedAlike

\* The rule leaves no choice.
LEMMA RuleUnique ==
  ASSUME TypeOK, NEW i, NEW a, NEW b, Rule(i, a), Rule(i, b)
  PROVE  a = b
<1>1. CASE \E j \in Before(i) : Continues(i, j)
  <2>1. PICK j \in Before(i) : Continues(i, j) /\ a = rows[j].ref
    BY <1>1 DEF Rule
  <2>2. PICK k \in Before(i) : Continues(i, k) /\ b = rows[k].ref
    BY <1>1 DEF Rule
  <2>3. j <= k /\ k <= j
    BY <2>1, <2>2 DEF Continues
  <2>4. j \in Nat /\ k \in Nat
    BY DEF Before, TypeOK
  <2> QED BY <2>1, <2>2, <2>3, <2>4
<1>2. CASE ~\E j \in Before(i) : Continues(i, j)
  BY <1>2 DEF Rule
<1> QED BY <1>1, <1>2

\* A reference that the rule gives is missing only behind a half-written row.
LEMMA RuleExplained ==
  ASSUME TypeOK, NEW i \in Ids, NEW ref, Rule(i, ref),
         \A j \in Before(i) : rows[j].meta => Right(j, rows[j].ref)
  PROVE  Right(i, ref)
<1>0. \A k \in Ids : k \in Nat /\ k # 0
  BY DEF TypeOK
<1>1. SUFFICES ASSUME ref = None PROVE \E j \in Before(i) : ~rows[j].meta
  BY DEF Right, Explained
<1>2. PICK j \in Before(i) : ref = rows[j].ref
  BY <1>0, <1>1 DEF Rule, None
<1>3. CASE ~rows[j].meta
  BY <1>3
<1>4. CASE rows[j].meta
  <2>1. PICK k \in Before(j) : ~rows[k].meta
    BY <1>1, <1>2, <1>4 DEF Right, Explained
  <2>2. k \in Before(i)
    BY <1>0, <2>1 DEF Before
  <2> QED BY <2>1, <2>2
<1> QED BY <1>3, <1>4

\* What group_history decides for an item of a library is the rule.
LEMMA GroupedTitle ==
  ASSUME TypeOK, NEW id \in Ids, IsTitle(id)
  PROVE  LET g == Grouped(id, plays[id].user, plays[id].key) IN
         g.new = id /\ Rule(id, g.ref)
<1> DEFINE user == plays[id].user
           key == plays[id].key
           same == Same(id, user, key)
           joined == Joined(id, user, key)
<1>a. key \notin Programme /\ threshold \in Nat
  BY GroupingAssumption DEF IsTitle, TypeOK
<1>b. rows[id].user = user /\ rows[id].key = key
  BY DEF TypeOK
<1>c. \A k \in Ids : rows[k] \in Row /\ k \in DOMAIN plays
  BY DEF TypeOK
<1>d. \A k \in Ids : k \in Nat /\ rows[k].offset \in Nat
  <2>1. DOMAIN plays \subseteq Nat
    BY DEF TypeOK
  <2>2. Offset \subseteq Nat
    BY GroupingAssumption
  <2> QED BY <1>c, <2>1, <2>2 DEF Row
<1>0. /\ key \notin Programme /\ rows[id].user = user /\ rows[id].key = key
      /\ \A k \in Ids : k \in Nat /\ rows[k].offset \in Nat
      /\ threshold \in Nat
  BY <1>a, <1>b, <1>d
<1>1. id \in same /\ \A k \in same : k <= id
  BY <1>0 DEF Same
<1>2. Latest(same) = {id}
  BY <1>0, <1>1 DEF Latest, Same
<1>3. same \ {id} = Before(id)
  BY <1>0 DEF Same, Before
<1>4. Before(id) \subseteq same
  BY <1>3
<1>5. \A k \in Before(id) : k \in Latest(Before(id)) <=> \A j \in Before(id) : j <= k
  BY DEF Latest
<1>6. \A k \in Before(id) :
        Continues(id, k) <=> /\ k \in Latest(Before(id)) /\ ~Watched(rows[k].offset)
                             /\ rows[k].offset <= rows[id].offset
  <2> TAKE k \in Before(id)
  <2>1. rows[k].offset < threshold <=> ~Watched(rows[k].offset)
    BY <1>0 DEF Watched, Before
  <2> QED BY <2>1, <1>5 DEF Continues
<1>7. \A p \in joined : /\ p = [new |-> p.new, prev |-> p.prev]
                        /\ p.new = id /\ p.prev \in Before(id) /\ Continues(id, p.prev)
  <2> TAKE p \in joined
  <2>1. /\ p \in [new : Latest(same), prev : same]
        /\ p.prev \in Latest(same \ {p.new})
        /\ ~Watched(rows[p.prev].offset)
        /\ rows[p.prev].offset <= rows[p.new].offset
    BY <1>0 DEF Joined
  <2>2. p.new = id /\ p = [new |-> p.new, prev |-> p.prev]
    BY <2>1, <1>2
  <2>3. p.prev \in Latest(Before(id))
    BY <2>1, <2>2, <1>3
  <2>4. p.prev \in Before(id)
    BY <2>3 DEF Latest
  <2> QED BY <2>1, <2>2, <2>3, <2>4, <1>6
<1>8. \A k \in Before(id) : Continues(id, k) => [new |-> id, prev |-> k] \in joined
  <2> SUFFICES ASSUME NEW k \in Before(id), Continues(id, k)
               PROVE  [new |-> id, prev |-> k] \in joined
    OBVIOUS
  <2> DEFINE p == [new |-> id, prev |-> k]
  <2>1. p.new = id /\ p.prev = k
    OBVIOUS
  <2>2. k \in Latest(Before(id)) /\ ~Watched(rows[k].offset) /\ rows[k].offset <= rows[id].offset
    BY <1>6
  <2>3. p \in [new : Latest(same), prev : same]
    BY <1>2, <1>4
  <2>4. p.prev \in Latest(same \ {p.new})
    BY <2>1, <2>2, <1>3
  <2> HIDE DEF p, same, user, key
  <2>5. p \in {pair \in [new : Latest(same), prev : same] :
                 /\ pair.prev \in Latest(same \ {pair.new})
                 /\ ~Watched(rows[pair.prev].offset)
                 /\ rows[pair.prev].offset <= rows[pair.new].offset}
    BY <2>1, <2>2, <2>3, <2>4
  <2> QED BY <2>5, <1>0 DEF Joined, p, same
<1>9. CASE joined = {}
  <2>1. Grouped(id, user, key) = [new |-> id, ref |-> id]
    BY <1>9 DEF Grouped
  <2>2. ~\E k \in Before(id) : Continues(id, k)
    BY <1>8, <1>9
  <2> QED BY <2>1, <2>2 DEF Rule
<1>10. CASE joined # {}
  <2> DEFINE pair == CHOOSE p \in joined : TRUE
  <2>1. pair \in joined
    BY <1>10
  <2>2. Grouped(id, user, key) = [new |-> pair.new, ref |-> rows[pair.prev].ref]
    BY <1>10 DEF Grouped
  <2> HIDE DEF pair, joined
  <2>3. pair.new = id /\ pair.prev \in Before(id) /\ Continues(id, pair.prev)
    BY <2>1, <1>7
  <2>4. Rule(id, rows[pair.prev].ref)
    BY <2>3 DEF Rule
  <2> QED BY <2>2, <2>3, <2>4
<1> QED BY <1>9, <1>10

\* A live programme's row is always referred to itself or to a row that is referred.
LEMMA GroupedLive ==
  ASSUME TypeOK, \A i \in Written : IsLive(i) => rows[i].ref # None,
         NEW id \in DOMAIN plays, IsLive(id)
  PROVE  LET g == Grouped(id, plays[id].user, plays[id].key) IN
         g.new = id /\ g.ref # None
<1> DEFINE user == plays[id].user
           key == plays[id].key
           joined == Joined(id, user, key)
<1>0. id # 0
  BY DEF TypeOK
<1>1. CASE joined = {}
  BY <1>0, <1>1 DEF Grouped, None
<1>2. CASE joined # {}
  <2> DEFINE pair == CHOOSE p \in joined : TRUE
  <2>1. pair \in joined
    BY <1>2
  <2>2. Grouped(id, user, key) = [new |-> pair.new, ref |-> rows[pair.prev].ref]
    BY <1>2 DEF Grouped
  <2>3. joined = {[new |-> id, prev |-> prev] :
                    prev \in {p \in Latest(Live(id, user)) : rows[p].key = key}}
    BY DEF Joined, IsLive
  <2> HIDE DEF pair, joined
  <2>4. PICK prev \in Latest(Live(id, user)) :
          rows[prev].key = key /\ pair = [new |-> id, prev |-> prev]
    BY <2>1, <2>3
  <2>5. pair.new = id /\ pair.prev = prev
    BY <2>4
  <2>6. prev \in Written /\ plays[prev].key \in Programme
    BY <2>4 DEF Latest, Live, Written, TypeOK, IsLive
  <2> QED BY <2>2, <2>5, <2>6 DEF IsLive
<1> QED BY <1>1, <1>2

-----------------------------------------------------------------------------
HistoryInv == GroupingInv /\ RuleInv /\ LiveInv

\* The rows' types, one by one.
LEMMA RowTypes ==
  ASSUME TypeOK
  PROVE  /\ \A i \in Ids : /\ rows[i] \in Row /\ i \in DOMAIN plays
                           /\ i \in Nat /\ i # 0 /\ i <= Len(plays) /\ rows[i].ref \in Nat
         /\ \A i \in Ids : rows[i].key = plays[i].key
         /\ Len(plays) \in Nat /\ Len(plays) \notin Ids \ {Len(plays)}
<1>1. \A i \in Ids : rows[i] \in Row /\ i \in DOMAIN plays /\ rows[i].key = plays[i].key
  BY DEF TypeOK
<1>2. Len(plays) \in Nat /\ DOMAIN plays = 1 .. Len(plays)
  BY DEF TypeOK
<1>3. \A i \in Ids : rows[i].ref \in Nat
  BY <1>1 DEF Row
<1> QED BY <1>1, <1>2, <1>3

\* What the update changes, field by field.
LEMMA ReferFields ==
  ASSUME TypeOK, NEW new, NEW ref, rows' = Refer(new, ref)
  PROVE  /\ Ids' = Ids /\ Written' = Written
         /\ \A i \in Ids : /\ rows'[i].user = rows[i].user /\ rows'[i].key = rows[i].key
                           /\ rows'[i].offset = rows[i].offset /\ rows'[i].meta = rows[i].meta
                           /\ rows'[i].ref = IF i = new THEN ref ELSE rows[i].ref
<1>1. Ids' = Ids
  BY DEF Refer, Ids
<1>2. \A i \in Ids : rows'[i] = IF i = new THEN [rows[i] EXCEPT !.ref = ref] ELSE rows[i]
  BY DEF Refer
<1>3. \A i \in Ids : rows[i] \in Row
  BY DEF TypeOK
<1>4. \A i \in Ids : /\ rows'[i].user = rows[i].user /\ rows'[i].key = rows[i].key
                     /\ rows'[i].offset = rows[i].offset /\ rows'[i].meta = rows[i].meta
                     /\ rows'[i].ref = IF i = new THEN ref ELSE rows[i].ref
  BY <1>2, <1>3 DEF Row
<1>5. Written' = Written
  BY <1>1, <1>4 DEF Written
<1> QED BY <1>1, <1>4, <1>5

\* What is judged does not change while the rows and the threshold do not.
LEMMA UnchangedJudged ==
  ASSUME UNCHANGED <<rows, plays, threshold>>
  PROVE  /\ Ids' = Ids /\ Written' = Written
         /\ \A i : IsTitle(i)' <=> IsTitle(i)
         /\ \A i, ref : Right(i, ref)' <=> Right(i, ref)
<1>1. Ids' = Ids /\ Written' = Written
  BY DEF Ids, Written
<1>2. \A i : IsTitle(i)' <=> IsTitle(i)
  BY DEF IsTitle
<1>3. \A i : Before(i)' = Before(i)
  BY DEF Before, Ids
<1>4. \A i, j : Continues(i, j)' <=> Continues(i, j)
  BY <1>3 DEF Continues
<1>5. \A i, ref : Rule(i, ref)' <=> Rule(i, ref)
  BY <1>3, <1>4 DEF Rule
<1>6. \A i, ref : Explained(i, ref)' <=> Explained(i, ref)
  BY <1>3 DEF Explained, None
<1> QED BY <1>1, <1>2, <1>5, <1>6 DEF Right

\* What group_history decides for the row of a thread, or of regrouping, is right if the
\* rows before it are.
LEMMA GroupedRight ==
  ASSUME TypeOK, LiveInv, NEW id \in Ids,
         \A j \in Written, ref \in Nat :
           IsTitle(j) /\ j \in Before(id) /\ ref = rows[j].ref => Right(j, ref)
  PROVE  LET g == Grouped(id, plays[id].user, plays[id].key) IN
         g.new = id /\ (IsTitle(id) => Right(id, g.ref))
<1> DEFINE g == Grouped(id, plays[id].user, plays[id].key)
<1>1. CASE IsTitle(id)
  <2>1. g.new = id /\ Rule(id, g.ref)
    BY <1>1, GroupedTitle
  <2>2. \A j \in Before(id) : rows[j].meta => Right(j, rows[j].ref)
    <3> SUFFICES ASSUME NEW j \in Before(id), rows[j].meta PROVE Right(j, rows[j].ref)
      OBVIOUS
    <3>1. j \in Written /\ rows[j].key = rows[id].key
      BY DEF Before, Written
    <3>2. IsTitle(j) /\ rows[j].ref \in Nat
      BY <1>1, <3>1, RowTypes DEF Written, IsTitle
    <3> QED BY <3>1, <3>2
  <2> HIDE DEF g
  <2>3. Right(id, g.ref)
    BY <2>1, <2>2, RuleExplained
  <2> QED BY <2>1, <2>3 DEF g
<1>2. CASE ~IsTitle(id)
  <2>1. id \in DOMAIN plays /\ plays[id].key \in Programme
    <3>1. id \in DOMAIN plays /\ rows[id] \in Row /\ rows[id].key = plays[id].key
      BY RowTypes
    <3> QED BY <3>1, <1>2 DEF Row, Key, IsTitle
  <2> QED BY <2>1, <1>2, GroupedLive DEF LiveInv, IsLive
<1> QED BY <1>1, <1>2

-----------------------------------------------------------------------------
\* The new row is behind all others; nobody else is at work, or the grouping is upset.
LEMMA InsertRight ==
  ASSUME HistoryInv, TypeOK', NEW t \in Writer, Insert(t)
  PROVE  RuleInv'
<1> USE DEF HistoryInv, GroupingInv
<1>1. PICK user \in User, key \in Key, offset \in Offset :
        /\ plays' = Append(plays, [user |-> user, key |-> key])
        /\ rows' = [i \in Ids \cup {Len(plays) + 1} |->
                     IF i = Len(plays) + 1
                     THEN [user |-> user, key |-> key, offset |-> offset,
                           ref |-> None, meta |-> FALSE, old |-> FALSE]
                     ELSE rows[i]]
        /\ writer' = [writer EXCEPT ![t] = [Free EXCEPT !.step = "select", !.row = Len(plays) + 1]]
  BY DEF Insert
<1> DEFINE id == Len(plays) + 1
<1>2. /\ writer[t].step = "free" /\ upset' = (upset \/ Busy(t)) /\ threshold' = threshold
      /\ regroup' = [regroup EXCEPT !.clean = FALSE]
  BY DEF Insert
<1>3. ~regroup'.clean /\ regroup'.step = regroup.step /\ regroup'.todo = regroup.todo
  BY <1>2 DEF TypeOK
<1>4. SUFFICES ASSUME ~upset' PROVE RightInv'
  BY <1>3 DEF RuleInv
<1>5. ~upset /\ RightInv /\ regroup.step = "off" /\ \A o \in Writer \ {t} : writer[o].step = "free"
  BY <1>2, <1>4 DEF Busy, RuleInv
<1>6. id \in Nat /\ id \notin Ids /\ \A i \in Ids : i \in Nat /\ i < id
  BY RowTypes
<1>7. Ids' = Ids \cup {id} /\ ~rows'[id].meta /\ \A i \in Ids : rows'[i] = rows[i]
  BY <1>1, <1>6 DEF Ids
<1>8. /\ Written' = Written /\ Written \subseteq Ids
  BY <1>7 DEF Written
<1>9. Len(plays') = id /\ \A i \in Ids : plays'[i] = plays[i]
  <2>1. plays \in Seq(Play) /\ [user |-> user, key |-> key] \in Play
    BY DEF TypeOK, Play
  <2> QED BY <1>1, <2>1 DEF TypeOK
<1>10. \A i \in Ids : IsTitle(i)' <=> IsTitle(i)
  BY <1>9 DEF IsTitle
<1>11. ASSUME NEW i \in Ids, NEW ref PROVE Right(i, ref)' <=> Right(i, ref)
  <2>1. Before(i)' = Before(i)
    BY <1>6, <1>7 DEF Before
  <2>2. Before(i) \subseteq Ids
    BY DEF Before
  <2> QED BY <1>2, <1>7, <2>1, <2>2, JudgedAlike
<1>12. /\ writer'[t].step = "select" /\ writer'[t].row = id
       /\ \A o \in Writer \ {t} : writer'[o] = writer[o]
  BY <1>1 DEF TypeOK, Free
<1>13. AloneInv'
  <2>1. \A o \in Writer : writer'[o].step # "free" => o = t
    BY <1>5, <1>12
  <2> QED BY <2>1, <1>12, <1>7, <1>9 DEF AloneInv
<1>14. \A i \in Written', ref \in Nat : IsTitle(i)' /\ ref = rows'[i].ref => Right(i, ref)'
  BY <1>5, <1>7, <1>8, <1>10, <1>11 DEF RightInv
<1>15. regroup'.todo \subseteq Written' /\ regroup'.step # "update" /\ RegroupRight'
  BY <1>3, <1>5, <1>8 DEF RightInv, RegroupRight
<1> QED BY <1>13, <1>14, <1>15 DEF RightInv

\* A thread at work leaves no regrouping clean.
LEMMA AtWorkNotClean ==
  ASSUME HistoryInv, NEW t \in Writer, writer[t].step # "free"
  PROVE  ~(regroup.step # "off" /\ regroup.clean)
BY DEF HistoryInv, RuleInv, CleanInv

\* The thread reads what the rule says of its row.
LEMMA SelectRight ==
  ASSUME HistoryInv, NEW t \in Writer, Select(t)
  PROVE  RuleInv'
<1> USE DEF HistoryInv, GroupingInv
<1>1. /\ writer[t].step = "select"
      /\ UNCHANGED <<rows, plays, regroup, threshold, upset, troubles, regroups>>
  BY DEF Select
<1>2. SUFFICES ASSUME ~upset PROVE RightInv'
  BY <1>1, AtWorkNotClean DEF RuleInv
<1>3. RightInv /\ AloneInv
  BY <1>2 DEF RuleInv, RightInv
<1> DEFINE g == Grouped(writer[t].row, plays[writer[t].row].user, plays[writer[t].row].key)
           place == [step |-> "update", row |-> writer[t].row, new |-> g.new, ref |-> g.ref]
<1>4. writer[t].row \in Ids
  BY <1>1, <1>3 DEF AloneInv
<1>5. g.new = writer[t].row /\ (IsTitle(writer[t].row) => Right(writer[t].row, g.ref))
  <2>1. \A j \in Written, ref \in Nat :
          IsTitle(j) /\ j \in Before(writer[t].row) /\ ref = rows[j].ref => Right(j, ref)
    BY <1>3 DEF RightInv
  <2> QED BY <2>1, <1>4, GroupedRight
<1>6. writer' = [writer EXCEPT ![t] = place]
  BY DEF Select
<1> HIDE DEF g
<1>7. /\ writer'[t].step = "update" /\ writer'[t].row = writer[t].row
      /\ writer'[t].new = g.new /\ writer'[t].ref = g.ref
      /\ \A o \in Writer \ {t} : writer'[o] = writer[o]
  BY <1>6 DEF TypeOK
<1>8. /\ Ids' = Ids /\ Written' = Written
      /\ \A i : IsTitle(i)' <=> IsTitle(i)
      /\ \A i, ref : Right(i, ref)' <=> Right(i, ref)
  BY <1>1, UnchangedJudged
<1>9. \A o \in Writer : writer'[o].step # "free" => o = t
  BY <1>1, <1>3, <1>7 DEF AloneInv
<1>10. ASSUME NEW o \in Writer, NEW i \in Ids', NEW ref \in Nat, i = writer'[o].row, IsTitle(i)',
              \/ writer'[o].step = "update" /\ ref = writer'[o].ref
              \/ writer'[o].step = "metadata" /\ ref = rows'[i].ref
       PROVE  Right(i, ref)'
  <2>1. o = t
    BY <1>9, <1>10
  <2>2. i = writer[t].row /\ ref = g.ref
    BY <2>1, <1>7, <1>10
  <2> QED BY <2>2, <1>5, <1>8, <1>10
<1>11. AloneInv'
  <2>1. \A o \in Writer : writer'[o].step # "free" =>
          /\ writer'[o].row = Len(plays') /\ writer'[o].row \in Ids' /\ ~rows'[writer'[o].row].meta
          /\ writer'[o].step = "update" => writer'[o].new = writer'[o].row
    BY <1>1, <1>3, <1>5, <1>7, <1>8, <1>9 DEF AloneInv
  <2> QED BY <2>1, <1>9, <1>10 DEF AloneInv
<1>12. RegroupRight'
  BY <1>1, <1>3, <1>8 DEF RightInv, RegroupRight
<1> QED BY <1>1, <1>3, <1>8, <1>11, <1>12 DEF RightInv

\* The last row is before no other, so that writing it disturbs nobody.
LEMMA LastBeforeNone ==
  ASSUME TypeOK, NEW i \in Ids
  PROVE  Len(plays) \notin Before(i)
<1>1. i \in Nat /\ i <= Len(plays) /\ Len(plays) \in Nat
  BY RowTypes
<1> QED BY <1>1 DEF Before

LEMMA UpdateRight ==
  ASSUME HistoryInv, NEW t \in Writer, Update(t)
  PROVE  RuleInv'
<1> USE DEF HistoryInv, GroupingInv
<1> DEFINE place == [Free EXCEPT !.step = "metadata", !.row = writer[t].row]
<1>1. /\ writer[t].step = "update" /\ rows' = Refer(writer[t].new, writer[t].ref)
      /\ writer' = [writer EXCEPT ![t] = place]
      /\ UNCHANGED <<plays, regroup, threshold, upset, troubles, regroups>>
  BY DEF Update
<1>2. SUFFICES ASSUME ~upset PROVE RightInv'
  BY <1>1, AtWorkNotClean DEF RuleInv
<1>3. RightInv /\ AloneInv
  BY <1>2 DEF RuleInv, RightInv
<1>4. /\ writer[t].row = Len(plays) /\ writer[t].row \in Ids /\ ~rows[writer[t].row].meta
      /\ writer[t].new = writer[t].row /\ writer[t].ref \in Nat
  BY <1>1, <1>3 DEF AloneInv, TypeOK
<1>5. /\ Ids' = Ids /\ Written' = Written
      /\ \A i \in Ids : /\ rows'[i].user = rows[i].user /\ rows'[i].key = rows[i].key
                        /\ rows'[i].offset = rows[i].offset /\ rows'[i].meta = rows[i].meta
                        /\ rows'[i].ref = IF i = writer[t].new THEN writer[t].ref ELSE rows[i].ref
  BY <1>1, ReferFields
<1>6. /\ writer'[t].step = "metadata" /\ writer'[t].row = writer[t].row
      /\ \A o \in Writer \ {t} : writer'[o] = writer[o]
  BY <1>1 DEF TypeOK, Free
<1>7. \A i : IsTitle(i)' <=> IsTitle(i)
  BY <1>1 DEF IsTitle
<1>8. ASSUME NEW i \in Ids, NEW ref PROVE Right(i, ref)' <=> Right(i, ref)
  <2>1. \A j \in Before(i) : j \in Ids /\ j # writer[t].new
    BY <1>4, LastBeforeNone DEF Before
  <2>2. \A j \in Before(i) : rows'[j].ref = rows[j].ref /\ rows'[j].meta = rows[j].meta
    BY <2>1, <1>5
  <2> QED BY <2>2, <1>1, <1>5, SameRowsJudgedAlike
<1>9. \A o \in Writer : writer'[o].step # "free" => o = t
  BY <1>1, <1>3, <1>6 DEF AloneInv
<1>10. ASSUME NEW o \in Writer, NEW i \in Ids', NEW ref \in Nat, i = writer'[o].row, IsTitle(i)',
              \/ writer'[o].step = "update" /\ ref = writer'[o].ref
              \/ writer'[o].step = "metadata" /\ ref = rows'[i].ref
       PROVE  Right(i, ref)'
  <2>1. o = t
    BY <1>9, <1>10
  <2>2. i = writer[t].row /\ ref = writer[t].ref
    BY <2>1, <1>4, <1>5, <1>6, <1>10
  <2>3. Right(i, ref)
    BY <2>2, <1>1, <1>3, <1>4, <1>7, <1>10 DEF AloneInv
  <2> QED BY <2>3, <1>5, <1>8
<1>11. AloneInv'
  <2>1. \A o \in Writer : writer'[o].step # "free" =>
          /\ writer'[o].row = Len(plays') /\ writer'[o].row \in Ids' /\ ~rows'[writer'[o].row].meta
          /\ writer'[o].step = "update" => writer'[o].new = writer'[o].row
    BY <1>1, <1>4, <1>5, <1>6, <1>9
  <2> QED BY <2>1, <1>9, <1>10 DEF AloneInv
<1>12. \A i \in Written', ref \in Nat : IsTitle(i)' /\ ref = rows'[i].ref => Right(i, ref)'
  <2> SUFFICES ASSUME NEW i \in Written, NEW ref \in Nat, IsTitle(i), ref = rows'[i].ref
               PROVE  Right(i, ref)'
    BY <1>5, <1>7
  <2>1. i \in Ids /\ i # writer[t].new
    BY <1>4 DEF Written
  <2> QED BY <2>1, <1>3, <1>5, <1>8 DEF RightInv
<1>13. RegroupRight'
  BY <1>1, <1>3, <1>5, <1>7, <1>8 DEF RightInv, RegroupRight
<1> QED BY <1>1, <1>3, <1>5, <1>11, <1>12, <1>13 DEF RightInv

\* The row is written to its end: it was right before, and stays so.
LEMMA DescribeRight ==
  ASSUME HistoryInv, NEW t \in Writer, Describe(t)
  PROVE  RuleInv'
<1> USE DEF HistoryInv, GroupingInv
<1>1. /\ writer[t].step = "metadata" /\ writer' = [writer EXCEPT ![t] = Free]
      /\ rows' = [i \in Ids |-> IF i = writer[t].row THEN [rows[i] EXCEPT !.meta = TRUE] ELSE rows[i]]
      /\ UNCHANGED <<plays, regroup, threshold, upset, troubles, regroups>>
  BY DEF Describe
<1>2. SUFFICES ASSUME ~upset PROVE RightInv'
  BY <1>1, AtWorkNotClean DEF RuleInv
<1>3. RightInv /\ AloneInv
  BY <1>2 DEF RuleInv, RightInv
<1>4. writer[t].row = Len(plays) /\ writer[t].row \in Ids
  BY <1>1, <1>3 DEF AloneInv
<1>5. Ids' = Ids
  BY <1>1 DEF Ids
<1>6. \A i \in Ids : /\ rows'[i].user = rows[i].user /\ rows'[i].key = rows[i].key
                     /\ rows'[i].offset = rows[i].offset /\ rows'[i].ref = rows[i].ref
                     /\ rows'[i].meta = (IF i = writer[t].row THEN TRUE ELSE rows[i].meta)
  <2>1. \A i \in Ids : rows[i] \in Row
    BY RowTypes
  <2> QED BY <2>1, <1>1 DEF Row
<1>7. Written' = Written \cup {writer[t].row}
  BY <1>4, <1>5, <1>6 DEF Written
<1>8. \A i : IsTitle(i)' <=> IsTitle(i)
  BY <1>1 DEF IsTitle
<1>9. ASSUME NEW i \in Ids, NEW ref PROVE Right(i, ref)' <=> Right(i, ref)
  <2>1. \A j \in Before(i) : j \in Ids /\ j # writer[t].row
    BY <1>4, LastBeforeNone DEF Before
  <2>2. \A j \in Before(i) : rows'[j].ref = rows[j].ref /\ rows'[j].meta = rows[j].meta
    BY <2>1, <1>6
  <2> QED BY <2>2, <1>1, <1>5, <1>6, SameRowsJudgedAlike
<1>10. \A o \in Writer : writer'[o].step = "free"
  BY <1>1, <1>3 DEF AloneInv, TypeOK, Free
<1>11. AloneInv'
  BY <1>10 DEF AloneInv
<1>12. \A i \in Written', ref \in Nat : IsTitle(i)' /\ ref = rows'[i].ref => Right(i, ref)'
  <2>0. \A i \in Written' : i \in Ids /\ rows'[i].ref = rows[i].ref
    BY <1>4, <1>6, <1>7 DEF Written
  <2> SUFFICES ASSUME NEW i \in Written', NEW ref \in Nat, IsTitle(i), ref = rows[i].ref
               PROVE  Right(i, ref)
    BY <2>0, <1>8, <1>9
  <2>1. CASE i \in Written
    BY <2>1, <1>3 DEF RightInv
  <2>2. CASE i = writer[t].row
    BY <2>2, <1>1, <1>3, <1>4 DEF AloneInv
  <2> QED BY <2>1, <2>2, <1>7
<1>13. RegroupRight'
  BY <1>1, <1>3, <1>5, <1>8, <1>9 DEF RightInv, RegroupRight
<1> QED BY <1>1, <1>3, <1>7, <1>11, <1>12, <1>13 DEF RightInv

\* Regrouping begins with every row that has been written still before it.
LEMMA StartRegroupRight ==
  ASSUME HistoryInv, StartRegroup
  PROVE  RuleInv'
<1> USE DEF HistoryInv, GroupingInv
<1> DEFINE clean == \A t \in Writer : writer[t].step = "free"
<1>1. /\ regroup' = [Stopped EXCEPT !.step = "select", !.todo = {i \in Ids : rows[i].meta},
                                    !.clean = clean]
      /\ UNCHANGED <<rows, plays, writer, threshold, upset, troubles>>
  BY DEF StartRegroup
<1>2. /\ Ids' = Ids /\ Written' = Written
      /\ \A i : IsTitle(i)' <=> IsTitle(i)
      /\ \A i, ref : Right(i, ref)' <=> Right(i, ref)
  BY <1>1, UnchangedJudged
<1>3. regroup'.step = "select" /\ regroup'.todo = Written' /\ regroup'.clean = clean
  BY <1>1, <1>2 DEF Stopped, Written
<1>4. RegroupRight'
  BY <1>3 DEF RegroupRight
<1>5. ~upset' => RightInv'
  BY <1>1, <1>2, <1>3, <1>4 DEF RuleInv, RightInv, AloneInv
<1>6. regroup'.clean => CleanInv'
  BY <1>1, <1>3, <1>4 DEF CleanInv
<1> QED BY <1>5, <1>6 DEF RuleInv

\* Regrouping reads what the rule says of the oldest row it has not come to.
LEMMA SelectAgainRight ==
  ASSUME HistoryInv, SelectAgain
  PROVE  RuleInv'
<1> USE DEF HistoryInv, GroupingInv
<1>1. PICK id \in Following(regroup.todo) :
        LET g == Grouped(id, plays[id].user, plays[id].key) IN
        regroup' = [step |-> "update", todo |-> regroup.todo \ {id},
                    new |-> g.new, ref |-> g.ref, clean |-> regroup.clean]
  BY DEF SelectAgain
<1> DEFINE g == Grouped(id, plays[id].user, plays[id].key)
<1>2. /\ regroup.step = "select"
      /\ UNCHANGED <<rows, plays, writer, threshold, upset, troubles, regroups>>
      /\ regroup'.step = "update" /\ regroup'.todo = regroup.todo \ {id}
      /\ regroup'.new = g.new /\ regroup'.ref = g.ref /\ regroup'.clean = regroup.clean
  BY <1>1 DEF SelectAgain
<1>3. id \in regroup.todo /\ \A j \in regroup.todo : id <= j
  BY DEF Following
<1>4. /\ Ids' = Ids /\ Written' = Written
      /\ \A i : IsTitle(i)' <=> IsTitle(i)
      /\ \A i, ref : Right(i, ref)' <=> Right(i, ref)
  BY <1>2, UnchangedJudged
<1>5. /\ \A i \in Written : i \in Ids /\ i \in Nat
      /\ \A i \in Ids : i \in Nat
  BY RowTypes DEF Written
<1>6. ASSUME id \in Written,
             \A j \in Written, ref \in Nat :
               IsTitle(j) /\ j \in Before(id) /\ ref = rows[j].ref => Right(j, ref)
      PROVE  g.new = id /\ RegroupRight'
  <2>1. g.new = id /\ (IsTitle(id) => Right(id, g.ref))
    BY <1>5, <1>6, GroupedRight
  <2> HIDE DEF g
  <2> QED BY <2>1, <1>2, <1>4 DEF RegroupRight
<1> HIDE DEF g
<1>7. ASSUME ~upset PROVE RightInv'
  <2>1. RightInv
    BY <1>7 DEF RuleInv
  <2>2. g.new = id /\ id \in Written /\ RegroupRight'
    BY <2>1, <1>3, <1>6 DEF RightInv
  <2>3. AloneInv'
    BY <2>1, <1>2, <1>4 DEF RightInv, AloneInv
  <2> QED BY <2>1, <2>2, <2>3, <1>2, <1>4 DEF RightInv
<1>8. ASSUME regroup.clean PROVE CleanInv'
  <2>1. CleanInv
    BY <1>2, <1>8 DEF RuleInv
  <2>2. id \in Written
    BY <2>1, <1>3 DEF CleanInv
  <2>3. \A j \in Written : j < id => j \notin regroup.todo
    BY <1>3, <1>5, <2>2
  <2>4. \A j \in Before(id) : j < id
    BY DEF Before
  <2>5. g.new = id /\ RegroupRight'
    BY <2>1, <2>2, <2>3, <2>4, <1>2, <1>6 DEF CleanInv
  <2>6. Written' \ regroup'.todo = (Written \ regroup.todo) \cup {id}
    BY <2>2, <1>2, <1>3, <1>4
  <2>7. \A i \in Written \ regroup.todo : i < id
    BY <2>1, <1>3 DEF CleanInv
  <2>8. \A i \in Written' \ regroup'.todo : \A k \in regroup'.todo : i < k
    <3> SUFFICES ASSUME NEW i \in (Written \ regroup.todo) \cup {id},
                        NEW k \in regroup.todo, k # id
                 PROVE  i < k
      BY <2>6, <1>2
    <3>1. CASE i \in Written \ regroup.todo
      BY <3>1, <2>1 DEF CleanInv
    <3>2. CASE i = id
      <4>1. k \in Nat /\ id \in Nat
        BY <2>1, <2>2, <1>5 DEF CleanInv
      <4> QED BY <4>1, <3>2, <1>3
    <3> QED BY <3>1, <3>2
  <2>9. \A i \in Written' \ regroup'.todo : i <= regroup'.new
    <3> SUFFICES ASSUME NEW i \in (Written \ regroup.todo) \cup {id} PROVE i <= id
      BY <2>5, <2>6, <1>2
    <3> QED BY <2>2, <2>7, <1>5
  <2>10. ASSUME NEW i \in Written' \ regroup'.todo, NEW ref \in Nat, IsTitle(i)', ref = rows'[i].ref
         PROVE  Right(i, ref)' \/ (regroup'.step = "update" /\ i = regroup'.new)
    <3>1. CASE i \in Written \ regroup.todo
      BY <2>1, <2>10, <3>1, <1>2, <1>4 DEF CleanInv
    <3>2. CASE i = id
      BY <3>2, <2>5, <1>2
    <3> QED BY <3>1, <3>2, <2>6
  <2>11. \A t \in Writer : writer'[t].step = "free"
    BY <2>1, <1>2 DEF CleanInv
  <2>12. regroup'.todo \subseteq Written' /\ regroup'.new \in Written' \ regroup'.todo
    BY <2>1, <2>2, <2>5, <1>2, <1>4 DEF CleanInv
  <2> QED BY <2>5, <2>8, <2>9, <2>10, <2>11, <2>12 DEF CleanInv
<1> QED BY <1>2, <1>7, <1>8 DEF RuleInv

\* Regrouping writes the reference that is there, or repairs the row behind which no
\* repaired one lies.
LEMMA UpdateAgainRight ==
  ASSUME HistoryInv, UpdateAgain
  PROVE  RuleInv'
<1> USE DEF HistoryInv, GroupingInv
<1>1. /\ regroup.step = "update" /\ rows' = Refer(regroup.new, regroup.ref)
      /\ regroup' = [regroup EXCEPT !.step = "select", !.new = None, !.ref = None]
      /\ UNCHANGED <<plays, writer, threshold, upset, troubles, regroups>>
  BY DEF UpdateAgain
<1>2. /\ regroup'.step = "select" /\ regroup'.todo = regroup.todo
      /\ regroup'.clean = regroup.clean /\ regroup.ref \in Nat
  BY <1>1 DEF TypeOK
<1>3. /\ Ids' = Ids /\ Written' = Written
      /\ \A i \in Ids : /\ rows'[i].user = rows[i].user /\ rows'[i].key = rows[i].key
                        /\ rows'[i].offset = rows[i].offset /\ rows'[i].meta = rows[i].meta
                        /\ rows'[i].ref = IF i = regroup.new THEN regroup.ref ELSE rows[i].ref
  BY <1>1, ReferFields
<1>4. \A i : IsTitle(i)' <=> IsTitle(i)
  BY <1>1 DEF IsTitle
<1>5. RegroupRight'
  BY <1>2 DEF RegroupRight
<1>6. /\ \A i \in Written : i \in Ids /\ i \in Nat
      /\ \A i \in Ids : i \in Nat /\ rows[i].key = plays[i].key /\ rows[i].ref \in Nat
  BY RowTypes DEF Written
<1>7. ASSUME NEW i \in Ids, NEW ref, \A j \in Before(i) : rows'[j].ref = rows[j].ref
      PROVE  Right(i, ref)' <=> Right(i, ref)
  <2>1. \A j \in Before(i) : rows'[j].ref = rows[j].ref /\ rows'[j].meta = rows[j].meta
    BY <1>3, <1>7 DEF Before
  <2> QED BY <2>1, <1>1, <1>3, SameRowsJudgedAlike
<1>8. ASSUME ~upset PROVE RightInv'
  <2>1. RightInv /\ AloneInv
    BY <1>8 DEF RuleInv, RightInv
  <2>2. regroup.new \in Written
    BY <2>1, <1>1 DEF RightInv
  <2>3. IsTitle(regroup.new) => \A i \in Ids : rows'[i].ref = rows[i].ref
    <3> SUFFICES ASSUME IsTitle(regroup.new) PROVE regroup.ref = rows[regroup.new].ref
      BY <1>3
    <3>1. Right(regroup.new, regroup.ref)
      BY <2>1, <2>2, <1>1, <1>2, <1>6 DEF RightInv, RegroupRight
    <3>2. Right(regroup.new, rows[regroup.new].ref)
      BY <2>1, <2>2, <1>6 DEF RightInv
    <3> QED BY <3>1, <3>2, RuleUnique DEF Right
  <2>4. ASSUME NEW i \in Ids, IsTitle(i)
        PROVE  /\ rows'[i].ref = rows[i].ref
               /\ \A j \in Before(i) : rows'[j].ref = rows[j].ref
    <3>1. CASE IsTitle(regroup.new)
      BY <3>1, <2>3 DEF Before
    <3>2. CASE ~IsTitle(regroup.new)
      <4>1. \A j \in Before(i) : j \in Ids /\ IsTitle(j)
        BY <2>4, <1>6 DEF Before, IsTitle
      <4> QED BY <4>1, <3>2, <2>4, <1>3
    <3> QED BY <3>1, <3>2
  <2>5. ASSUME NEW i \in Ids, NEW ref, IsTitle(i) PROVE Right(i, ref)' <=> Right(i, ref)
    BY <2>4, <2>5, <1>7
  <2>6. AloneInv'
    <3>1. \A o \in Writer : writer'[o].step # "free" =>
            /\ writer'[o].row = Len(plays') /\ writer'[o].row \in Ids' /\ ~rows'[writer'[o].row].meta
            /\ writer'[o].step = "update" => writer'[o].new = writer'[o].row
      BY <2>1, <1>1, <1>3 DEF AloneInv
    <3>2. ASSUME NEW o \in Writer, NEW i \in Ids', NEW ref \in Nat, i = writer'[o].row, IsTitle(i)',
                 \/ writer'[o].step = "update" /\ ref = writer'[o].ref
                 \/ writer'[o].step = "metadata" /\ ref = rows'[i].ref
          PROVE  Right(i, ref)'
      <4>1. rows'[i].ref = rows[i].ref
        BY <2>4, <3>2, <1>3, <1>4
      <4>2. Right(i, ref)
        BY <4>1, <2>1, <3>2, <1>1, <1>3, <1>4 DEF AloneInv
      <4> QED BY <4>2, <2>5, <3>2, <1>3, <1>4
    <3> QED BY <2>1, <3>1, <3>2, <1>1 DEF AloneInv
  <2>7. \A i \in Written', ref \in Nat : IsTitle(i)' /\ ref = rows'[i].ref => Right(i, ref)'
    BY <2>1, <2>4, <2>5, <1>3, <1>4, <1>6 DEF RightInv
  <2> QED BY <2>1, <2>6, <2>7, <1>2, <1>3, <1>5 DEF RightInv
<1>9. ASSUME regroup.clean PROVE CleanInv'
  <2>1. CleanInv
    BY <1>1, <1>9 DEF RuleInv
  <2>2. regroup.new \in Written \ regroup.todo
        /\ \A i \in Written \ regroup.todo : i <= regroup.new
    BY <2>1, <1>1 DEF CleanInv
  <2>3. ASSUME NEW i \in Written \ regroup.todo, NEW ref PROVE Right(i, ref)' <=> Right(i, ref)
    <3>1. i <= regroup.new /\ i \in Nat /\ regroup.new \in Nat /\ i \in Ids
      BY <2>2, <1>6
    <3>2. \A j \in Before(i) : j \in Ids /\ j # regroup.new
      BY <3>1, <1>6 DEF Before
    <3>3. \A j \in Before(i) : rows'[j].ref = rows[j].ref
      BY <3>2, <1>3
    <3> QED BY <3>1, <3>3, <1>7
  <2>4. ASSUME NEW i \in Written' \ regroup'.todo, NEW ref \in Nat, IsTitle(i)', ref = rows'[i].ref
        PROVE  Right(i, ref)'
    <3>1. i \in Written \ regroup.todo /\ IsTitle(i)
      BY <2>4, <1>2, <1>3, <1>4
    <3>2. CASE i = regroup.new
      <4>1. i \in Ids /\ ref = regroup.ref
        BY <3>1, <3>2, <2>4, <1>3, <1>6
      <4> QED BY <3>1, <3>2, <4>1, <2>1, <2>3, <1>1 DEF CleanInv, RegroupRight
    <3>3. CASE i # regroup.new
      <4>1. ref = rows[i].ref
        BY <3>1, <3>3, <2>4, <1>3, <1>6
      <4> QED BY <3>1, <3>3, <4>1, <2>1, <2>3 DEF CleanInv
    <3> QED BY <3>2, <3>3
  <2>5. /\ \A t \in Writer : writer'[t].step = "free"
        /\ regroup'.todo \subseteq Written'
        /\ \A i \in Written' \ regroup'.todo : \A k \in regroup'.todo : i < k
    BY <2>1, <1>1, <1>2, <1>3 DEF CleanInv
  <2> QED BY <2>4, <2>5, <1>2, <1>5 DEF CleanInv
<1> QED BY <1>1, <1>2, <1>8, <1>9 DEF RuleInv

\* A clean regrouping that has come to its end has repaired every row.
LEMMA EndRegroupRight ==
  ASSUME HistoryInv, EndRegroup
  PROVE  RuleInv'
<1> USE DEF HistoryInv, GroupingInv
<1>1. /\ regroup.step = "select" /\ regroup.todo = {} /\ regroup' = Stopped
      /\ upset' = (upset /\ ~regroup.clean)
      /\ UNCHANGED <<rows, plays, writer, threshold, troubles, regroups>>
  BY DEF EndRegroup
<1>2. regroup'.step = "off" /\ regroup'.todo = {}
  BY <1>1 DEF Stopped
<1>3. /\ Ids' = Ids /\ Written' = Written
      /\ \A i : IsTitle(i)' <=> IsTitle(i)
      /\ \A i, ref : Right(i, ref)' <=> Right(i, ref)
  BY <1>1, UnchangedJudged
<1>4. SUFFICES ASSUME ~upset' PROVE RightInv'
  BY <1>2 DEF RuleInv
<1>5. RegroupRight'
  BY <1>2 DEF RegroupRight
<1>6. AloneInv /\ \A i \in Written, ref \in Nat : IsTitle(i) /\ ref = rows[i].ref => Right(i, ref)
  <2>1. CASE ~upset
    BY <2>1 DEF RuleInv, RightInv
  <2>2. CASE regroup.clean
    <3>1. CleanInv
      BY <2>2, <1>1 DEF RuleInv
    <3>2. AloneInv
      BY <3>1 DEF CleanInv, AloneInv
    <3> QED BY <3>1, <3>2, <1>1 DEF CleanInv
  <2> QED BY <2>1, <2>2, <1>1, <1>4
<1>7. AloneInv'
  BY <1>1, <1>3, <1>6 DEF AloneInv
<1> QED BY <1>1, <1>2, <1>3, <1>5, <1>6, <1>7 DEF RightInv

\* What upsets the grouping leaves no regrouping clean.
LEMMA TroubleRight ==
  ASSUME HistoryInv,
         \/ \E t \in Writer : Break(t)
         \/ BreakRegroup
         \/ \E id \in Ids : Delete(id)
         \/ \E position \in Threshold : Configure(position)
  PROVE  RuleInv'
<1>1. upset'
  BY DEF Break, BreakRegroup, Delete, Configure, Edited
<1>2. ~(regroup'.step # "off" /\ regroup'.clean)
  <2>1. CASE \E t \in Writer : Break(t)
    BY <2>1, AtWorkNotClean DEF Break
  <2>2. CASE BreakRegroup
    BY <2>2 DEF BreakRegroup, Stopped
  <2>3. CASE (\E id \in Ids : Delete(id)) \/ (\E position \in Threshold : Configure(position))
    <3>1. regroup' = [regroup EXCEPT !.clean = FALSE]
      BY <2>3 DEF Delete, Configure, Edited
    <3> QED BY <3>1 DEF HistoryInv, GroupingInv, TypeOK
  <2> QED BY <2>1, <2>2, <2>3
<1> QED BY <1>1, <1>2 DEF RuleInv

\* The days that pass are not in the rule for the items of a library.
LEMMA DayRight ==
  ASSUME HistoryInv, Day
  PROVE  RuleInv'
<1> USE DEF HistoryInv, GroupingInv
<1>1. /\ rows' = [i \in Ids |-> [rows[i] EXCEPT !.old = TRUE]]
      /\ UNCHANGED <<plays, writer, regroup, threshold, upset, regroups>>
  BY DEF Day
<1>2. Ids' = Ids
  BY <1>1 DEF Ids
<1>3. \A i \in Ids : /\ rows'[i].user = rows[i].user /\ rows'[i].key = rows[i].key
                     /\ rows'[i].offset = rows[i].offset /\ rows'[i].ref = rows[i].ref
                     /\ rows'[i].meta = rows[i].meta
  <2>1. \A i \in Ids : rows[i] \in Row
    BY RowTypes
  <2> QED BY <2>1, <1>1 DEF Row
<1>4. Written' = Written /\ Written \subseteq Ids /\ \A i : IsTitle(i)' <=> IsTitle(i)
  BY <1>1, <1>2, <1>3 DEF Written, IsTitle
<1>5. ASSUME NEW i \in Ids, NEW ref PROVE Right(i, ref)' <=> Right(i, ref)
  <2>1. \A j \in Before(i) : rows'[j].ref = rows[j].ref /\ rows'[j].meta = rows[j].meta
    BY <1>3 DEF Before
  <2> QED BY <2>1, <1>1, <1>2, <1>3, SameRowsJudgedAlike
<1>6. RegroupRight => RegroupRight'
  BY <1>1, <1>2, <1>4, <1>5 DEF RegroupRight
<1>7. AloneInv => AloneInv'
  BY <1>1, <1>2, <1>3, <1>4, <1>5 DEF AloneInv
<1>8. ~upset' => RightInv'
  BY <1>1, <1>3, <1>4, <1>5, <1>6, <1>7 DEF RuleInv, RightInv
<1>9. regroup'.step # "off" /\ regroup'.clean => CleanInv'
  BY <1>1, <1>3, <1>4, <1>5, <1>6 DEF RuleInv, CleanInv
<1> QED BY <1>8, <1>9 DEF RuleInv

-----------------------------------------------------------------------------
\* A thread that goes to a step that carries nothing, and leaves the rows' keys and
\* references and the writing to the end of all rows but its own alone.
LEMMA LeavesLive ==
  ASSUME HistoryInv, NEW t \in Writer, NEW place, writer' = [writer EXCEPT ![t] = place],
         place.step \notin {"update", "metadata"}, UNCHANGED <<plays, regroup>>,
         Ids' \subseteq Ids, \A i \in Ids' : rows'[i].ref = rows[i].ref,
         \A i \in Written' : i \in Written \/ (writer[t].step = "metadata" /\ i = writer[t].row)
  PROVE  LiveInv'
<1> USE DEF HistoryInv, GroupingInv
<1>1. /\ writer'[t] = place /\ \A o \in Writer \ {t} : writer'[o] = writer[o]
  BY DEF TypeOK
<1>2. Written' \subseteq Ids' /\ Written' \subseteq Ids
  BY DEF Written
<1>3. \A i \in Written' : plays'[i].key \in Programme => rows'[i].ref # None
  <2> SUFFICES ASSUME NEW i \in Written', plays[i].key \in Programme PROVE rows[i].ref # None
    BY <1>2 DEF IsLive, None
  <2>1. CASE i \in Written
    BY <2>1 DEF LiveInv, IsLive
  <2>2. CASE writer[t].step = "metadata" /\ i = writer[t].row
    BY <2>2, <1>2 DEF LiveInv, IsLive
  <2> QED BY <2>1, <2>2
<1>4. ASSUME NEW o \in Writer, writer'[o].step \in {"update", "metadata"}
      PROVE  writer'[o] = writer[o]
  BY <1>1, <1>4
<1> QED BY <1>3, <1>4 DEF LiveInv, IsLive, None

\* Every step keeps the references of live television.
LEMMA StepLive ==
  ASSUME HistoryInv, TypeOK', [Next]_vars
  PROVE  LiveInv'
<1> USE DEF HistoryInv, GroupingInv
<1>1. ASSUME NEW t \in Writer, Insert(t) PROVE LiveInv'
  <2>1. PICK user \in User, key \in Key, offset \in Offset :
          /\ plays' = Append(plays, [user |-> user, key |-> key])
          /\ rows' = [i \in Ids \cup {Len(plays) + 1} |->
                       IF i = Len(plays) + 1
                       THEN [user |-> user, key |-> key, offset |-> offset,
                             ref |-> None, meta |-> FALSE, old |-> FALSE]
                       ELSE rows[i]]
          /\ writer' = [writer EXCEPT ![t] = [Free EXCEPT !.step = "select", !.row = Len(plays) + 1]]
    BY <1>1 DEF Insert
  <2>2. \A i \in DOMAIN plays : plays'[i] = plays[i] /\ i # Len(plays) + 1
    <3>1. plays \in Seq(Play) /\ [user |-> user, key |-> key] \in Play
      BY DEF TypeOK, Play
    <3> QED BY <2>1, <3>1
  <2>3. /\ Ids \subseteq DOMAIN plays
        /\ \A i \in Ids : rows'[i] = rows[i] /\ plays'[i] = plays[i]
        /\ ~rows'[Len(plays) + 1].meta /\ Ids' = Ids \cup {Len(plays) + 1}
    BY <2>1, <2>2 DEF TypeOK, Ids
  <2>4. Written' = Written /\ Written \subseteq Ids
    BY <2>3 DEF Written
  <2>5. writer'[t].step = "select" /\ \A o \in Writer \ {t} : writer'[o] = writer[o]
    BY <2>1 DEF TypeOK, Free
  <2>6. /\ regroup'.step = regroup.step /\ regroup'.new = regroup.new /\ regroup'.ref = regroup.ref
    BY <1>1 DEF Insert, TypeOK
  <2>7. \A i \in Written' : plays'[i].key \in Programme => rows'[i].ref # None
    BY <2>3, <2>4 DEF LiveInv, IsLive, None
  <2>8. ASSUME NEW o \in Writer, writer'[o].step = "update"
        PROVE  /\ plays'[writer'[o].new].key \in Programme => writer'[o].ref # None
               /\ plays'[writer'[o].row].key \in Programme => writer'[o].new = writer'[o].row
    <3>1. writer'[o] = writer[o] /\ writer[o].step = "update"
      BY <2>5, <2>8
    <3>2. writer[o].new \in DOMAIN plays /\ writer[o].row \in DOMAIN plays
      BY <3>1 DEF CarriedInv, TypeOK
    <3> QED BY <3>1, <3>2, <2>2 DEF LiveInv, IsLive
  <2>9. ASSUME NEW o \in Writer, writer'[o].step = "metadata", writer'[o].row \in Ids',
               plays'[writer'[o].row].key \in Programme
        PROVE  rows'[writer'[o].row].ref # None
    <3>1. writer'[o] = writer[o] /\ writer[o].step = "metadata"
      BY <2>5, <2>9
    <3>2. writer[o].row \in DOMAIN plays
      BY <3>1 DEF TypeOK
    <3>3. writer[o].row \in Ids
      BY <3>1, <3>2, <2>2, <2>3, <2>9
    <3> QED BY <3>1, <3>3, <2>3, <2>9 DEF LiveInv, IsLive
  <2>10. regroup'.step = "update" /\ plays'[regroup'.new].key \in Programme => regroup'.ref # None
    BY <2>2, <2>6 DEF LiveInv, IsLive, None, CarriedInv
  <2> QED BY <2>7, <2>8, <2>9, <2>10 DEF LiveInv, IsLive, None
<1>2. ASSUME NEW t \in Writer, Select(t) PROVE LiveInv'
  <2> DEFINE g == Grouped(writer[t].row, plays[writer[t].row].user, plays[writer[t].row].key)
             place == [step |-> "update", row |-> writer[t].row, new |-> g.new, ref |-> g.ref]
  <2>1. /\ writer' = [writer EXCEPT ![t] = place]
        /\ UNCHANGED <<rows, plays, regroup, threshold, upset, troubles, regroups>>
        /\ writer[t].row \in DOMAIN plays
    BY <1>2 DEF Select, TypeOK
  <2>2. plays[g.new] = plays[writer[t].row]
    BY <2>1, GroupedNames
  <2>3. plays[writer[t].row].key \in Programme => g.new = writer[t].row /\ g.ref # None
    BY <2>1, GroupedLive DEF LiveInv, IsLive
  <2> HIDE DEF g
  <2>4. /\ writer'[t].step = "update" /\ writer'[t].row = writer[t].row
        /\ writer'[t].new = g.new /\ writer'[t].ref = g.ref
        /\ \A o \in Writer \ {t} : writer'[o] = writer[o]
    BY <2>1 DEF TypeOK
  <2>5. Ids' = Ids /\ Written' = Written
    BY <2>1 DEF Ids, Written
  <2> QED BY <2>1, <2>2, <2>3, <2>4, <2>5 DEF LiveInv, IsLive, None
<1>3. ASSUME NEW t \in Writer, Update(t) PROVE LiveInv'
  <2> DEFINE place == [Free EXCEPT !.step = "metadata", !.row = writer[t].row]
  <2>1. /\ writer[t].step = "update" /\ rows' = Refer(writer[t].new, writer[t].ref)
        /\ writer' = [writer EXCEPT ![t] = place]
        /\ UNCHANGED <<plays, regroup, threshold, upset, troubles, regroups>>
    BY <1>3 DEF Update
  <2>2. /\ Ids' = Ids /\ Written' = Written
        /\ \A i \in Ids : rows'[i].ref = IF i = writer[t].new THEN writer[t].ref ELSE rows[i].ref
    BY <2>1, ReferFields
  <2>3. /\ writer'[t].step = "metadata" /\ writer'[t].row = writer[t].row
        /\ \A o \in Writer \ {t} : writer'[o] = writer[o]
    BY <2>1 DEF TypeOK, Free
  <2>4. /\ IsLive(writer[t].new) => writer[t].ref # None
        /\ plays[writer[t].row].key \in Programme => writer[t].new = writer[t].row
    BY <2>1 DEF LiveInv, IsLive
  <2>5. Written \subseteq Ids
    BY DEF Written
  <2>6. \A i \in Ids : (IsLive(i) => rows[i].ref # None) => (IsLive(i) => rows'[i].ref # None)
    BY <2>1, <2>2, <2>4 DEF IsLive, None
  <2>7. writer[t].row \in Ids /\ IsLive(writer[t].row) => rows'[writer[t].row].ref # None
    BY <2>1, <2>2, <2>4 DEF IsLive, None
  <2> QED BY <2>1, <2>2, <2>3, <2>5, <2>6, <2>7 DEF LiveInv, IsLive, None
<1>4. ASSUME NEW t \in Writer, Describe(t) \/ Break(t) PROVE LiveInv'
  <2>1. writer' = [writer EXCEPT ![t] = Free] /\ UNCHANGED <<plays, regroup>>
    BY <1>4 DEF Describe, Break
  <2>2. /\ Ids' \subseteq Ids /\ \A i \in Ids' : rows'[i].ref = rows[i].ref
        /\ \A i \in Written' : i \in Written \/ (writer[t].step = "metadata" /\ i = writer[t].row)
    <3>1. CASE Describe(t)
      <4>1. /\ writer[t].step = "metadata"
            /\ rows' = [i \in Ids |-> IF i = writer[t].row THEN [rows[i] EXCEPT !.meta = TRUE]
                                      ELSE rows[i]]
        BY <3>1 DEF Describe
      <4>2. \A i \in Ids : rows[i] \in Row
        BY RowTypes
      <4>3. Ids' = Ids
        BY <4>1 DEF Ids
      <4>4. \A i \in Ids : /\ rows'[i].ref = rows[i].ref
                           /\ i # writer[t].row => rows'[i].meta = rows[i].meta
        BY <4>1, <4>2 DEF Row
      <4> QED BY <4>1, <4>3, <4>4 DEF Written
    <3>2. CASE Break(t)
      BY <3>2 DEF Break, Ids, Written
    <3> QED BY <3>1, <3>2, <1>4
  <2>3. Free.step \notin {"update", "metadata"}
    BY DEF Free
  <2> QED BY <2>1, <2>2, <2>3, LeavesLive
<1>5. CASE SelectAgain
  <2>1. PICK id \in Following(regroup.todo) :
          LET g == Grouped(id, plays[id].user, plays[id].key) IN
          regroup' = [step |-> "update", todo |-> regroup.todo \ {id},
                      new |-> g.new, ref |-> g.ref, clean |-> regroup.clean]
    BY <1>5 DEF SelectAgain
  <2> DEFINE g == Grouped(id, plays[id].user, plays[id].key)
  <2>2. /\ UNCHANGED <<rows, plays, writer>>
        /\ regroup'.new = g.new /\ regroup'.ref = g.ref
    BY <1>5, <2>1 DEF SelectAgain
  <2>3. id \in DOMAIN plays
    BY DEF Following, TypeOK
  <2>4. plays[g.new] = plays[id]
    BY <2>3, GroupedNames
  <2>5. plays[id].key \in Programme => g.ref # None
    BY <2>3, GroupedLive DEF LiveInv, IsLive
  <2> HIDE DEF g
  <2>6. Ids' = Ids /\ Written' = Written
    BY <2>2 DEF Ids, Written
  <2> QED BY <2>2, <2>4, <2>5, <2>6 DEF LiveInv, IsLive, None
<1>6. CASE UpdateAgain
  <2>1. /\ regroup.step = "update" /\ rows' = Refer(regroup.new, regroup.ref)
        /\ regroup'.step = "select" /\ UNCHANGED <<plays, writer>>
    BY <1>6 DEF UpdateAgain, TypeOK
  <2>2. /\ Ids' = Ids /\ Written' = Written
        /\ \A i \in Ids : rows'[i].ref = IF i = regroup.new THEN regroup.ref ELSE rows[i].ref
    BY <2>1, ReferFields
  <2>3. \A i \in Ids : (IsLive(i) => rows[i].ref # None) => (IsLive(i) => rows'[i].ref # None)
    BY <2>1, <2>2 DEF LiveInv, IsLive, None
  <2>4. Written \subseteq Ids
    BY DEF Written
  <2> QED BY <2>1, <2>2, <2>3, <2>4 DEF LiveInv, IsLive, None
<1>7. CASE StartRegroup \/ EndRegroup \/ BreakRegroup
  <2>0. regroup'.step # "update"
    <3>1. CASE StartRegroup
      <4>1. regroup' = [Stopped EXCEPT !.step = "select", !.todo = regroup'.todo,
                                       !.clean = regroup'.clean]
        BY <3>1 DEF StartRegroup, Stopped
      <4> QED BY <4>1 DEF Stopped
    <3>2. CASE EndRegroup \/ BreakRegroup
      BY <3>2 DEF EndRegroup, BreakRegroup, Stopped
    <3> QED BY <3>1, <3>2, <1>7
  <2>1. UNCHANGED <<rows, plays, writer>> /\ regroup'.step # "update"
    BY <1>7, <2>0 DEF StartRegroup, EndRegroup, BreakRegroup
  <2>2. Ids' = Ids /\ Written' = Written
    BY <2>1 DEF Ids, Written
  <2> QED BY <2>1, <2>2 DEF LiveInv, IsLive, None
<1>8. CASE (\E id \in Ids : Delete(id)) \/ (\E position \in Threshold : Configure(position)) \/ Day
  <2>1. UNCHANGED <<plays, writer>>
    BY <1>8 DEF Delete, Configure, Day, Edited
  <2>2. /\ regroup'.step = regroup.step /\ regroup'.new = regroup.new /\ regroup'.ref = regroup.ref
    BY <1>8 DEF Delete, Configure, Day, Edited, TypeOK
  <2>3. Ids' \subseteq Ids /\ \A i \in Ids' : rows'[i].ref = rows[i].ref /\ rows'[i].meta = rows[i].meta
    <3>1. CASE \E id \in Ids : Delete(id)
      BY <3>1 DEF Delete, Ids
    <3>2. CASE \E position \in Threshold : Configure(position)
      BY <3>2 DEF Configure, Ids
    <3>3. CASE Day
      <4>1. rows' = [i \in Ids |-> [rows[i] EXCEPT !.old = TRUE]]
        BY <3>3 DEF Day
      <4>2. \A i \in Ids : rows[i] \in Row
        BY RowTypes
      <4>3. Ids' = Ids
        BY <4>1 DEF Ids
      <4> QED BY <4>1, <4>2, <4>3 DEF Row
    <3> QED BY <3>1, <3>2, <3>3, <1>8
  <2>4. Written' \subseteq Written /\ Written' \subseteq Ids'
    BY <2>3 DEF Written
  <2> QED BY <2>1, <2>2, <2>3, <2>4 DEF LiveInv, IsLive, None
<1>9. CASE UNCHANGED vars
  <2>1. UNCHANGED <<rows, plays, writer, regroup>>
    BY <1>9 DEF vars
  <2> QED BY <2>1 DEF LiveInv, IsLive, None, Ids, Written
<1> QED BY <1>1, <1>2, <1>3, <1>4, <1>5, <1>6, <1>7, <1>8, <1>9 DEF Next

-----------------------------------------------------------------------------
\* At the start there is nothing to be right or wrong.
LEMMA InitHistory == Init => HistoryInv
<1> SUFFICES ASSUME Init PROVE RuleInv /\ LiveInv
  BY InitGrouping DEF HistoryInv
<1>1. Ids = {} /\ Written = {}
  BY DEF Init, Ids, Written
<1>2. /\ \A t \in Writer : writer[t].step = "free"
      /\ regroup.step = "off" /\ regroup.todo = {}
  BY DEF Init, Free, Stopped
<1>3. RuleInv
  BY <1>1, <1>2 DEF RuleInv, RightInv, AloneInv, RegroupRight
<1>4. LiveInv
  BY <1>1, <1>2 DEF LiveInv
<1> QED BY <1>3, <1>4

\* Every step keeps the history right.
LEMMA StepHistory == HistoryInv /\ [Next]_vars => HistoryInv'
<1> SUFFICES ASSUME HistoryInv, [Next]_vars PROVE HistoryInv'
  OBVIOUS
<1>1. GroupingInv'
  BY StepKeeps DEF HistoryInv
<1>2. TypeOK'
  BY <1>1 DEF GroupingInv
<1>3. LiveInv'
  BY <1>2, StepLive
<1>4. RuleInv'
  <2>1. ASSUME NEW t \in Writer, Insert(t) PROVE RuleInv'
    BY <2>1, <1>2, InsertRight
  <2>2. ASSUME NEW t \in Writer, Select(t) PROVE RuleInv'
    BY <2>2, SelectRight
  <2>3. ASSUME NEW t \in Writer, Update(t) PROVE RuleInv'
    BY <2>3, UpdateRight
  <2>4. ASSUME NEW t \in Writer, Describe(t) PROVE RuleInv'
    BY <2>4, DescribeRight
  <2>5. CASE \/ \E t \in Writer : Break(t)
             \/ BreakRegroup
             \/ \E id \in Ids : Delete(id)
             \/ \E position \in Threshold : Configure(position)
    BY <2>5, TroubleRight
  <2>6. CASE StartRegroup
    BY <2>6, StartRegroupRight
  <2>7. CASE SelectAgain
    BY <2>7, SelectAgainRight
  <2>8. CASE UpdateAgain
    BY <2>8, UpdateAgainRight
  <2>9. CASE EndRegroup
    BY <2>9, EndRegroupRight
  <2>10. CASE Day
    BY <2>10, DayRight
  <2>11. CASE UNCHANGED vars
    <3>1. /\ Ids' = Ids /\ Written' = Written
          /\ \A i : IsTitle(i)' <=> IsTitle(i)
          /\ \A i, ref : Right(i, ref)' <=> Right(i, ref)
      BY <2>11, UnchangedJudged DEF vars
    <3>2. UNCHANGED <<rows, plays, writer, regroup, upset>>
      BY <2>11 DEF vars
    <3>3. (RegroupRight => RegroupRight') /\ (AloneInv => AloneInv')
      BY <3>1, <3>2 DEF RegroupRight, AloneInv
    <3>4. (RightInv => RightInv') /\ (CleanInv => CleanInv')
      BY <3>1, <3>2, <3>3 DEF RightInv, CleanInv
    <3> QED BY <3>2, <3>4 DEF HistoryInv, RuleInv
  <2> QED BY <2>1, <2>2, <2>3, <2>4, <2>5, <2>6, <2>7, <2>8, <2>9, <2>10, <2>11 DEF Next
<1> QED BY <1>1, <1>3, <1>4 DEF HistoryInv

\* As long as nothing upset the grouping, or once a regrouping that nobody disturbed has
\* come to its end, every written play of a library item is in the entry that the rule of
\* group_history says, however long the history, and whatever regrouping runs beside.
THEOREM RuleCorrect == Spec => []GroupedByRule
<1>1. HistoryInv => GroupedByRule
  <2> SUFFICES ASSUME HistoryInv, ~upset, NEW i \in Ids, rows[i].key \in Title, rows[i].meta
               PROVE  Rule(i, rows[i].ref)
    BY DEF GroupedByRule, Rule
  <2>1. i \in Written /\ IsTitle(i) /\ rows[i].ref \in Nat
    BY RowTypes DEF HistoryInv, GroupingInv, Written, IsTitle
  <2> QED BY <2>1 DEF HistoryInv, RuleInv, RightInv, Right
<1> QED BY <1>1, InitHistory, StepHistory, PTL DEF Spec

\* In such a history no play that was written to its end is without an entry, unless a
\* half-written row of the same item lies before it; one of live television never is.
THEOREM ReferredCorrect == Spec => []AlwaysReferred
<1>1. HistoryInv => AlwaysReferred
  <2> SUFFICES ASSUME HistoryInv, ~upset, NEW i \in Ids, rows[i].ref = None, rows[i].meta
               PROVE  \E j \in Before(i) : ~rows[j].meta
    BY DEF AlwaysReferred
  <2>1. i \in Written /\ rows[i] \in Row /\ rows[i].key = plays[i].key /\ rows[i].ref \in Nat
    BY RowTypes DEF HistoryInv, GroupingInv, Written
  <2>2. plays[i].key \notin Programme
    BY <2>1 DEF HistoryInv, LiveInv, IsLive
  <2>3. IsTitle(i)
    BY <2>1, <2>2 DEF Row, Key, IsTitle
  <2> QED BY <2>1, <2>3 DEF HistoryInv, RuleInv, RightInv, Right, Explained
<1> QED BY <1>1, InitHistory, StepHistory, PTL DEF Spec
=============================================================================
