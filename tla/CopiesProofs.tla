---------------------------- MODULE CopiesProofs ----------------------------
(***************************************************************************)
(* What becomes of the copies of a reminder.  A row is copied from lists   *)
(* to files, requests, the table and answers, and edited in one place at a *)
(* time; that a deletion holds, and that no list goes back to an older     *)
(* row, are facts about all its copies together, wherever they are.        *)
(***************************************************************************)
EXTENDS AckedProofs

RowOf(l) == IF l = NoRow THEN NoRow ELSE l.row

SentRow(q, i) == IF q = NoReq THEN NoRow ELSE q.rows[i]

(* The rows a device, or its round, has under an id.                       *)
Held(d, i) ==
  {RowOf(mem[d][i]), RowOf(disk[d][i]), SentRow(req[d], i), SentRow(late[d], i),
   resp[d].conflicts[i], resp[d].changes[i]} \ {NoRow}

Copies(i) == ({RowOf(table[i])} \cup UNION {Held(d, i) : d \in Devices}) \ {NoRow}

-----------------------------------------------------------------------------
(* How a step changes them.                                                *)

(* What the API may show of its row to a device's request.                 *)
Seen(d, i) ==
  IF table[i] # NoRow /\ req[d] # NoReq /\ table[i].owner = req[d].user
  THEN {table[i].row} ELSE {}

HeldKept(d, i) == Held(d, i)' \subseteq Held(d, i) \cup Seen(d, i)

(* A row gets an id: that of a new reminder, or in place of its old one,   *)
(* which was a v1 id or was refused.                                       *)
Created(i, m) ==
  /\ used' = used \cup {i}
  /\ m \notin created /\ created' = created \cup {m}

Renames == LegacyIds # {} \/ \E d \in Devices : ReceiveRetry(d)

HeldBorn(d, i) ==
  /\ i \in Fresh /\ i \in used'
  /\ \E r \in Row :
       /\ Created(i, r.message) \/ Renames
       /\ Held(d, i)' \subseteq Held(d, i) \cup {r}
       /\ \/ r.updated_at = DevNow(d)
          \/ req[d] # NoReq /\ r.updated_at = req[d].at

Edits(d, i) == {Tombstone(mem[d][i].row, DevNow(d)), Fire(mem[d][i].row, DevNow(d))}

HeldEdited(d, i) ==
  /\ mem[d][i] # NoRow
  /\ \E r \in Edits(d, i) : Held(d, i)' \subseteq Held(d, i) \cup {r}

LEMMA HeldType ==
  ASSUME TypeOK, NEW d \in Devices, NEW i \in Ids
  PROVE  /\ Held(d, i) \subseteq Row
         /\ mem[d][i] # NoRow => mem[d][i].row \in Held(d, i)
         /\ disk[d][i] # NoRow => disk[d][i].row \in Held(d, i)
         /\ req[d] # NoReq /\ req[d].rows[i] # NoRow => req[d].rows[i] \in Held(d, i)
         /\ late[d] # NoReq /\ late[d].rows[i] # NoRow => late[d].rows[i] \in Held(d, i)
         /\ resp[d].conflicts[i] # NoRow => resp[d].conflicts[i] \in Held(d, i)
         /\ resp[d].changes[i] # NoRow => resp[d].changes[i] \in Held(d, i)
<1>1. ASSUME NEW l \in Maybe(Local) PROVE RowOf(l) \in Maybe(Row)
  BY <1>1 DEF RowOf, Maybe, Local
<1>2. ASSUME NEW q \in Request \cup {NoReq} PROVE SentRow(q, i) \in Maybe(Row)
  BY <1>2 DEF SentRow, Request, Rows, Maybe
<1>3. /\ mem[d][i] \in Maybe(Local) /\ disk[d][i] \in Maybe(Local)
      /\ req[d] \in Request \cup {NoReq} /\ late[d] \in Request \cup {NoReq}
      /\ resp[d].conflicts[i] \in Maybe(Row) /\ resp[d].changes[i] \in Maybe(Row)
  BY DEF TypeOK, List, Response, Rows
<1>4. Held(d, i) \subseteq Row
  <2>1. /\ RowOf(mem[d][i]) \in Maybe(Row) /\ RowOf(disk[d][i]) \in Maybe(Row)
        /\ SentRow(req[d], i) \in Maybe(Row) /\ SentRow(late[d], i) \in Maybe(Row)
    BY <1>1, <1>2, <1>3
  <2> QED BY <1>3, <2>1 DEF Held, Maybe
<1>5. ASSUME NEW l \in Maybe(Local), l # NoRow PROVE RowOf(l) = l.row /\ l.row # NoRow
  BY <1>5, NoRowAssumption DEF RowOf, Maybe, Local
<1>6. \A q : q # NoReq => SentRow(q, i) = q.rows[i]
  BY DEF SentRow
<1> QED BY <1>3, <1>4, <1>5, <1>6 DEF Held

(* Six places; each gets a row of S or none.                               *)
LEMMA HeldWithin ==
  ASSUME NEW d \in Devices, NEW i \in Ids, NEW S,
         RowOf(mem'[d][i]) \in S \cup {NoRow}, RowOf(disk'[d][i]) \in S \cup {NoRow},
         SentRow(req'[d], i) \in S \cup {NoRow}, SentRow(late'[d], i) \in S \cup {NoRow},
         resp'[d].conflicts[i] \in S \cup {NoRow}, resp'[d].changes[i] \in S \cup {NoRow}
  PROVE  Held(d, i)' \subseteq S
<1>1. Held(d, i)' = {RowOf(mem'[d][i]), RowOf(disk'[d][i]), SentRow(req'[d], i),
                     SentRow(late'[d], i), resp'[d].conflicts[i],
                     resp'[d].changes[i]} \ {NoRow}
  BY DEF Held, RowOf, SentRow
<1> QED BY <1>1

LEMMA HeldPlaces ==
  ASSUME NEW d \in Devices, NEW i \in Ids
  PROVE  /\ RowOf(mem[d][i]) \in Held(d, i) \cup {NoRow}
         /\ RowOf(disk[d][i]) \in Held(d, i) \cup {NoRow}
         /\ SentRow(req[d], i) \in Held(d, i) \cup {NoRow}
         /\ SentRow(late[d], i) \in Held(d, i) \cup {NoRow}
         /\ resp[d].conflicts[i] \in Held(d, i) \cup {NoRow}
         /\ resp[d].changes[i] \in Held(d, i) \cup {NoRow}
         /\ RowOf(NoRow) = NoRow
         /\ SentRow(NoReq, i) = NoRow
         /\ NoAnswer.conflicts[i] = NoRow /\ NoAnswer.changes[i] = NoRow
BY DEF Held, RowOf, SentRow, NoAnswer, Failed, Nothing

LEMMA OthersHeld ==
  ASSUME NEW d \in Devices, NEW i \in Ids, DeviceKept(d)
  PROVE  Held(d, i)' = Held(d, i)
BY DEF DeviceKept, Held, RowOf, SentRow

(* Whatever list a command or the timers make.                             *)
LEMMA LocalChangeHeld ==
  ASSUME TypeOK, NEW d \in Devices, NEW i \in Ids, NEW list \in List, LocalChange(d, list)
  PROVE  /\ list[i] = mem[d][i] => HeldKept(d, i)
         /\ list[i] # NoRow => Held(d, i)' \subseteq Held(d, i) \cup {list[i].row}
         /\ mem'[d][i] = list[i]
<1> DEFINE S == Held(d, i) \cup {RowOf(list[i])}
<1>1. mem'[d] = list /\ disk'[d] \in {list, disk[d], Nothing}
  BY DEF LocalChange, Save, TypeOK
<1>2. req' = req /\ late' = late /\ resp' = resp
  BY DEF LocalChange
<1>3. /\ RowOf(mem'[d][i]) \in S \cup {NoRow}
      /\ RowOf(disk'[d][i]) \in S \cup {NoRow}
  BY <1>1, HeldPlaces DEF Nothing
<1>4. /\ SentRow(req'[d], i) \in S \cup {NoRow} /\ SentRow(late'[d], i) \in S \cup {NoRow}
      /\ resp'[d].conflicts[i] \in S \cup {NoRow} /\ resp'[d].changes[i] \in S \cup {NoRow}
  BY <1>2, HeldPlaces
<1>5. Held(d, i)' \subseteq S
  <2> HIDE DEF S
  <2> QED BY <1>3, <1>4, HeldWithin
<1>6. NoRow \notin Held(d, i)'
  BY DEF Held
<1>7. list[i] # NoRow => RowOf(list[i]) = list[i].row
  BY DEF RowOf
<1>8. list[i] = mem[d][i] => S \subseteq Held(d, i) \cup {NoRow}
  BY HeldPlaces
<1> QED BY <1>1, <1>5, <1>6, <1>7, <1>8 DEF HeldKept

LEMMA RenameHeld ==
  ASSUME TypeOK, NEW d \in Devices, NEW i \in Ids, NEW S, S \subseteq Unsynced(mem[d]),
         NEW g \in Renamings(S), NEW t \in Int,
         mem'[d] = Rename(mem[d], g, t), used' = used \cup DOMAIN g,
         UNCHANGED <<disk[d], late[d]>>,
         req'[d] = NoReq \/ req'[d].rows = Outgoing(mem'[d]),
         resp'[d] \in {resp[d], NoAnswer},
         t = DevNow(d) \/ (req[d] # NoReq /\ t = req[d].at),
         S # {} => Renames
  PROVE  HeldKept(d, i) \/ HeldBorn(d, i)
<1>0. mem[d] \in List
  BY DEF TypeOK
<1>1. mem'[d] \in List
  BY <1>0, RenameType
<1> DEFINE T == Held(d, i) \cup {RowOf(mem'[d][i])}
<1>2. Held(d, i)' \subseteq T
  <2>1. SentRow(req'[d], i) \in {RowOf(mem'[d][i]), NoRow}
    BY DEF SentRow, Outgoing, Unsynced, RowOf
  <2>2. /\ RowOf(mem'[d][i]) \in T \cup {NoRow} /\ RowOf(disk'[d][i]) \in T \cup {NoRow}
        /\ SentRow(req'[d], i) \in T \cup {NoRow} /\ SentRow(late'[d], i) \in T \cup {NoRow}
        /\ resp'[d].conflicts[i] \in T \cup {NoRow} /\ resp'[d].changes[i] \in T \cup {NoRow}
    BY <2>1, HeldPlaces
  <2> HIDE DEF T
  <2> QED BY <2>2, HeldWithin
<1>3. NoRow \notin Held(d, i)'
  BY DEF Held
<1>4. CASE i \in DOMAIN g
  <2>1. i \in Fresh /\ i \in used'
    BY <1>4 DEF Renamings, Bijection, Injection
  <2>2. g[i] \in Ids /\ mem[d][g[i]] \in Local
    BY <1>0, <1>4, RenamingFacts DEF Unsynced, List, Maybe
  <2> DEFINE l == [mem[d][g[i]] EXCEPT !.row.updated_at = t]
  <2>3. mem'[d][i] = l
    BY <1>4 DEF Rename
  <2>4. l \in Local /\ l.row \in Row /\ l.row.updated_at = t
    BY <2>2 DEF Local, Row
  <2>5. RowOf(mem'[d][i]) = l.row
    BY <2>3, <2>4, NoLocalAssumption DEF RowOf
  <2>6. Renames
    BY <1>4, RenamingFacts
  <2> HIDE DEF l
  <2> QED BY <1>2, <2>1, <2>4, <2>5, <2>6 DEF HeldBorn
<1>5. CASE i \notin DOMAIN g
  <2>1. mem'[d][i] \in {mem[d][i], NoRow}
    BY <1>5 DEF Rename
  <2>2. T \subseteq Held(d, i) \cup {NoRow}
    BY <2>1, HeldPlaces
  <2> QED BY <1>2, <1>3, <2>2 DEF HeldKept
<1> QED BY <1>4, <1>5

LEMMA MergeHeld ==
  ASSUME TypeOK, NEW d \in Devices, NEW i \in Ids, ReceiveOk(d)
  PROVE  HeldKept(d, i)
<1> DEFINE list == [j \in Ids |-> MergeAnswer(mem[d][j], req[d].rows[j],
                                    resp[d].conflicts[j], resp[d].changes[j])]
           l == mem[d][i]
           sent == req[d].rows[i]
           conflict == resp[d].conflicts[i]
           change == resp[d].changes[i]
           H == Held(d, i)
<1>1. /\ l \in Maybe(Local) /\ sent \in Maybe(Row)
      /\ conflict \in Maybe(Row) /\ change \in Maybe(Row)
  BY DEF ReceiveOk, TypeOK, List, Request, Response, Rows
<1>2. list[i] = MergeAnswer(l, sent, conflict, change)
  OBVIOUS
<1>3. RowOf(list[i]) \in H \cup {NoRow}
  <2>1. CASE list[i] = NoRow
    BY <2>1 DEF RowOf
  <2>2. CASE list[i] # NoRow
    <3>1. \/ l # NoRow /\ list[i].row = l.row
          \/ conflict # NoRow /\ list[i].row = conflict
          \/ change # NoRow /\ list[i].row = change
      <4> HIDE DEF l, sent, conflict, change, list
      <4> QED BY <1>1, <1>2, <2>2, MergeAnswerRow
    <3>2. RowOf(list[i]) = list[i].row
      BY <2>2 DEF RowOf
    <3> QED BY <3>1, <3>2, HeldType
  <2> QED BY <2>1, <2>2
<1>4. mem'[d] = list /\ disk'[d] \in {list, disk[d], Nothing} /\ late' = late
      /\ req'[d] = NoReq /\ resp'[d] = NoAnswer
  <2> HIDE DEF list
  <2>1. mem' = [mem EXCEPT ![d] = list] /\ Finish(d) /\ late' = late
    BY DEF ReceiveOk, list
  <2>2. Save(d, list) \/ disk' = [disk EXCEPT ![d] = list]
    BY DEF ReceiveOk, list
  <2> QED BY <2>1, <2>2 DEF Finish, Save, TypeOK
<1>5. /\ RowOf(mem'[d][i]) \in H \cup {NoRow} /\ RowOf(disk'[d][i]) \in H \cup {NoRow}
      /\ SentRow(req'[d], i) \in H \cup {NoRow} /\ SentRow(late'[d], i) \in H \cup {NoRow}
      /\ resp'[d].conflicts[i] \in H \cup {NoRow} /\ resp'[d].changes[i] \in H \cup {NoRow}
  <2> HIDE DEF list
  <2> QED BY <1>3, <1>4, HeldPlaces DEF Nothing
<1>6. Held(d, i)' \subseteq H
  <2> HIDE DEF H
  <2> QED BY <1>5, HeldWithin
<1> QED BY <1>6 DEF HeldKept

(* What an answer tells a device is its own or the API's.                  *)
LEMMA AnswerShown ==
  ASSUME TypeOK, NEW d \in Devices, NEW i \in Ids, phase[d] = "sent"
  PROVE  /\ Answer(req[d]).conflicts[i] \in Held(d, i) \cup Seen(d, i) \cup {NoRow}
         /\ Answer(req[d]).changes[i] \in Held(d, i) \cup Seen(d, i) \cup {NoRow}
<1> DEFINE q == req[d]
           S == Held(d, i) \cup Seen(d, i) \cup {NoRow}
<1>0. q \in Request /\ q # NoReq /\ table[i] \in Maybe(Stored)
  BY NoReqAssumption DEF TypeOK
<1>1. q.rows[i] \in S
  BY <1>0, HeldType
<1>2. Owned(table, q.user, i) \in S
  BY <1>0 DEF Owned, Seen
<1>3. Owned(Written(q), q.user, i) \in S
  <2>1. CASE Writes(q, i)
    <3>1. Written(q)[i] = [owner |-> q.user, row |-> q.rows[i]]
      BY <2>1 DEF Written
    <3> QED BY <1>1, <3>1 DEF Owned
  <2>2. CASE ~Writes(q, i)
    <3>1. Written(q)[i] = table[i]
      BY <2>2 DEF Written
    <3> QED BY <1>2, <3>1 DEF Owned
  <2> QED BY <2>1, <2>2
<1>4. Answer(q).conflicts[i] \in S
  BY <1>1, <1>2 DEF Answer, ConflictRow
<1>5. Answer(q).changes[i] \in S
  BY <1>3 DEF Answer
<1> QED BY <1>4, <1>5

LEMMA EditFacts ==
  ASSUME TypeOK, NEW d \in Devices, NEW i \in Ids, mem[d][i] # NoRow, NEW r \in Edits(d, i)
  PROVE  /\ r \in Row /\ r.updated_at = DevNow(d)
         /\ r.message = mem[d][i].row.message
         /\ Period[r.message] = 0 => r.deleted
         /\ Pending(r) \in Local /\ Pending(r).row = r /\ Pending(r) # NoRow
<1> DEFINE s == mem[d][i].row
           t == DevNow(d)
<1>1. s \in Row /\ t \in Int
  BY DevNowType DEF TypeOK, List, Maybe, Local
<1>2. s.message \in Messages /\ Period[s.message] \in Nat
  BY <1>1, PeriodAssumption DEF Row
<1>3. /\ Tombstone(s, t) \in Row /\ Tombstone(s, t).updated_at = t
      /\ Fire(s, t) \in Row /\ Fire(s, t).updated_at = t
  <2> HIDE DEF s, t
  <2>1. 0 \in Int
    OBVIOUS
  <2> QED BY <1>1, <1>2, <2>1, RowTypes
<1>4. Tombstone(s, t).message = s.message /\ Tombstone(s, t).deleted
  BY <1>1 DEF Tombstone, Row
<1>5. Fire(s, t).message = s.message /\ (Period[s.message] = 0 => Fire(s, t).deleted)
  BY <1>1, <1>2 DEF Fire, Row
<1>6. r \in {Tombstone(s, t), Fire(s, t)}
  BY DEF Edits
<1>7. /\ r \in Row /\ r.updated_at = t /\ r.message = s.message
      /\ Period[r.message] = 0 => r.deleted
  <2> HIDE DEF s, t
  <2> QED BY <1>3, <1>4, <1>5, <1>6
<1>8. Pending(r) \in Local /\ Pending(r).row = r
  BY <1>7 DEF Pending, Local, Status
<1> QED BY <1>7, <1>8, NoLocalAssumption

LEMMA OwnHeld ==
  ASSUME TypeOK, NEW d \in Devices, NEW i \in Ids, Daemon(d) \/ Api(d) \/ User(d)
  PROVE  \/ HeldKept(d, i)
         \/ UNCHANGED <<now, table>> /\ (HeldBorn(d, i) \/ HeldEdited(d, i))
<1> DEFINE S == Held(d, i) \cup Seen(d, i)
<1>0. /\ mem[d] \in List /\ DevNow(d) \in Int
      /\ \A j \in Ids : mem[d][j] \in Maybe(Local)
  BY DevNowType DEF TypeOK, List
<1>w. ASSUME /\ RowOf(mem'[d][i]) \in S \cup {NoRow} /\ RowOf(disk'[d][i]) \in S \cup {NoRow}
             /\ SentRow(req'[d], i) \in S \cup {NoRow} /\ SentRow(late'[d], i) \in S \cup {NoRow}
             /\ resp'[d].conflicts[i] \in S \cup {NoRow} /\ resp'[d].changes[i] \in S \cup {NoRow}
      PROVE  HeldKept(d, i)
  <2>1. Held(d, i)' \subseteq S
    <3> HIDE DEF S
    <3> QED BY <1>w, HeldWithin
  <2> QED BY <2>1 DEF HeldKept
<1>d. Daemon(d) => UNCHANGED <<now, table>>
  BY DEF Daemon, Add, Delete, CheckTimers, LocalChange, SyncBegin, ReceiveOk,
         ReceiveRetry, ReceiveFail, Timeout, Crash, Restart
<1>1. ASSUME NEW k \in Ids, NEW m \in Messages, NEW f \in FireTimes, Add(d, k, m, f)
      PROVE  HeldKept(d, i) \/ HeldBorn(d, i)
  <2> DEFINE r == NewRow(m, f, DevNow(d))
             list == [mem[d] EXCEPT ![k] = Pending(r)]
  <2>1. r \in Row /\ r.updated_at = DevNow(d) /\ r.message = m
    BY <1>0, ClockAssumption DEF NewRow, Row
  <2>2. Pending(r) \in Local /\ Pending(r).row = r /\ Pending(r) # NoRow
    BY <2>1, NoLocalAssumption DEF Pending, Local, Status
  <2>3. list \in List
    BY <1>0, <2>2 DEF List, Maybe
  <2>4. list[i] = IF i = k THEN Pending(r) ELSE mem[d][i]
    BY <1>0 DEF List
  <2>5. LocalChange(d, list) /\ k \in Fresh /\ k \in used' /\ Created(k, m)
    BY <1>1 DEF Add, Created
  <2> HIDE DEF r, list
  <2> QED BY <2>1, <2>2, <2>3, <2>4, <2>5, LocalChangeHeld DEF HeldBorn
<1>e. ASSUME NEW list \in List, LocalChange(d, list),
             \/ list[i] = mem[d][i]
             \/ mem[d][i] # NoRow /\ \E r \in Edits(d, i) : list[i] = Pending(r)
      PROVE  HeldKept(d, i) \/ HeldEdited(d, i)
  <2>1. CASE list[i] = mem[d][i]
    BY <1>e, <2>1, LocalChangeHeld
  <2>2. ASSUME mem[d][i] # NoRow, NEW r \in Edits(d, i), list[i] = Pending(r)
        PROVE  HeldEdited(d, i)
    <3>1. list[i] # NoRow /\ list[i].row = r
      BY <2>2, EditFacts
    <3>2. Held(d, i)' \subseteq Held(d, i) \cup {r}
      BY <1>e, <3>1, LocalChangeHeld
    <3> QED BY <2>2, <3>2 DEF HeldEdited
  <2> QED BY <1>e, <2>1, <2>2
<1>2. ASSUME NEW k \in Ids, Delete(d, k)
      PROVE  HeldKept(d, i) \/ HeldEdited(d, i)
  <2> DEFINE r == Tombstone(mem[d][k].row, DevNow(d))
             list == [mem[d] EXCEPT ![k] = Pending(r)]
  <2>1. mem[d][k] # NoRow /\ r \in Edits(d, k)
    BY <1>2 DEF Delete, Edits
  <2>2. Pending(r) \in Local
    <3> HIDE DEF r
    <3> QED BY <2>1, EditFacts
  <2>3. list \in List
    BY <1>0, <2>2 DEF List, Maybe
  <2>4. list[i] = IF i = k THEN Pending(r) ELSE mem[d][i]
    BY <1>0 DEF List
  <2>5. LocalChange(d, list)
    <3>1. list = [mem[d] EXCEPT ![k] = Pending(Tombstone(@.row, DevNow(d)))]
      OBVIOUS
    <3> QED BY <1>2, <3>1 DEF Delete
  <2>6. \/ list[i] = mem[d][i]
        \/ mem[d][i] # NoRow /\ \E x \in Edits(d, i) : list[i] = Pending(x)
    <3> HIDE DEF r, list
    <3> QED BY <2>1, <2>4
  <2> HIDE DEF r, list
  <2> QED BY <1>e, <2>3, <2>5, <2>6
<1>3. CASE CheckTimers(d)
  <2> DEFINE f(j) == Pending(Fire(mem[d][j].row, DevNow(d)))
             list == [j \in Ids |-> IF Due(d, j) THEN f(j) ELSE mem[d][j]]
  <2>1. ASSUME NEW j \in Ids, Due(d, j)
        PROVE  f(j) \in Local /\ mem[d][j] # NoRow
               /\ \E r \in Edits(d, j) : f(j) = Pending(r)
    <3> DEFINE r == Fire(mem[d][j].row, DevNow(d))
    <3>1. mem[d][j] # NoRow /\ r \in Edits(d, j)
      BY <2>1 DEF Due, Edits
    <3>2. Pending(r) \in Local
      <4> HIDE DEF r
      <4> QED BY <3>1, EditFacts
    <3> QED BY <3>1, <3>2
  <2>2. list \in List
    BY <1>0, <2>1 DEF List, Maybe
  <2>3. LocalChange(d, list)
    BY <1>3 DEF CheckTimers
  <2>4. list[i] = IF Due(d, i) THEN f(i) ELSE mem[d][i]
    OBVIOUS
  <2>5. \/ list[i] = mem[d][i]
        \/ mem[d][i] # NoRow /\ \E x \in Edits(d, i) : list[i] = Pending(x)
    <3> HIDE DEF f, list
    <3> QED BY <2>1, <2>4
  <2> HIDE DEF f, list
  <2> QED BY <1>3, <1>d, <1>e, <2>2, <2>3, <2>5 DEF Daemon
<1>4. CASE SyncBegin(d)
  <2> DEFINE U == Unsynced(mem[d]) \cap LegacyIds
  <2>1. PICK g \in Renamings(U) :
          /\ mem' = [mem EXCEPT ![d] = Rename(mem[d], g, DevNow(d))]
          /\ req' = [req EXCEPT ![d] =
               [user |-> cred[d], since |-> cursor[d], at |-> DevNow(d),
                rows |-> Outgoing(Rename(mem[d], g, DevNow(d))), retried |-> FALSE]]
          /\ used' = used \cup DOMAIN g
    BY <1>4 DEF SyncBegin
  <2>2. mem'[d] = Rename(mem[d], g, DevNow(d)) /\ req'[d].rows = Outgoing(mem'[d])
    BY <2>1 DEF TypeOK
  <2>3. UNCHANGED <<disk[d], late[d]>> /\ resp' = resp
    BY <1>4 DEF SyncBegin
  <2>4. U \subseteq Unsynced(mem[d]) /\ (U # {} => Renames)
    BY DEF Renames
  <2> HIDE DEF U
  <2> QED BY <1>0, <1>4, <1>d, <2>1, <2>2, <2>3, <2>4, RenameHeld DEF Daemon
<1>5. CASE ReceiveOk(d)
  BY <1>5, MergeHeld
<1>6. CASE ReceiveRetry(d)
  <2>0. req[d] \in Request /\ req[d] # NoReq /\ req[d].at \in Int
    BY <1>6, NoReqAssumption DEF ReceiveRetry, TypeOK, Request
  <2>1. PICK g \in Renamings(Unsynced(mem[d])) :
          /\ mem' = [mem EXCEPT ![d] = Rename(mem[d], g, req[d].at)]
          /\ used' = used \cup DOMAIN g
          /\ \/ Finish(d)
             \/ /\ req' = [req EXCEPT ![d].user = cred[d],
                                      ![d].rows = Outgoing(Rename(mem[d], g, req[d].at)),
                                      ![d].retried = TRUE]
                /\ resp' = [resp EXCEPT ![d] = NoAnswer]
    BY <1>6 DEF ReceiveRetry
  <2>2. mem'[d] = Rename(mem[d], g, req[d].at)
    BY <2>1 DEF TypeOK
  <2>3. UNCHANGED <<disk[d], late[d]>>
    BY <1>6 DEF ReceiveRetry
  <2>4. (req'[d] = NoReq \/ req'[d].rows = Outgoing(mem'[d])) /\ resp'[d] = NoAnswer
    <3>1. CASE Finish(d)
      BY <3>1 DEF Finish, TypeOK
    <3>2. CASE /\ req' = [req EXCEPT ![d].user = cred[d],
                                     ![d].rows = Outgoing(Rename(mem[d], g, req[d].at)),
                                     ![d].retried = TRUE]
               /\ resp' = [resp EXCEPT ![d] = NoAnswer]
      <4>1. req'[d] = [req[d] EXCEPT !.user = cred[d],
                                     !.rows = Outgoing(Rename(mem[d], g, req[d].at)),
                                     !.retried = TRUE]
        BY <3>2 DEF TypeOK
      <4>2. req'[d].rows = Outgoing(mem'[d])
        BY <2>0, <2>2, <4>1 DEF Request
      <4> QED BY <3>2, <4>2 DEF TypeOK
    <3> QED BY <2>1, <3>1, <3>2
  <2>5. Unsynced(mem[d]) \subseteq Unsynced(mem[d]) /\ Renames
    BY <1>6 DEF Renames
  <2> QED BY <1>6, <1>d, <2>0, <2>1, <2>2, <2>3, <2>4, <2>5, RenameHeld DEF Daemon
<1>7. CASE ReceiveFail(d) \/ Timeout(d) \/ Crash(d) \/ Restart(d)
  <2>1. /\ mem'[d] \in {mem[d], disk[d], Nothing} /\ disk'[d] \in {disk[d], Nothing}
        /\ req'[d] \in {req[d], NoReq} /\ late'[d] \in {late[d], req[d]}
        /\ resp'[d] \in {resp[d], NoAnswer}
    <3>1. CASE ReceiveFail(d)
      BY <3>1 DEF ReceiveFail, Finish, TypeOK
    <3>2. CASE Timeout(d)
      BY <3>2 DEF Timeout, Finish, TypeOK
    <3>3. CASE Crash(d)
      <4>1. PICK left \in CrashLeaves(d) : disk' = [disk EXCEPT ![d] = left[1]]
        BY <3>3 DEF Crash
      <4>2. left[1] \in {disk[d], Nothing}
        BY DEF CrashLeaves
      <4> QED BY <3>3, <4>1, <4>2 DEF Crash, TypeOK
    <3>4. CASE Restart(d)
      BY <3>4 DEF Restart, TypeOK
    <3> QED BY <1>7, <3>1, <3>2, <3>3, <3>4
  <2> QED BY <1>w, <2>1, HeldPlaces DEF Nothing
<1>8. ASSUME NEW a, Answered(d, a),
             a.conflicts[i] \in S \cup {NoRow}, a.changes[i] \in S \cup {NoRow}
      PROVE  HeldKept(d, i)
  <2>1. UNCHANGED <<mem[d], disk[d], req[d], late[d]>> /\ resp'[d] = a
    BY <1>8 DEF Answered, TypeOK
  <2> QED BY <1>w, <1>8, <2>1, HeldPlaces
<1>9. CASE Api(d)
  <2>0. \A s : Failed(s).conflicts[i] = NoRow /\ Failed(s).changes[i] = NoRow
    BY DEF Failed, Nothing
  <2>1. CASE ServerSync(d)
    <3>1. Answered(d, Verdict(req[d])) /\ phase[d] = "sent"
      BY <2>1 DEF ServerSync, Answered
    <3>2. /\ Verdict(req[d]).conflicts[i] \in S \cup {NoRow}
          /\ Verdict(req[d]).changes[i] \in S \cup {NoRow}
      BY <2>0, <3>1, AnswerShown DEF Verdict
    <3> HIDE DEF S
    <3> QED BY <1>8, <3>1, <3>2
  <2>2. CASE ServerError(d)
    BY <1>8, <2>0, <2>2 DEF ServerError
  <2>3. CASE ServerLate(d)
    BY <1>w, <2>3, HeldPlaces DEF ServerLate, TypeOK
  <2>4. CASE ServerOverlap(d)
    <3>1. /\ UNCHANGED <<mem[d], disk[d], req[d]>> /\ late'[d] = NoReq
          /\ resp'[d] = Failed(409)
      BY <2>4 DEF ServerOverlap, TypeOK
    <3> QED BY <1>w, <2>0, <3>1, HeldPlaces
  <2> QED BY <1>9, <2>1, <2>2, <2>3, <2>4 DEF Api
<1>10. CASE User(d)
  BY <1>w, <1>10, HeldPlaces DEF User, Login, Logout
<1> QED BY <1>1, <1>2, <1>3, <1>4, <1>5, <1>6, <1>7, <1>9, <1>10, <1>d DEF Daemon

LEMMA CopiesStep ==
  ASSUME TypeOK, [Next]_vars, NEW i \in Ids
  PROVE  \/ \A d \in Devices : HeldKept(d, i)
         \/ /\ UNCHANGED <<now, table>>
            /\ \E d \in Devices :
                 /\ HeldBorn(d, i) \/ HeldEdited(d, i)
                 /\ \A e \in Devices \ {d} : Held(e, i)' = Held(e, i)
<1>1. ASSUME NEW d \in Devices, DeviceKept(d) PROVE HeldKept(d, i)
  BY <1>1, OthersHeld DEF HeldKept
<1>2. CASE \E d \in Devices : Daemon(d) \/ Api(d) \/ User(d)
  <2>1. PICK d \in Devices : Daemon(d) \/ Api(d) \/ User(d)
    BY <1>2
  <2>2. \A e \in Devices \ {d} : DeviceKept(e)
    BY <2>1, OthersKept
  <2>3. \A e \in Devices \ {d} : HeldKept(e, i) /\ Held(e, i)' = Held(e, i)
    BY <1>1, <2>2, OthersHeld
  <2> QED BY <2>1, <2>3, OwnHeld
<1>3. CASE (\E u \in WebUsers : Web(u)) \/ Tick \/ UNCHANGED vars
  BY <1>1, <1>3 DEF Web, WebCreate, WebDelete, Tick, vars, DeviceKept
<1> QED BY <1>2, <1>3 DEF Next

LEMMA UsedGrows ==
  ASSUME [Next]_vars
  PROVE  used \subseteq used' /\ used' \subseteq used \cup Fresh
<1>0. \A S : \A g \in Renamings(S) : DOMAIN g \subseteq Fresh
  BY DEF Renamings, Bijection, Injection
<1>1. ASSUME NEW d \in Devices, Daemon(d)
      PROVE  used \subseteq used' /\ used' \subseteq used \cup Fresh
  BY <1>0, <1>1 DEF Daemon, Add, Delete, CheckTimers, SyncBegin, ReceiveOk, ReceiveRetry,
                    ReceiveFail, Timeout, Crash, Restart
<1>2. ASSUME NEW d \in Devices, Api(d) \/ User(d) PROVE used' = used
  BY <1>2 DEF Api, ServerSync, ServerError, ServerOverlap, ServerLate, Answered, User, Login, Logout
<1>3. ASSUME NEW u \in WebUsers, Web(u)
      PROVE  used \subseteq used' /\ used' \subseteq used \cup Fresh
  BY <1>3 DEF Web, WebCreate, WebDelete
<1> QED BY <1>1, <1>2, <1>3 DEF Next, Tick, vars

LEMMA CopiesType ==
  ASSUME TypeOK, NEW i \in Ids
  PROVE  /\ Copies(i) \subseteq Row
         /\ table[i] # NoRow => table[i].row \in Copies(i)
         /\ \A d \in Devices : Held(d, i) \subseteq Copies(i)
<1>1. \A d \in Devices : Held(d, i) \subseteq Row /\ NoRow \notin Held(d, i)
  BY HeldType, NoRowAssumption
<1>2. table[i] # NoRow => table[i].row \in Row /\ RowOf(table[i]) = table[i].row
  BY DEF TypeOK, Maybe, Stored, RowOf
<1>3. table[i] = NoRow => RowOf(table[i]) = NoRow
  BY DEF RowOf
<1> QED BY <1>1, <1>2, <1>3, NoRowAssumption DEF Copies

(***************************************************************************)
(* Every id there is a row under was given out, or is a v1 id.  The latter *)
(* never leave their device: SyncBegin renames them, and the API would     *)
(* refuse them.                                                            *)
(***************************************************************************)
IdsInUse ==
  /\ used \cap LegacyIds = {}
  /\ \A i \in Ids : Copies(i) # {} => i \in used \cup LegacyIds
  /\ \A i \in LegacyIds :
       /\ table[i] = NoRow
       /\ \A d \in Devices :
            /\ SentRow(req[d], i) = NoRow /\ SentRow(late[d], i) = NoRow
            /\ resp[d].conflicts[i] = NoRow /\ resp[d].changes[i] = NoRow

(* The three ways the copies under one id change.                          *)
CopiesKept(i) == Copies(i)' \subseteq Copies(i)

CopiesBorn(i) ==
  /\ i \in Fresh /\ i \in used' /\ Copies(i) = {}
  /\ \E r \in Row : /\ Copies(i)' \subseteq {r}
                    /\ Created(i, r.message) \/ Renames

CopiesEdited(i) ==
  /\ UNCHANGED now
  /\ \E s \in Copies(i), r \in Row :
       /\ Copies(i)' \subseteq Copies(i) \cup {r}
       /\ r.message = s.message
       /\ Period[r.message] = 0 => r.deleted
       /\ r.updated_at = now \/ \E d \in Devices : r.updated_at = DevNow(d)

LEMMA CopyStep ==
  ASSUME TypeOK, IdsInUse, [Next]_vars, NEW i \in Ids
  PROVE  CopiesKept(i) \/ CopiesBorn(i) \/ CopiesEdited(i)
<1> DEFINE C == Copies(i)
<1>0. /\ C \subseteq Row /\ NoRow \notin C /\ table[i] \in Maybe(Stored)
      /\ table[i] # NoRow => table[i].row \in C
      /\ \A d \in Devices : Held(d, i) \subseteq C /\ Seen(d, i) \subseteq C
      /\ now \in Nat
  BY CopiesType, NoRowAssumption DEF TypeOK, Seen
<1>1. \A S : /\ RowOf(table'[i]) \in S \cup {NoRow}
             /\ \A d \in Devices : Held(d, i)' \subseteq S
             => Copies(i)' \subseteq S
  BY DEF Copies, RowOf
<1>2. i \in Fresh => C = {}
  BY DEF IdsInUse, Fresh
<1>3. CASE \A d \in Devices : HeldKept(d, i)
  <2>0. \A d \in Devices : Held(d, i)' \subseteq C
    BY <1>0, <1>3 DEF HeldKept
  <2>1. CASE RowKept(i)
    <3>1. RowOf(table'[i]) \in C \cup {NoRow}
      BY <1>0, <2>1 DEF RowKept, RowOf
    <3> QED BY <1>1, <2>0, <3>1 DEF CopiesKept
  <2>2. CASE RowServed(i)
    <3>1. PICK q \in Request, d \in Devices :
            q \in {req[d], late[d]} /\ table'[i] = After(q)[i]
      BY <2>2 DEF RowServed
    <3>2. q # NoReq /\ TableOK
      BY NoReqAssumption DEF TypeOK, TableOK
    <3>3. CASE After(q)[i] = table[i]
      <4>1. RowOf(table'[i]) \in C \cup {NoRow}
        BY <1>0, <3>1, <3>3 DEF RowOf
      <4> QED BY <1>1, <2>0, <4>1 DEF CopiesKept
    <3>4. CASE After(q)[i] # table[i]
      <4>1. q.rows[i] \in Row /\ After(q)[i] = [owner |-> q.user, row |-> q.rows[i]]
        BY <3>2, <3>4, AfterFacts
      <4>2. q.rows[i] \in Held(d, i)
        BY <3>1, <3>2, <4>1, HeldType, NoRowAssumption
      <4>3. RowOf(table'[i]) \in C \cup {NoRow}
        BY <1>0, <3>1, <4>1, <4>2 DEF RowOf
      <4> QED BY <1>1, <2>0, <4>3 DEF CopiesKept
    <3> QED BY <3>3, <3>4
  <2>3. CASE RowCreated(i)
    <3>1. PICK u \in Users, m \in Messages, f \in FireTimes :
            /\ i \in Fresh /\ i \in used' /\ Created(i, m)
            /\ table'[i] = [owner |-> u, row |-> NewRow(m, f, now)]
      BY <2>3 DEF RowCreated, Created
    <3> DEFINE r == NewRow(m, f, now)
    <3>2. r \in Row /\ r.message = m
      BY <1>0, ClockAssumption DEF NewRow, Row
    <3>3. C = {} /\ RowOf(table'[i]) \in {r} \cup {NoRow}
      BY <1>2, <3>1 DEF RowOf
    <3>4. Copies(i)' \subseteq {r}
      <4> HIDE DEF r
      <4> QED BY <1>1, <2>0, <3>3
    <3> QED BY <3>1, <3>2, <3>3, <3>4 DEF CopiesBorn
  <2>4. CASE RowDeleted(i)
    <3> DEFINE s == table[i].row
               r == Tombstone(s, now)
    <3>1. table[i] \in Stored /\ s \in Row /\ UNCHANGED now
      BY <2>4 DEF RowDeleted, Stored
    <3>2. r \in Row /\ r.updated_at = now /\ r.deleted /\ r.message = s.message
      <4>1. now \in Int /\ s \in Row
        BY <1>0, <3>1
      <4> HIDE DEF s
      <4> QED BY <4>1 DEF Tombstone, Row
    <3>3. table'[i].row = r
      BY <2>4, <3>1 DEF RowDeleted, Stored
    <3>4. s \in C
      BY <1>0, <3>1, NoStoredAssumption
    <3>5. RowOf(table'[i]) \in (C \cup {r}) \cup {NoRow}
      <4> HIDE DEF r
      <4> QED BY <3>3 DEF RowOf
    <3>6. Copies(i)' \subseteq C \cup {r}
      <4> HIDE DEF r, C
      <4>1. \A d \in Devices : Held(d, i)' \subseteq C \cup {r}
        BY <2>0
      <4> QED BY <1>1, <3>5, <4>1
    <3> HIDE DEF r, s
    <3> QED BY <3>1, <3>2, <3>4, <3>6 DEF CopiesEdited
  <2> QED BY <2>1, <2>2, <2>3, <2>4, TableSteps
<1>4. ASSUME UNCHANGED <<now, table>>, NEW d \in Devices,
             HeldBorn(d, i) \/ HeldEdited(d, i),
             \A e \in Devices \ {d} : Held(e, i)' = Held(e, i)
      PROVE  CopiesBorn(i) \/ CopiesEdited(i)
  <2>0. RowOf(table'[i]) \in C \cup {NoRow}
    BY <1>0, <1>4 DEF RowOf
  <2>1. ASSUME NEW r, Held(d, i)' \subseteq Held(d, i) \cup {r}
        PROVE  Copies(i)' \subseteq C \cup {r}
    <3>1. \A e \in Devices : Held(e, i)' \subseteq C \cup {r}
      BY <1>0, <1>4, <2>1
    <3> HIDE DEF C
    <3> QED BY <1>1, <2>0, <3>1
  <2>2. CASE HeldBorn(d, i)
    BY <1>2, <2>1, <2>2 DEF HeldBorn, CopiesBorn
  <2>3. CASE HeldEdited(d, i)
    <3>1. PICK r \in Edits(d, i) : mem[d][i] # NoRow /\ Held(d, i)' \subseteq Held(d, i) \cup {r}
      BY <2>3 DEF HeldEdited
    <3>2. mem[d][i].row \in C
      BY <1>0, <3>1, HeldType
    <3> QED BY <1>4, <2>1, <3>1, <3>2, EditFacts DEF CopiesEdited
  <2> QED BY <1>4, <2>2, <2>3
<1> QED BY <1>3, <1>4, CopiesStep

-----------------------------------------------------------------------------
(* No request carries a v1 id.                                             *)
LEMMA RenamedAway ==
  ASSUME NEW list, NEW S, NEW g \in Renamings(S), NEW t, NEW i \in LegacyIds,
         i \in Unsynced(list) => i \in S
  PROVE  Outgoing(Rename(list, g, t))[i] = NoRow
<1>1. i \in Ids /\ i \notin DOMAIN g /\ \A k \in S : \E j \in DOMAIN g : g[j] = k
  BY DEF LegacyIds, Renamings, Bijection, Injection, Surjection, Fresh
<1>2. CASE i \in S
  BY <1>1, <1>2 DEF Rename, Outgoing, Unsynced
<1>3. CASE i \notin S
  <2>1. Rename(list, g, t)[i] \in {list[i], NoRow}
    BY <1>1 DEF Rename
  <2>2. list[i] = NoRow \/ list[i].status = "synced"
    BY <1>1, <1>3 DEF Unsynced
  <2> QED BY <1>1, <2>1, <2>2 DEF Outgoing, Unsynced
<1> QED BY <1>2, <1>3

LEMMA LegacyUnsent ==
  ASSUME TypeOK, [Next]_vars, NEW d \in Devices, NEW i \in LegacyIds,
         SentRow(req[d], i) = NoRow
  PROVE  SentRow(req'[d], i) = NoRow
<1>1. CASE req'[d] \in {req[d], NoReq}
  BY <1>1 DEF SentRow
<1>2. ASSUME req'[d].rows[i] = NoRow PROVE SentRow(req'[d], i) = NoRow
  BY <1>2 DEF SentRow
<1>3. CASE SyncBegin(d)
  <2> DEFINE U == Unsynced(mem[d]) \cap LegacyIds
  <2>1. PICK g \in Renamings(U) :
          req' = [req EXCEPT ![d] =
            [user |-> cred[d], since |-> cursor[d], at |-> DevNow(d),
             rows |-> Outgoing(Rename(mem[d], g, DevNow(d))), retried |-> FALSE]]
    BY <1>3 DEF SyncBegin
  <2>2. req'[d].rows = Outgoing(Rename(mem[d], g, DevNow(d)))
    BY <2>1 DEF TypeOK
  <2>3. i \in Unsynced(mem[d]) => i \in U
    OBVIOUS
  <2> HIDE DEF U
  <2> QED BY <1>2, <2>2, <2>3, RenamedAway
<1>4. CASE ReceiveRetry(d)
  <2>1. PICK g \in Renamings(Unsynced(mem[d])) :
          \/ Finish(d)
          \/ req' = [req EXCEPT ![d].user = cred[d],
                                ![d].rows = Outgoing(Rename(mem[d], g, req[d].at)),
                                ![d].retried = TRUE]
    BY <1>4 DEF ReceiveRetry
  <2>2. CASE Finish(d)
    BY <1>1, <2>2 DEF Finish, TypeOK
  <2>3. CASE req' = [req EXCEPT ![d].user = cred[d],
                                ![d].rows = Outgoing(Rename(mem[d], g, req[d].at)),
                                ![d].retried = TRUE]
    <3>1. req[d] \in Request
      BY <1>4, NoReqAssumption DEF ReceiveRetry, TypeOK
    <3>2. req'[d] = [req[d] EXCEPT !.user = cred[d],
                                   !.rows = Outgoing(Rename(mem[d], g, req[d].at)),
                                   !.retried = TRUE]
      BY <2>3 DEF TypeOK
    <3>3. req'[d].rows = Outgoing(Rename(mem[d], g, req[d].at))
      BY <3>1, <3>2 DEF Request
    <3> QED BY <1>2, <3>3, RenamedAway
  <2> QED BY <2>1, <2>2, <2>3
<1>5. ASSUME Daemon(d), ~SyncBegin(d), ~ReceiveRetry(d) PROVE req'[d] \in {req[d], NoReq}
  BY <1>5 DEF Daemon, Add, Delete, CheckTimers, LocalChange, ReceiveOk, ReceiveFail,
              Timeout, Crash, Restart, Finish, TypeOK
<1>6. CASE Api(d) \/ User(d)
  BY <1>1, <1>6 DEF Api, ServerSync, ServerError, ServerOverlap, ServerLate, Answered, User, Login, Logout
<1>7. ASSUME NEW e \in Devices, e # d, Daemon(e) \/ Api(e) \/ User(e)
      PROVE  req'[d] = req[d]
  BY <1>7, OthersKept DEF DeviceKept
<1>8. CASE (\E u \in WebUsers : Web(u)) \/ Tick \/ UNCHANGED vars
  BY <1>1, <1>8 DEF Web, WebCreate, WebDelete, Tick, vars
<1> QED BY <1>1, <1>3, <1>4, <1>5, <1>6, <1>7, <1>8 DEF Next

LEMMA IdsInit == Init => IdsInUse
<1> SUFFICES ASSUME Init PROVE IdsInUse
  OBVIOUS
<1>1. /\ mem = LegacyRows /\ disk = LegacyRows /\ table = Nothing /\ used = {}
      /\ \A d \in Devices : req[d] = NoReq /\ late[d] = NoReq /\ resp[d] = NoAnswer
  BY DEF Init
<1>2. \A i \in Ids, d \in Devices : RowOf(LegacyRows[d][i]) = NoRow \/ i \in LegacyIds
  BY DEF RowOf, LegacyIds
<1>3. ASSUME NEW i \in Ids, Copies(i) # {} PROVE i \in LegacyIds
  <2>1. RowOf(table[i]) = NoRow
    BY <1>1 DEF Nothing, RowOf
  <2>2. PICK d \in Devices : Held(d, i) # {}
    BY <1>3, <2>1 DEF Copies
  <2>3. Held(d, i) \subseteq {RowOf(LegacyRows[d][i])} \ {NoRow}
    BY <1>1, HeldPlaces DEF Held
  <2> QED BY <1>2, <2>2, <2>3
<1>4. \A i \in LegacyIds : i \in Ids
  BY DEF LegacyIds
<1> QED BY <1>1, <1>3, <1>4, HeldPlaces DEF IdsInUse, Nothing

LEMMA IdsNext ==
  ASSUME TypeOK, IdsInUse, [Next]_vars
  PROVE  IdsInUse'
<1>0. TypeOK' /\ LegacyIds' = LegacyIds /\ LegacyIds \subseteq Ids
  BY TypeNext DEF LegacyIds
<1>1. used' \cap LegacyIds = {}
  BY UsedGrows DEF IdsInUse, Fresh
<1>2. ASSUME NEW i \in Ids, Copies(i)' # {} PROVE i \in used' \cup LegacyIds
  BY <1>2, CopyStep, UsedGrows DEF IdsInUse, CopiesKept, CopiesBorn, CopiesEdited
<1>3. ASSUME NEW i \in LegacyIds, NEW d \in Devices
      PROVE  /\ SentRow(req'[d], i) = NoRow /\ SentRow(late'[d], i) = NoRow
             /\ resp'[d].conflicts[i] = NoRow /\ resp'[d].changes[i] = NoRow
  <2>0. /\ SentRow(req[d], i) = NoRow /\ SentRow(late[d], i) = NoRow /\ table[i] = NoRow
        /\ resp[d].conflicts[i] = NoRow /\ resp[d].changes[i] = NoRow
    BY DEF IdsInUse
  <2>1. SentRow(req'[d], i) = NoRow
    BY <2>0, LegacyUnsent
  <2>2. SentRow(late'[d], i) = NoRow
    <3>1. late'[d] \in {late[d], NoReq, req[d]}
      BY DeviceSteps DEF DeviceStep, LateStep
    <3> QED BY <2>0, <3>1 DEF SentRow
  <2>3. ASSUME phase[d] = "sent"
        PROVE  Answer(req[d]).conflicts[i] = NoRow /\ Answer(req[d]).changes[i] = NoRow
    <3>1. req[d].rows[i] = NoRow
      BY <2>0, <2>3 DEF TypeOK, SentRow
    <3>2. Written(req[d])[i] = NoRow
      BY <1>0, <2>0, <3>1 DEF Written, Writes
    <3> QED BY <1>0, <3>1, <3>2 DEF Answer, Owned
  <2>4. \/ resp'[d] \in {resp[d], NoAnswer}
        \/ \E s \in {400, 409, 500} : resp'[d] = Failed(s)
        \/ phase[d] = "sent" /\ resp'[d] = Answer(req[d])
    BY DeviceSteps DEF DeviceStep, RoundStep, RoundKept, RoundOver, RoundSent, RoundAnswered
  <2>5. \A s : Failed(s).conflicts[i] = NoRow /\ Failed(s).changes[i] = NoRow
    BY <1>0 DEF Failed, Nothing
  <2> QED BY <1>0, <2>0, <2>1, <2>2, <2>3, <2>4, <2>5, HeldPlaces
<1>4. ASSUME NEW i \in LegacyIds PROVE table'[i] = NoRow
  <2>0. table[i] = NoRow /\ i \in Ids
    BY <1>0 DEF IdsInUse
  <2>1. CASE RowServed(i)
    <3>1. PICK q \in Request, d \in Devices :
            q \in {req[d], late[d]} /\ table'[i] = After(q)[i]
      BY <2>1 DEF RowServed
    <3>2. q # NoReq /\ TableOK
      BY NoReqAssumption DEF TypeOK, TableOK
    <3>3. q.rows[i] = NoRow
      BY <3>1, <3>2 DEF IdsInUse, SentRow
    <3> QED BY <2>0, <3>1, <3>2, <3>3, AfterFacts, NoRowAssumption
  <2>2. CASE RowCreated(i)
    BY <2>2 DEF RowCreated, Fresh
  <2>3. CASE RowDeleted(i)
    BY <2>0, <2>3, NoStoredAssumption DEF RowDeleted
  <2> QED BY <2>0, <2>1, <2>2, <2>3, TableSteps DEF RowKept
<1> QED BY <1>0, <1>1, <1>2, <1>3, <1>4 DEF IdsInUse, SentRow

-----------------------------------------------------------------------------
(***************************************************************************)
(* What the copies of a reminder agree on.  A one-off is edited only to    *)
(* delete it, so its live copies are all the version it was created as.    *)
(* While the API has no row for an id, one device, or its round, has all   *)
(* the copies, and its clock, which does not go back, orders them; from    *)
(* then on a live copy is no newer than a deleted row of the API.          *)
(***************************************************************************)
NewIds == Ids \ LegacyIds

OneMessage ==
  \A i \in NewIds : \A r, s \in Copies(i) : r.message = s.message

Live(r) == Period[r.message] = 0 /\ ~r.deleted

LiveAlike ==
  \A i \in NewIds : \A r, s \in Copies(i) :
    Live(r) /\ Live(s) => r.updated_at = s.updated_at

TableBuries ==
  \A i \in NewIds : \A r \in Copies(i) :
    table[i] # NoRow /\ table[i].row.deleted /\ Live(r)
      => r.updated_at <= table[i].row.updated_at

OnlyHolder(d, i) == \A e \in Devices : Held(e, i) # {} => e = d

InOrder(d, i) ==
  /\ \A r \in Held(d, i) : r.updated_at <= DevNow(d)
  /\ \A r, s \in Held(d, i) : Live(r) /\ s.deleted => r.updated_at <= s.updated_at

OneHolder ==
  \A i \in NewIds, d \in Devices :
    table[i] = NoRow /\ Held(d, i) # {} => OnlyHolder(d, i) /\ InOrder(d, i)

AskedPast == \A d \in Devices : req[d] # NoReq => req[d].at <= DevNow(d)

CopiesInv ==
  /\ SyncInv
  /\ IdsInUse
  /\ OneMessage
  /\ LiveAlike
  /\ TableBuries
  /\ OneHolder
  /\ AskedPast

LEMMA NewIdsKept == NewIds' = NewIds /\ NewIds \subseteq Ids
BY DEF NewIds, LegacyIds

LEMMA CopiesPast ==
  ASSUME TypeOK, StampsPast, NEW i \in Ids, NEW r \in Copies(i)
  PROVE  r.updated_at \in Int /\ now \in Int /\ r.updated_at <= now
<1>1. now \in Int /\ r \in Row
  BY CopiesType DEF TypeOK
<1>2. ASSUME r = RowOf(table[i]) PROVE r.updated_at <= now
  BY <1>1, <1>2, NoRowAssumption DEF RowOf, StampsPast, Past
<1>3. ASSUME NEW d \in Devices, r \in Held(d, i) PROVE r.updated_at <= now
  <2>1. CASE r = RowOf(mem[d][i]) \/ r = RowOf(disk[d][i])
    BY <1>1, <2>1, NoRowAssumption DEF RowOf, StampsPast, Past
  <2>2. CASE r = SentRow(req[d], i) \/ r = SentRow(late[d], i)
    BY <1>1, <2>2, NoRowAssumption DEF SentRow, StampsPast, RequestPast, Past
  <2>3. CASE r = resp[d].conflicts[i] \/ r = resp[d].changes[i]
    BY <1>1, <2>3, NoRowAssumption DEF StampsPast, Past
  <2> QED BY <1>3, <2>1, <2>2, <2>3 DEF Held
<1> QED BY <1>1, <1>2, <1>3 DEF Copies, Row

LEMMA DevNowGrows ==
  ASSUME TypeOK, [Next]_vars, NEW d \in Devices
  PROVE  DevNow(d) \in Int /\ DevNow(d)' \in Int /\ DevNow(d) <= DevNow(d)'
BY ClockGrows, ClockAssumption DEF DevNow

(* Steps on one id leave its copies of one message, and make no live one   *)
(* but the first.                                                          *)
LEMMA AgreeNext ==
  ASSUME TypeOK, IdsInUse, OneMessage, LiveAlike, [Next]_vars
  PROVE  OneMessage' /\ LiveAlike'
<1> SUFFICES ASSUME NEW i \in NewIds, NEW r \in Copies(i)', NEW s \in Copies(i)'
             PROVE  /\ r.message = s.message
                    /\ Live(r) /\ Live(s) => r.updated_at = s.updated_at
  BY NewIdsKept DEF OneMessage, LiveAlike, Live
<1>0. i \in Ids
  BY NewIdsKept
<1>1. CASE CopiesKept(i)
  BY <1>1 DEF CopiesKept, OneMessage, LiveAlike
<1>2. CASE CopiesBorn(i)
  BY <1>2 DEF CopiesBorn
<1>3. CASE CopiesEdited(i)
  <2>1. PICK x \in Copies(i), y \in Row :
          /\ Copies(i)' \subseteq Copies(i) \cup {y}
          /\ y.message = x.message
          /\ Period[y.message] = 0 => y.deleted
    BY <1>3 DEF CopiesEdited
  <2>2. ~Live(y)
    BY <2>1 DEF Live
  <2> QED BY <2>1, <2>2 DEF OneMessage, LiveAlike
<1> QED BY <1>0, <1>1, <1>2, <1>3, CopyStep

LEMMA AskedNext ==
  ASSUME TypeOK, AskedPast, [Next]_vars
  PROVE  AskedPast'
<1> SUFFICES ASSUME NEW d \in Devices, req'[d] # NoReq
             PROVE  req'[d].at <= DevNow(d)'
  BY DEF AskedPast, DevNow
<1>0. /\ DevNow(d) \in Int /\ DevNow(d)' \in Int /\ DevNow(d) <= DevNow(d)'
      /\ RoundStep(d)
  BY DevNowGrows, DeviceSteps DEF DeviceStep
<1>1. CASE req[d] # NoReq /\ req'[d].at = req[d].at
  <2>1. req[d].at \in Int /\ req[d].at <= DevNow(d)
    BY <1>1 DEF TypeOK, Request, AskedPast
  <2> QED BY <1>0, <1>1, <2>1
<1>2. CASE req'[d].at = DevNow(d)
  BY <1>0, <1>2
<1> QED BY <1>0, <1>1, <1>2 DEF RoundStep, RoundKept, RoundOver, RoundSent, RoundAnswered

LEMMA HolderNext ==
  ASSUME TypeOK, IdsInUse, OneHolder, AskedPast, [Next]_vars
  PROVE  OneHolder'
<1> SUFFICES ASSUME NEW i \in NewIds, NEW d \in Devices, table'[i] = NoRow,
                    Held(d, i)' # {}
             PROVE  OnlyHolder(d, i)' /\ InOrder(d, i)'
  BY NewIdsKept DEF OneHolder, OnlyHolder, InOrder, Live
<1>0. i \in Ids /\ table[i] = NoRow
  BY NewIdsKept, AccountsStep
<1>c. DevNow(d) \in Int /\ DevNow(d)' \in Int /\ DevNow(d) <= DevNow(d)'
  BY DevNowGrows
<1>t. /\ \A e \in Devices : Held(e, i) \subseteq Row /\ Held(e, i) \subseteq Copies(i)
      /\ \A r \in Row : r.updated_at \in Int
  BY <1>0, HeldType, CopiesType DEF Row
<1>1. CASE \A e \in Devices : HeldKept(e, i)
  <2>1. \A e \in Devices : Held(e, i)' \subseteq Held(e, i)
    BY <1>0, <1>1 DEF HeldKept, Seen
  <2>2. Held(d, i) # {} /\ OnlyHolder(d, i) /\ InOrder(d, i)
    BY <1>0, <2>1 DEF OneHolder
  <2>3. OnlyHolder(d, i)'
    BY <2>1, <2>2 DEF OnlyHolder
  <2>4. ASSUME NEW r \in Held(d, i)' PROVE r.updated_at <= DevNow(d)'
    <3>1. r.updated_at \in Int /\ r.updated_at <= DevNow(d)
      BY <1>t, <2>1, <2>2 DEF InOrder
    <3> QED BY <1>c, <3>1
  <2>5. \A r, s \in Held(d, i)' : Live(r) /\ s.deleted => r.updated_at <= s.updated_at
    BY <2>1, <2>2 DEF InOrder
  <2> QED BY <2>3, <2>4, <2>5 DEF InOrder, Live
<1>2. ASSUME NEW e \in Devices, UNCHANGED <<now, table>>,
             HeldBorn(e, i) \/ HeldEdited(e, i),
             \A x \in Devices \ {e} : Held(x, i)' = Held(x, i)
      PROVE  OnlyHolder(d, i)' /\ InOrder(d, i)'
  <2>0. DevNow(d)' = DevNow(d)
    BY <1>2 DEF DevNow
  <2>1. CASE HeldBorn(e, i)
    <3>1. \A x \in Devices : Held(x, i) = {}
      BY <1>0, <1>t, <2>1 DEF HeldBorn, IdsInUse, Fresh
    <3>2. d = e /\ OnlyHolder(d, i)'
      BY <1>2, <3>1 DEF OnlyHolder
    <3>3. PICK r \in Row : /\ Held(d, i)' \subseteq {r}
                           /\ \/ r.updated_at = DevNow(d)
                              \/ req[d] # NoReq /\ r.updated_at = req[d].at
      BY <2>1, <3>1, <3>2 DEF HeldBorn
    <3>4. r.updated_at <= DevNow(d)
      BY <1>c, <1>t, <3>3 DEF AskedPast
    <3>5. \A x, y \in Held(d, i)' : Live(x) /\ y.deleted => x.updated_at <= y.updated_at
      BY <3>3 DEF Live
    <3> QED BY <2>0, <3>2, <3>3, <3>4, <3>5 DEF InOrder, Live
  <2>2. CASE HeldEdited(e, i)
    <3>1. Held(e, i) # {}
      BY <1>0, <2>2, HeldType DEF HeldEdited
    <3>2. OnlyHolder(e, i) /\ InOrder(e, i)
      BY <1>0, <3>1 DEF OneHolder
    <3>3. d = e /\ OnlyHolder(d, i)'
      BY <1>2, <3>2 DEF OnlyHolder
    <3>4. PICK y \in Edits(d, i) : mem[d][i] # NoRow /\ Held(d, i)' \subseteq Held(d, i) \cup {y}
      BY <2>2, <3>3 DEF HeldEdited
    <3>5. y \in Row /\ y.updated_at = DevNow(d) /\ ~Live(y)
      BY <1>0, <3>4, EditFacts DEF Live
    <3>6. \A x \in Held(d, i)' : x.updated_at <= DevNow(d)
      BY <1>c, <3>2, <3>3, <3>4, <3>5 DEF InOrder
    <3>7. ASSUME NEW x \in Held(d, i)', NEW z \in Held(d, i)', Live(x), z.deleted
          PROVE  x.updated_at <= z.updated_at
      <4>1. x \in Held(d, i)
        BY <3>4, <3>5, <3>7
      <4> QED BY <3>2, <3>3, <3>4, <3>5, <3>7, <4>1 DEF InOrder
    <3> QED BY <2>0, <3>3, <3>6, <3>7 DEF InOrder, Live
  <2> QED BY <1>2, <2>1, <2>2
<1> QED BY <1>0, <1>1, <1>2, CopiesStep

(* A row a request puts in the table is a copy its device had.             *)
LEMMA ServedRow ==
  ASSUME TypeOK, NEW i \in Ids, RowServed(i), table'[i] # table[i]
  PROVE  \E d \in Devices : \E s \in Held(d, i) :
           /\ s \in Row /\ table'[i].row = s
           /\ table[i] # NoRow => s.updated_at > table[i].row.updated_at
           /\ \E q \in {req[d], late[d]} : q # NoReq /\ table'[i].owner = q.user
<1>1. PICK q \in Request, d \in Devices :
        q \in {req[d], late[d]} /\ table'[i] = After(q)[i]
  BY DEF RowServed
<1>2. TableOK /\ After(q)[i] # table[i]
  BY <1>1 DEF TypeOK, TableOK
<1>3. /\ q.rows[i] \in Row
      /\ table'[i] = [owner |-> q.user, row |-> q.rows[i]]
      /\ table[i] # NoRow => q.rows[i].updated_at > table[i].row.updated_at
  BY <1>1, <1>2, AfterFacts
<1>4. q.rows[i] \in Held(d, i)
  BY <1>1, <1>3, HeldType, NoReqAssumption, NoRowAssumption
<1>5. q # NoReq /\ table'[i].owner = q.user
  BY <1>3, NoReqAssumption
<1> QED BY <1>1, <1>3, <1>4, <1>5

LEMMA BuriesNext ==
  ASSUME CopiesInv, [Next]_vars
  PROVE  TableBuries'
<1>a. /\ TypeOK /\ StampsPast /\ IdsInUse /\ OneMessage /\ LiveAlike
      /\ TableBuries /\ OneHolder
  BY DEF CopiesInv, SyncInv
<1> USE <1>a
<1> SUFFICES ASSUME NEW i \in NewIds, NEW r \in Copies(i)', table'[i] # NoRow,
                    table'[i].row.deleted, Live(r)
             PROVE  r.updated_at <= table'[i].row.updated_at
  BY NewIdsKept DEF TableBuries, Live
<1>0. i \in Ids /\ TableOK /\ TypeOK'
  BY NewIdsKept, TypeNext DEF TypeOK, TableOK
<1>t. /\ Copies(i) \subseteq Row /\ \A x \in Row : x.updated_at \in Int
      /\ table'[i].row \in Copies(i)'
      /\ table[i] # NoRow => table[i].row \in Copies(i)
  <2>1. table'[i].row \in Row
    BY <1>0 DEF TypeOK, Maybe, Stored
  <2>2. RowOf(table'[i]) = table'[i].row /\ table'[i].row # NoRow
    BY <2>1, NoRowAssumption DEF RowOf
  <2> QED BY <1>0, <2>2, CopiesType DEF Copies, RowOf, Row
<1>1. CASE CopiesBorn(i)
  BY <1>1, <1>t DEF CopiesBorn, Live
<1>2. CASE CopiesKept(i) \/ CopiesEdited(i)
  <2>0. r \in Copies(i)
    <3>1. ASSUME CopiesEdited(i) PROVE r \in Copies(i)
      <4>1. PICK y \in Row : /\ Copies(i)' \subseteq Copies(i) \cup {y}
                             /\ Period[y.message] = 0 => y.deleted
        BY <3>1 DEF CopiesEdited
      <4> QED BY <4>1 DEF Live
    <3> QED BY <1>2, <3>1 DEF CopiesKept
  <2>1. CASE table'[i] = table[i]
    BY <2>0, <2>1 DEF TableBuries
  <2>2. CASE RowServed(i) /\ table'[i] # table[i]
    <3>1. PICK d \in Devices : \E s \in Held(d, i) :
            /\ s \in Row /\ table'[i].row = s
            /\ table[i] # NoRow => s.updated_at > table[i].row.updated_at
      BY <1>0, <2>2, ServedRow
    <3>3. PICK s \in Held(d, i) :
            /\ s \in Row /\ table'[i].row = s
            /\ table[i] # NoRow => s.updated_at > table[i].row.updated_at
      BY <3>1
    <3>2. s \in Row /\ table'[i].row = s
      BY <3>3
    <3>4. CASE table[i] = NoRow
      <4>1. OnlyHolder(d, i) /\ InOrder(d, i)
        BY <3>3, <3>4 DEF OneHolder
      <4>2. r \in Held(d, i)
        BY <2>0, <3>4, <4>1 DEF OnlyHolder, Copies, RowOf
      <4> QED BY <3>2, <3>3, <4>1, <4>2 DEF InOrder
    <3>5. CASE table[i] # NoRow
      <4> DEFINE t == table[i].row
      <4>1. t \in Copies(i) /\ r.message = t.message
        BY <1>t, <2>0, <3>5 DEF OneMessage
      <4>2. t.deleted => r.updated_at <= t.updated_at
        BY <2>0, <3>5 DEF TableBuries
      <4>3. ~t.deleted => r.updated_at = t.updated_at
        BY <2>0, <4>1 DEF LiveAlike, Live
      <4>4. /\ r.updated_at \in Int /\ t.updated_at \in Int /\ s.updated_at \in Int
            /\ s.updated_at > t.updated_at
        BY <1>t, <2>0, <3>2, <3>3, <3>5, <4>1
      <4> QED BY <3>2, <4>2, <4>3, <4>4
    <3> QED BY <3>4, <3>5
  <2>3. CASE RowCreated(i)
    BY <2>3 DEF RowCreated, NewRow
  <2>4. CASE RowDeleted(i)
    <3>1. now \in Int /\ table[i] \in Stored /\ table[i].row \in Row
      BY <2>4 DEF RowDeleted, TypeOK, Stored
    <3>2. table'[i].row = Tombstone(table[i].row, now)
      BY <2>4, <3>1 DEF RowDeleted, Stored
    <3>3. table'[i].row.updated_at = now
      BY <3>1, <3>2 DEF Tombstone, Row
    <3> QED BY <1>0, <2>0, <3>3, CopiesPast
  <2> QED BY <1>0, <2>1, <2>2, <2>3, <2>4, TableSteps DEF RowKept
<1> QED BY <1>0, <1>1, <1>2, CopyStep

LEMMA CopiesInvInit == NoClockAhead /\ Init => CopiesInv
<1> SUFFICES ASSUME NoClockAhead, Init PROVE CopiesInv
  OBVIOUS
<1>1. SyncInv /\ IdsInUse
  BY SyncInvInit, IdsInit
<1>2. \A i \in NewIds : Copies(i) = {}
  BY <1>1 DEF IdsInUse, NewIds, Init
<1>3. OneMessage /\ LiveAlike /\ TableBuries
  BY <1>2 DEF OneMessage, LiveAlike, TableBuries
<1>4. OneHolder /\ AskedPast
  <2>1. \A i \in NewIds, d \in Devices : Held(d, i) = {}
    BY <1>2 DEF Copies, Held
  <2> QED BY <2>1 DEF OneHolder, AskedPast, Init
<1> QED BY <1>1, <1>3, <1>4 DEF CopiesInv

LEMMA CopiesInvNext == NoClockAhead /\ CopiesInv /\ [Next]_vars => CopiesInv'
<1> SUFFICES ASSUME NoClockAhead, CopiesInv, [Next]_vars PROVE CopiesInv'
  OBVIOUS
<1>0. SyncInv /\ TypeOK
  BY DEF CopiesInv, SyncInv
<1>1. SyncInv'
  BY <1>0, SyncInvNext
<1>2. IdsInUse'
  BY <1>0, IdsNext DEF CopiesInv
<1>3. OneMessage' /\ LiveAlike'
  BY <1>0, AgreeNext DEF CopiesInv
<1>4. TableBuries'
  BY BuriesNext
<1>5. OneHolder'
  BY <1>0, HolderNext DEF CopiesInv
<1>6. AskedPast'
  BY <1>0, AskedNext DEF CopiesInv
<1> QED BY <1>1, <1>2, <1>3, <1>4, <1>5, <1>6 DEF CopiesInv

LEMMA TableTombstones ==
  ASSUME CopiesInv, [Next]_vars, NEW i \in Ids, table[i] # NoRow,
         table[i].row.deleted, Period[table[i].row.message] = 0
  PROVE  table'[i].row.deleted
<1>a. TypeOK /\ IdsInUse /\ OneMessage /\ TableBuries
  BY DEF CopiesInv, SyncInv
<1> USE <1>a
<1>0. i \in NewIds /\ TableOK /\ table[i] \in Stored /\ table[i].row \in Row
      /\ table[i].row \in Copies(i)
  <2>1. i \notin LegacyIds
    BY DEF IdsInUse
  <2> QED BY <2>1, CopiesType DEF NewIds, TypeOK, TableOK, Maybe, Stored
<1>1. CASE table'[i] = table[i]
  BY <1>1
<1>2. CASE RowServed(i) /\ table'[i] # table[i]
  <2>1. PICK d \in Devices : \E s \in Held(d, i) :
          s \in Row /\ table'[i].row = s /\ s.updated_at > table[i].row.updated_at
    BY <1>2, ServedRow
  <2>2. PICK s \in Held(d, i) :
          s \in Row /\ table'[i].row = s /\ s.updated_at > table[i].row.updated_at
    BY <2>1
  <2>3. s \in Copies(i)
    BY CopiesType
  <2>4. s.message = table[i].row.message
    BY <1>0, <2>3 DEF OneMessage
  <2>5. ~s.deleted => s.updated_at <= table[i].row.updated_at
    BY <1>0, <2>3, <2>4 DEF TableBuries, Live
  <2>6. s.updated_at \in Int /\ table[i].row.updated_at \in Int
    BY <1>0, <2>2 DEF Row
  <2>7. s.deleted
    BY <2>2, <2>5, <2>6
  <2> QED BY <2>2, <2>7
<1>3. CASE RowCreated(i)
  BY <1>3 DEF RowCreated
<1>4. CASE RowDeleted(i)
  BY <1>0, <1>4 DEF RowDeleted, Tombstone, Stored, Row
<1> QED BY <1>1, <1>2, <1>3, <1>4, TableSteps DEF RowKept

(* With no device's clock ahead of the API's, a one-off reminder the API   *)
(* has as deleted stays deleted: no retry of the round that created it, no *)
(* late copy of a request, no older edit and no row renamed after a        *)
(* refusal brings it back.  Recurring ones can return: see TombstonesStick.*)
THEOREM TableKeepsTombstones ==
  ASSUME NoClockAhead
  PROVE  Spec => OneOffTombstonesStick
<1>1. Init => CopiesInv
  BY CopiesInvInit
<1>2. CopiesInv /\ [Next]_vars => CopiesInv'
  BY CopiesInvNext
<1>3. CopiesInv /\ [Next]_vars =>
        [\A i \in Ids :
           table[i] # NoRow /\ table[i].row.deleted /\ Period[table[i].row.message] = 0
           => table'[i].row.deleted]_vars
  BY TableTombstones
<1> QED BY <1>1, <1>2, <1>3, PTL DEF Spec, OneOffTombstonesStick

-----------------------------------------------------------------------------
(***************************************************************************)
(* A daemon's own list.  What it merges is newer than what it has: the API *)
(* answers with its row as it was after the request, which is no older     *)
(* than any row of the list that was sent or counts as synced.             *)
(***************************************************************************)
AnswerIsFresh ==
  \A d \in Devices, i \in Ids : Merging(d) =>
    /\ resp[d].conflicts[i] # NoRow =>
         /\ req[d].rows[i] # NoRow
         /\ resp[d].conflicts[i].updated_at > req[d].rows[i].updated_at
         /\ resp[d].changes[i] # NoRow => resp[d].changes[i] = resp[d].conflicts[i]
    /\ resp[d].changes[i] # NoRow /\ mem[d][i] # NoRow =>
         resp[d].changes[i].updated_at >= mem[d][i].row.updated_at

DownIsEmpty == \A d \in Devices : phase[d] = "down" => mem[d] = Nothing

(* Every clock agrees with the API's to the second.                        *)
InStep == \A d \in Devices : Skew[d] = 0

BuriedEverywhere ==
  \A i \in NewIds : \A r, s \in Copies(i) :
    Live(r) /\ s.deleted => r.updated_at <= s.updated_at

ListInv ==
  /\ SyncInv
  /\ IdsInUse
  /\ OneMessage
  /\ LiveAlike
  /\ AnswerIsFresh
  /\ DownIsEmpty
  /\ BuriedEverywhere

(* What the API calls a conflict it holds a newer row for, if the request  *)
(* is not stamped in its future.                                           *)
LEMMA AnswerConflict ==
  ASSUME TableOK, NEW q \in Request, RequestPast(q), NEW i \in Ids,
         Answer(q).conflicts[i] # NoRow
  PROVE  /\ q.rows[i] # NoRow
         /\ Answer(q).conflicts[i].updated_at > q.rows[i].updated_at
         /\ Answer(q).changes[i] # NoRow =>
              Answer(q).changes[i] = Answer(q).conflicts[i]
<1> DEFINE server == Owned(table, q.user, i)
           client == q.rows[i]
<1>1. /\ client # NoRow /\ Outcome(q, i) = "conflict"
      /\ Answer(q).conflicts[i] = ConflictRow(client, server)
  BY DEF Answer
<1>2. /\ client \in Row /\ client.updated_at \in Int /\ client.updated_at <= now
      /\ now \in Int /\ ClockSkewSec \in Nat
      /\ server # NoRow => server.updated_at \in Int
  <2>1. server \in Maybe(Row)
    BY OwnedType DEF TableOK
  <2> QED BY <1>1, <2>1, SkewAssumption DEF TableOK, Request, Rows, Maybe, Row, RequestPast, Past
<1>3. server # NoRow /\ client.updated_at < server.updated_at
  <2>1. MergeOne(client, server, now) = "conflict"
    BY <1>1 DEF Outcome
  <2>2. ~(client.updated_at > now + ClockSkewSec)
    BY <1>2
  <2> HIDE DEF client, server
  <2>3. server # NoRow
    BY <1>2, <2>1, <2>2 DEF MergeOne
  <2>4. client.updated_at # server.updated_at
    BY <1>2, <2>1, <2>2, <2>3 DEF MergeOne
  <2>5. client.updated_at < server.updated_at
    BY <1>2, <2>1, <2>2, <2>3, <2>4 DEF MergeOne
  <2> QED BY <2>3, <2>5
<1>4. Answer(q).conflicts[i] = server
  BY <1>1, <1>3 DEF ConflictRow
<1>5. Answer(q).changes[i] # NoRow => Answer(q).changes[i] = server
  <2>1. Written(q)[i] = table[i]
    BY <1>1 DEF Written, Writes
  <2> QED BY <2>1 DEF Answer, Owned
<1> QED BY <1>1, <1>2, <1>3, <1>4, <1>5

LEMMA FreshNext ==
  ASSUME SyncInv, AnswerIsFresh, [Next]_vars
  PROVE  AnswerIsFresh'
<1>a. /\ TypeOK /\ StampsPast /\ RequestIsPending /\ AckedOnServer
      /\ TypeOK' /\ TableOK
  BY TypeNext DEF SyncInv, TypeOK, TableOK
<1> SUFFICES ASSUME NEW d \in Devices, NEW i \in Ids, Merging(d)'
             PROVE  /\ resp'[d].conflicts[i] # NoRow =>
                         /\ req'[d].rows[i] # NoRow
                         /\ resp'[d].conflicts[i].updated_at > req'[d].rows[i].updated_at
                         /\ resp'[d].changes[i] # NoRow =>
                              resp'[d].changes[i] = resp'[d].conflicts[i]
                    /\ resp'[d].changes[i] # NoRow /\ mem'[d][i] # NoRow =>
                         resp'[d].changes[i].updated_at >= mem'[d][i].row.updated_at
  BY DEF AnswerIsFresh
<1>0. RoundStep(d)
  BY <1>a, DeviceSteps DEF DeviceStep
<1>1. CASE RoundKept(d)
  <2>1. Merging(d) /\ resp'[d] = resp[d] /\ req'[d] = req[d] /\ mem'[d] = mem[d]
    BY <1>1 DEF RoundKept, Merging
  <2> QED BY <2>1 DEF AnswerIsFresh
<1>2. CASE RoundAnswered(d)
  <2> DEFINE q == req[d]
             a == Answer(q)
  <2>1. /\ q \in Request /\ req'[d] = q /\ mem'[d] = mem[d]
        /\ ~Taken(q) /\ resp'[d] = a /\ table' = Written(q)
        /\ q.rows = Outgoing(mem[d]) /\ RequestPast(q)
    <3>1. /\ phase[d] = "sent" /\ req'[d] = q /\ mem'[d] = mem[d]
          /\ ~Taken(q) /\ resp'[d] = a /\ table' = Written(q)
      BY <1>2, <1>a DEF RoundAnswered, Merging, Failed, TypeOK
    <3>2. q \in Request /\ q # NoReq
      BY <1>a, <3>1, NoReqAssumption DEF TypeOK
    <3> QED BY <1>a, <3>1, <3>2 DEF RequestIsPending, StampsPast
  <2>2. a.conflicts[i] # NoRow =>
          /\ q.rows[i] # NoRow
          /\ a.conflicts[i].updated_at > q.rows[i].updated_at
          /\ a.changes[i] # NoRow => a.changes[i] = a.conflicts[i]
    BY <1>a, <2>1, AnswerConflict
  <2>3. ASSUME a.changes[i] # NoRow, mem[d][i] # NoRow
        PROVE  a.changes[i].updated_at >= mem[d][i].row.updated_at
    <3>0. /\ mem[d][i] \in Local /\ mem[d][i].row.updated_at \in Int
          /\ a.changes[i] \in Row /\ a.changes[i].updated_at \in Int
      <4>1. a \in Response
        BY <1>a, <2>1, AnswerType
      <4> QED BY <1>a, <2>3, <4>1 DEF TypeOK, List, Maybe, Local, Row, Response, Rows
    <3>1. a.changes[i] = table'[i].row /\ table'[i] # NoRow
      BY <2>1, <2>3 DEF Answer, Owned
    <3>2. CASE i \in Unsynced(mem[d])
      <4>1. q.rows[i] = mem[d][i].row /\ q.rows[i] # NoRow
        BY <2>1, <3>0, <3>2, NoRowAssumption DEF Outgoing, Local
      <4>2. CASE a.conflicts[i] = NoRow
        BY <1>a, <2>1, <3>1, <4>1, <4>2, AnswerHolds DEF Holds
      <4>3. CASE a.conflicts[i] # NoRow
        BY <2>2, <2>3, <3>0, <4>1, <4>3
      <4> QED BY <4>2, <4>3
    <3>3. CASE i \notin Unsynced(mem[d])
      <4>1. Holds(i, mem[d][i].row) /\ mem[d][i].row \in Row
        BY <1>a, <2>3, <3>0, <3>3 DEF AckedOnServer, Unsynced, Local
      <4>2. Holds(i, mem[d][i].row)'
        <5> DEFINE r == mem[d][i].row
        <5>1. Holds(i, r) => table'[i] # NoRow /\ table'[i].row.updated_at >= r.updated_at
          BY <1>a, <4>1, HoldsNext DEF Holds
        <5> QED BY <2>1, <4>1, <5>1 DEF Holds
      <4> QED BY <2>1, <3>1, <4>2 DEF Holds
    <3> QED BY <3>2, <3>3
  <2> HIDE DEF q, a
  <2> QED BY <2>1, <2>2, <2>3
<1>3. CASE RoundOver(d) \/ RoundSent(d)
  BY <1>3 DEF RoundOver, RoundSent, Merging
<1> QED BY <1>0, <1>1, <1>2, <1>3 DEF RoundStep

LEMMA DownNext ==
  ASSUME TypeOK, DownIsEmpty, [Next]_vars
  PROVE  DownIsEmpty'
<1> SUFFICES ASSUME NEW d \in Devices, phase'[d] = "down" PROVE mem'[d] = Nothing
  BY DEF DownIsEmpty, Nothing
<1>1. ASSUME DeviceKept(d) PROVE mem'[d] = Nothing
  BY <1>1 DEF DeviceKept, DownIsEmpty
<1>2. CASE Daemon(d)
  BY <1>2 DEF Daemon, Add, Delete, CheckTimers, LocalChange, SyncBegin, ReceiveOk,
     ReceiveRetry, ReceiveFail, Timeout, Crash, Restart, Finish, TypeOK
<1>3. CASE Api(d) \/ User(d)
  BY <1>3 DEF Api, ServerSync, ServerError, ServerOverlap, ServerLate, Answered, User, Login, Logout,
     TypeOK, DownIsEmpty
<1>4. ASSUME NEW e \in Devices, e # d, Daemon(e) \/ Api(e) \/ User(e)
      PROVE  mem'[d] = Nothing
  BY <1>1, <1>4, OthersKept
<1>5. CASE (\E u \in WebUsers : Web(u)) \/ Tick \/ UNCHANGED vars
  BY <1>1, <1>5 DEF Web, WebCreate, WebDelete, Tick, vars, DeviceKept
<1> QED BY <1>2, <1>3, <1>4, <1>5 DEF Next

LEMMA EverywhereNext ==
  ASSUME InStep, TypeOK, StampsPast, IdsInUse, BuriedEverywhere, [Next]_vars
  PROVE  BuriedEverywhere'
<1> SUFFICES ASSUME NEW i \in NewIds, NEW r \in Copies(i)', NEW s \in Copies(i)',
                    Live(r), s.deleted
             PROVE  r.updated_at <= s.updated_at
  BY NewIdsKept DEF BuriedEverywhere, Live
<1>0. i \in Ids
  BY NewIdsKept
<1>1. CASE CopiesKept(i)
  BY <1>1 DEF CopiesKept, BuriedEverywhere
<1>2. CASE CopiesBorn(i)
  BY <1>2 DEF CopiesBorn, Live
<1>3. CASE CopiesEdited(i)
  <2>1. PICK y \in Row :
          /\ Copies(i)' \subseteq Copies(i) \cup {y}
          /\ Period[y.message] = 0 => y.deleted
          /\ y.updated_at = now \/ \E d \in Devices : y.updated_at = DevNow(d)
    BY <1>3 DEF CopiesEdited
  <2>2. y.updated_at = now
    BY <2>1 DEF InStep, DevNow, TypeOK
  <2>3. r \in Copies(i)
    BY <2>1 DEF Live
  <2>4. r.updated_at <= now
    BY <1>0, <2>3, CopiesPast
  <2> QED BY <2>1, <2>2, <2>3, <2>4 DEF BuriedEverywhere
<1> QED BY <1>0, <1>1, <1>2, <1>3, CopyStep

(* What becomes of a row a list keeps.                                     *)
MemEdited(d, i) == \E r \in Edits(d, i) : mem'[d][i] = Pending(r)

LEMMA ListStep ==
  ASSUME TypeOK, IdsInUse, DownIsEmpty, [Next]_vars, NEW d \in Devices, NEW i \in Ids,
         mem[d][i] # NoRow, mem'[d][i] # NoRow
  PROVE  mem'[d][i] = mem[d][i] \/ MemEdited(d, i) \/ MemMerged(d, i)
<1>0. i \notin Fresh
  <2>1. mem[d][i].row \in Copies(i)
    BY HeldType, CopiesType
  <2> QED BY <2>1 DEF IdsInUse, Fresh
<1>r. ASSUME NEW S, NEW g \in Renamings(S), NEW t, mem'[d] = Rename(mem[d], g, t)
      PROVE  mem'[d][i] = mem[d][i]
  <2>1. i \notin DOMAIN g
    BY <1>0 DEF Renamings, Bijection, Injection
  <2> QED BY <1>r, <2>1 DEF Rename
<1>1. ASSUME DeviceKept(d) PROVE mem'[d][i] = mem[d][i]
  BY <1>1 DEF DeviceKept
<1>2. ASSUME NEW k \in Ids, NEW m \in Messages, NEW f \in FireTimes, Add(d, k, m, f)
      PROVE  mem'[d][i] = mem[d][i]
  <2>1. k # i
    BY <1>0, <1>2 DEF Add
  <2> QED BY <1>2, <2>1 DEF Add, LocalChange, TypeOK, List
<1>3. ASSUME NEW k \in Ids, Delete(d, k)
      PROVE  mem'[d][i] = mem[d][i] \/ MemEdited(d, i)
  <2>1. mem'[d] = [mem[d] EXCEPT ![k] = Pending(Tombstone(@.row, DevNow(d)))]
    BY <1>3 DEF Delete, LocalChange, TypeOK
  <2>2. mem'[d][i] = IF i = k THEN Pending(Tombstone(mem[d][i].row, DevNow(d)))
                     ELSE mem[d][i]
    BY <2>1 DEF TypeOK, List
  <2> QED BY <2>2 DEF MemEdited, Edits
<1>4. CASE CheckTimers(d)
  <2>1. mem'[d][i] = IF Due(d, i) THEN Pending(Fire(mem[d][i].row, DevNow(d)))
                     ELSE mem[d][i]
    BY <1>4 DEF CheckTimers, LocalChange, TypeOK
  <2> QED BY <2>1 DEF MemEdited, Edits
<1>5. CASE SyncBegin(d)
  <2> DEFINE U == Unsynced(mem[d]) \cap LegacyIds
  <2>1. PICK g \in Renamings(U) : mem' = [mem EXCEPT ![d] = Rename(mem[d], g, DevNow(d))]
    BY <1>5 DEF SyncBegin
  <2>2. mem'[d] = Rename(mem[d], g, DevNow(d))
    BY <2>1 DEF TypeOK
  <2> HIDE DEF U
  <2> QED BY <1>r, <2>2
<1>6. CASE ReceiveOk(d)
  BY <1>6 DEF ReceiveOk, MemMerged, Merging, TypeOK
<1>7. CASE ReceiveRetry(d)
  <2>1. PICK g \in Renamings(Unsynced(mem[d])) :
          mem' = [mem EXCEPT ![d] = Rename(mem[d], g, req[d].at)]
    BY <1>7 DEF ReceiveRetry
  <2>2. mem'[d] = Rename(mem[d], g, req[d].at)
    BY <2>1 DEF TypeOK
  <2> QED BY <1>r, <2>2
<1>8. CASE ReceiveFail(d) \/ Timeout(d)
  BY <1>8 DEF ReceiveFail, Timeout
<1>9. CASE Crash(d) \/ Restart(d)
  BY <1>9 DEF Crash, Restart, DownIsEmpty, Nothing, TypeOK
<1>10. CASE Api(d) \/ User(d)
  BY <1>10 DEF Api, ServerSync, ServerError, ServerOverlap, ServerLate, Answered, User, Login, Logout
<1>11. ASSUME NEW e \in Devices, e # d, Daemon(e) \/ Api(e) \/ User(e)
       PROVE  mem'[d][i] = mem[d][i]
  BY <1>1, <1>11, OthersKept
<1>12. CASE (\E u \in WebUsers : Web(u)) \/ Tick \/ UNCHANGED vars
  BY <1>1, <1>12 DEF Web, WebCreate, WebDelete, Tick, vars, DeviceKept
<1>13. CASE Daemon(d)
  BY <1>2, <1>3, <1>4, <1>5, <1>6, <1>7, <1>8, <1>9, <1>13 DEF Daemon
<1> QED BY <1>10, <1>11, <1>12, <1>13 DEF Next

(* A merge takes no row out of the list.                                   *)
LEMMA MergeKeepsRow ==
  ASSUME NEW l \in Local, NEW sent \in Maybe(Row), NEW conflict \in Maybe(Row),
         NEW change \in Maybe(Row)
  PROVE  MergeAnswer(l, sent, conflict, change) # NoRow
BY NoLocalAssumption DEF MergeAnswer, ApplyConflict, ApplyInbound, Synced, Maybe, Local, Status

(* A merge of rows no older than the list's takes the list forward.        *)
LEMMA MergeForward ==
  ASSUME NEW l \in Local, NEW sent \in Maybe(Row), NEW conflict \in Maybe(Row),
         NEW change \in Maybe(Row),
         conflict # NoRow => /\ conflict.updated_at > l.row.updated_at
                             /\ change # NoRow => change = conflict,
         change # NoRow => change.updated_at >= l.row.updated_at
  PROVE  LET r == MergeAnswer(l, sent, conflict, change).row
         IN  \/ r = l.row
             \/ r \in {conflict, change} \ {NoRow} /\ r.updated_at > l.row.updated_at
<1>0. /\ l # NoRow /\ l.row.updated_at \in Int
      /\ conflict # NoRow => conflict.updated_at \in Int
      /\ change # NoRow => change.updated_at \in Int
  BY NoLocalAssumption DEF Local, Row, Maybe
<1> DEFINE acked == IF conflict # NoRow THEN ApplyConflict(l, conflict)
                    ELSE IF sent # NoRow /\ l # NoRow THEN Synced(l.row)
                    ELSE l
<1>1. CASE conflict # NoRow
  <2>1. acked # NoRow /\ acked.row = conflict
    <3>1. acked = [row |-> conflict, status |-> "conflict"]
      BY <1>0, <1>1 DEF ApplyConflict
    <3>2. acked \in Local
      BY <1>1, <3>1 DEF Local, Status, Maybe
    <3> QED BY <3>1, <3>2, NoLocalAssumption
  <2>2. CASE change = NoRow
    BY <1>1, <2>1, <2>2 DEF MergeAnswer
  <2>3. CASE change # NoRow
    <3>1. ApplyInbound(acked, change).row = conflict
      <4> HIDE DEF acked
      <4> QED BY <1>0, <1>1, <2>1, <2>3 DEF ApplyInbound, Synced
    <3> QED BY <1>1, <2>3, <3>1 DEF MergeAnswer
  <2> QED BY <2>2, <2>3
<1>2. CASE conflict = NoRow
  <2>1. acked # NoRow /\ acked.row = l.row
    <3>1. Synced(l.row) \in Local /\ Synced(l.row).row = l.row
      BY DEF Synced, Local, Status
    <3> QED BY <1>0, <1>2, <3>1, NoLocalAssumption
  <2>2. CASE change = NoRow
    BY <1>2, <2>1, <2>2 DEF MergeAnswer
  <2>3. CASE change # NoRow
    <3>1. \/ ApplyInbound(acked, change).row = l.row
          \/ /\ ApplyInbound(acked, change).row = change
             /\ change.updated_at > l.row.updated_at
      <4> HIDE DEF acked
      <4> QED BY <1>0, <2>1, <2>3 DEF ApplyInbound, Synced
    <3> QED BY <1>2, <2>3, <3>1 DEF MergeAnswer
  <2> QED BY <2>2, <2>3
<1> QED BY <1>1, <1>2

(* A row a list keeps is kept as it was, edited here, or replaced by a     *)
(* newer copy out of the answer.                                           *)
LEMMA ListForward ==
  ASSUME TypeOK, RequestIsPending, IdsInUse, AnswerIsFresh, DownIsEmpty, [Next]_vars,
         NEW d \in Devices, NEW i \in Ids, mem[d][i] # NoRow, mem'[d][i] # NoRow
  PROVE  \/ mem'[d][i].row = mem[d][i].row
         \/ mem'[d][i].row \in Edits(d, i)
         \/ /\ mem'[d][i].row \in {resp[d].conflicts[i], resp[d].changes[i]} \ {NoRow}
            /\ mem'[d][i].row.updated_at > mem[d][i].row.updated_at
<1>0. mem[d][i] \in Local
  BY DEF TypeOK, List, Maybe
<1>1. CASE MemEdited(d, i)
  BY <1>1, EditFacts DEF MemEdited
<1>2. CASE MemMerged(d, i)
  <2> DEFINE l == mem[d][i]
             sent == req[d].rows[i]
             conflict == resp[d].conflicts[i]
             change == resp[d].changes[i]
  <2>1. /\ sent \in Maybe(Row) /\ conflict \in Maybe(Row) /\ change \in Maybe(Row)
        /\ req[d].rows = Outgoing(mem[d])
        /\ mem'[d][i] = MergeAnswer(l, sent, conflict, change)
    BY <1>2 DEF MemMerged, Merging, TypeOK, Request, Response, Rows, RequestIsPending
  <2>2. sent # NoRow => sent = l.row
    BY <2>1 DEF Outgoing
  <2>3. /\ conflict # NoRow => /\ conflict.updated_at > l.row.updated_at
                               /\ change # NoRow => change = conflict
        /\ change # NoRow => change.updated_at >= l.row.updated_at
    BY <1>2, <2>2 DEF AnswerIsFresh, MemMerged
  <2>4. \/ mem'[d][i].row = l.row
        \/ /\ mem'[d][i].row \in {conflict, change} \ {NoRow}
           /\ mem'[d][i].row.updated_at > l.row.updated_at
    <3> HIDE DEF l, sent, conflict, change
    <3> QED BY <1>0, <2>1, <2>3, MergeForward DEF l
  <2> QED BY <2>4
<1> QED BY <1>1, <1>2, ListStep

LEMMA ListInvInit == NoClockAhead /\ Init => ListInv
<1> SUFFICES ASSUME NoClockAhead, Init PROVE ListInv
  OBVIOUS
<1>1. SyncInv /\ IdsInUse /\ OneMessage /\ LiveAlike
  BY CopiesInvInit DEF CopiesInv
<1>2. AnswerIsFresh /\ DownIsEmpty
  BY DEF Init, AnswerIsFresh, Merging, DownIsEmpty
<1>3. \A i \in NewIds : Copies(i) = {}
  BY <1>1 DEF IdsInUse, NewIds, Init
<1> QED BY <1>1, <1>2, <1>3 DEF ListInv, BuriedEverywhere

LEMMA ListInvNext == InStep /\ ListInv /\ [Next]_vars => ListInv'
<1> SUFFICES ASSUME InStep, ListInv, [Next]_vars PROVE ListInv'
  OBVIOUS
<1>0. NoClockAhead /\ TypeOK /\ StampsPast
  BY DEF InStep, NoClockAhead, ListInv, SyncInv
<1>1. SyncInv'
  BY <1>0, SyncInvNext DEF ListInv
<1>2. IdsInUse'
  BY <1>0, IdsNext DEF ListInv
<1>3. OneMessage' /\ LiveAlike'
  BY <1>0, AgreeNext DEF ListInv
<1>4. AnswerIsFresh'
  BY FreshNext DEF ListInv
<1>5. DownIsEmpty'
  BY <1>0, DownNext DEF ListInv
<1>6. BuriedEverywhere'
  BY <1>0, EverywhereNext DEF ListInv
<1> QED BY <1>1, <1>2, <1>3, <1>4, <1>5, <1>6 DEF ListInv

LEMMA InStepBehind == InStep => NoClockAhead
BY DEF InStep, NoClockAhead

LEMMA ListGoesForward ==
  ASSUME InStep, ListInv, [Next]_vars, NEW d \in Devices, NEW i \in Ids,
         mem[d][i] # NoRow, mem'[d][i] # NoRow
  PROVE  mem'[d][i].row.updated_at >= mem[d][i].row.updated_at
<1>1. /\ TypeOK /\ StampsPast /\ RequestIsPending /\ IdsInUse
      /\ AnswerIsFresh /\ DownIsEmpty
  BY DEF ListInv, SyncInv
<1>2. /\ mem[d][i].row.updated_at \in Int /\ mem[d][i].row.updated_at <= now
      /\ now \in Int /\ DevNow(d) = now
  BY <1>1 DEF TypeOK, List, Maybe, Local, Row, StampsPast, Past, InStep, DevNow
<1>3. \A r \in Edits(d, i) : r.updated_at = now
  BY <1>1, <1>2, EditFacts
<1>4. \A r \in {resp[d].conflicts[i], resp[d].changes[i]} \ {NoRow} : r.updated_at \in Int
  BY <1>1, HeldType DEF Row
<1> QED BY <1>1, <1>2, <1>3, <1>4, ListForward

(* With every clock in step with the API's, a daemon that keeps running    *)
(* never replaces a row by an older version: what it merges from an answer *)
(* is newer than what it had, and an edit is stamped no earlier.  A device *)
(* whose clock is behind does go back, by editing what another just wrote. *)
THEOREM ListsMoveForward ==
  ASSUME InStep
  PROVE  Spec => LocalNeverRegresses
<1>1. Init => ListInv
  BY ListInvInit, InStepBehind
<1>2. ListInv /\ [Next]_vars => ListInv'
  BY ListInvNext
<1>3. ListInv /\ [Next]_vars =>
        [\A d \in Devices, i \in Ids :
           mem[d][i] # NoRow /\ mem'[d][i] # NoRow =>
             mem'[d][i].row.updated_at >= mem[d][i].row.updated_at]_vars
  BY ListGoesForward
<1> QED BY <1>1, <1>2, <1>3, PTL DEF Spec, LocalNeverRegresses

(* Under the same assumption a one-off a daemon has as deleted stays so:   *)
(* neither a conflict nor a change in an answer brings it back.            *)
THEOREM ListsKeepTombstones ==
  ASSUME InStep
  PROVE  Spec => LocalTombstonesStick
<1>1. Init => ListInv
  BY ListInvInit, InStepBehind
<1>2. ListInv /\ [Next]_vars => ListInv'
  BY ListInvNext
<1>3. ListInv /\ [Next]_vars =>
        [\A d \in Devices, i \in Ids :
           mem[d][i] # NoRow /\ mem'[d][i] # NoRow
             /\ mem[d][i].row.deleted /\ Period[mem[d][i].row.message] = 0
           => mem'[d][i].row.deleted]_vars
  <2> SUFFICES ASSUME ListInv, [Next]_vars, NEW d \in Devices, NEW i \in Ids,
                      mem[d][i] # NoRow, mem'[d][i] # NoRow, mem[d][i].row.deleted,
                      Period[mem[d][i].row.message] = 0
               PROVE  mem'[d][i].row.deleted
    OBVIOUS
  <2>1. /\ TypeOK /\ RequestIsPending /\ IdsInUse /\ OneMessage
        /\ AnswerIsFresh /\ DownIsEmpty /\ BuriedEverywhere
    BY DEF ListInv, SyncInv
  <2>2. \A r \in Edits(d, i) : r.deleted
    BY <2>1, EditFacts
  <2>3. ASSUME mem'[d][i].row \in {resp[d].conflicts[i], resp[d].changes[i]} \ {NoRow},
               mem'[d][i].row.updated_at > mem[d][i].row.updated_at
        PROVE  mem'[d][i].row.deleted
    <3> DEFINE r == mem'[d][i].row
               s == mem[d][i].row
    <3>1. /\ r \in Copies(i) /\ s \in Copies(i)
          /\ r.updated_at \in Int /\ s.updated_at \in Int
      BY <2>1, <2>3, HeldType, CopiesType DEF Row
    <3>2. i \in NewIds
      BY <2>1, <2>3 DEF IdsInUse, NewIds
    <3>3. r.message = s.message
      BY <2>1, <3>1, <3>2 DEF OneMessage
    <3>4. ~r.deleted => r.updated_at <= s.updated_at
      BY <2>1, <3>1, <3>2, <3>3 DEF BuriedEverywhere, Live
    <3> QED BY <2>3, <3>1, <3>4
  <2> QED BY <2>1, <2>2, <2>3, ListForward
<1> QED BY <1>1, <1>2, <1>3, PTL DEF Spec, LocalTombstonesStick

-----------------------------------------------------------------------------
(***************************************************************************)
(* No edit is dropped.  An edit leaves the list of what a daemon has yet   *)
(* to deliver by a merge or by a renaming.  A merge acknowledges it only   *)
(* when the account the round asked for has a row under its id, which is   *)
(* no older; and that the row is the same reminder's is OneMessage.        *)
(***************************************************************************)
OwnAccountHas ==
  \A d \in Devices, i \in Ids :
    Merging(d) /\ req[d].rows[i] # NoRow =>
      /\ table[i] # NoRow
      /\ table[i].owner = req[d].user
      /\ table[i].row.updated_at >= req[d].rows[i].updated_at

(* Whatever becomes of a row the API takes, the account has one then.      *)
LEMMA ServedOwns ==
  ASSUME TableOK, NEW q \in Request, RequestPast(q), ~Taken(q), NEW i \in Ids,
         q.rows[i] # NoRow
  PROVE  /\ Written(q)[i] # NoRow
         /\ Written(q)[i].owner = q.user
         /\ Written(q)[i].row.updated_at >= q.rows[i].updated_at
<1> DEFINE server == Owned(table, q.user, i)
           client == q.rows[i]
<1>1. /\ client \in Row /\ client.updated_at \in Int /\ client.updated_at <= now
      /\ now \in Int /\ ClockSkewSec \in Nat
  BY SkewAssumption DEF TableOK, Request, Rows, Maybe, Row, RequestPast, Past
<1>2. server \in Maybe(Row)
  BY OwnedType DEF TableOK
<1>3. CASE Writes(q, i)
  <2>1. Written(q)[i] = [owner |-> q.user, row |-> client]
    BY <1>3 DEF Written
  <2>2. [owner |-> q.user, row |-> client] \in Stored
    BY <1>1 DEF Stored, Request
  <2> QED BY <1>1, <2>1, <2>2, NoStoredAssumption
<1>4. CASE ~Writes(q, i)
  <2>1. Outcome(q, i) \notin {"insert", "update"}
    BY <1>4 DEF Writes
  <2>2. MergeOne(client, server, now) \notin {"insert", "update"}
    BY <2>1 DEF Outcome
  <2>3. server # NoRow /\ server.updated_at >= client.updated_at
    <3> HIDE DEF client, server
    <3>1. server # NoRow => server.updated_at \in Int
      BY <1>2 DEF Maybe, Row
    <3>2. ~(client.updated_at > now + ClockSkewSec)
      BY <1>1
    <3>3. server # NoRow
      BY <1>1, <2>2, <3>2 DEF MergeOne
    <3>4. CASE client.updated_at > server.updated_at
      BY <1>1, <2>2, <3>1, <3>2, <3>3, <3>4 DEF MergeOne
    <3> QED BY <1>1, <3>1, <3>3, <3>4
  <2>4. Written(q)[i] = table[i]
    BY <1>4 DEF Written
  <2> QED BY <2>3, <2>4 DEF Owned
<1> QED BY <1>3, <1>4

LEMMA OwnNext ==
  ASSUME SyncInv, OwnAccountHas, [Next]_vars
  PROVE  OwnAccountHas'
<1>a. TypeOK /\ StampsPast /\ TypeOK' /\ TableOK
  BY TypeNext DEF SyncInv, TypeOK, TableOK
<1> SUFFICES ASSUME NEW d \in Devices, NEW i \in Ids, Merging(d)', req'[d].rows[i] # NoRow
             PROVE  /\ table'[i] # NoRow
                    /\ table'[i].owner = req'[d].user
                    /\ table'[i].row.updated_at >= req'[d].rows[i].updated_at
  BY DEF OwnAccountHas
<1>0. RoundStep(d)
  BY <1>a, DeviceSteps DEF DeviceStep
<1>1. CASE RoundKept(d)
  <2>1. Merging(d) /\ req'[d] = req[d]
    BY <1>1 DEF RoundKept, Merging
  <2>2. /\ table[i] # NoRow /\ table[i].owner = req[d].user
        /\ table[i].row.updated_at >= req[d].rows[i].updated_at
    BY <2>1 DEF OwnAccountHas
  <2>3. table'[i] # NoRow /\ table'[i].owner = table[i].owner
    BY <1>a, <2>2, AccountsStep
  <2>4. table'[i].row.updated_at >= table[i].row.updated_at
    BY <1>a, <2>2, <2>3, TableGrows
  <2>5. /\ table[i].row.updated_at \in Int /\ table'[i].row.updated_at \in Int
        /\ req[d].rows[i].updated_at \in Int
    <3>1. table[i] \in Stored /\ table'[i] \in Stored
      BY <1>a, <2>2, <2>3 DEF TypeOK, Maybe
    <3>2. req[d].rows[i] \in Row
      BY <1>a, <2>1 DEF TypeOK, Merging, Request, Rows, Maybe
    <3> QED BY <3>1, <3>2 DEF Stored, Row
  <2> QED BY <2>1, <2>2, <2>3, <2>4, <2>5
<1>2. CASE RoundAnswered(d)
  <2>1. /\ phase[d] = "sent" /\ req'[d] = req[d]
        /\ ~Taken(req[d]) /\ table' = Written(req[d])
    BY <1>2, <1>a DEF RoundAnswered, Merging, Failed, TypeOK
  <2>2. req[d] \in Request /\ RequestPast(req[d])
    BY <1>a, <2>1, NoReqAssumption DEF TypeOK, StampsPast
  <2> QED BY <1>a, <2>1, <2>2, ServedOwns
<1>3. CASE RoundOver(d) \/ RoundSent(d)
  BY <1>3 DEF RoundOver, RoundSent, Merging
<1> QED BY <1>0, <1>1, <1>2, <1>3 DEF RoundStep

(* What a renaming takes from its id is in the list under a new one.       *)
LEMMA RenamedRow ==
  ASSUME TypeOK, IdsInUse, NEW d \in Devices, NEW S, S \subseteq Unsynced(mem[d]),
         NEW g \in Renamings(S), NEW t \in Int, NEW i \in Ids,
         mem'[d] = Rename(mem[d], g, t), mem[d][i] # NoRow, mem'[d][i] = NoRow
  PROVE  Renamed(d, i)
<1>1. i \in S
  <2>1. i \notin Fresh
    <3>1. mem[d][i].row \in Copies(i)
      BY HeldType, CopiesType
    <3> QED BY <3>1 DEF IdsInUse, Fresh
  <2>2. i \notin DOMAIN g
    BY <2>1 DEF Renamings, Bijection, Injection
  <2>3. PICK j \in DOMAIN g : g[j] = i
    BY <2>2 DEF Rename
  <2> QED BY <2>3 DEF Renamings, Bijection, Injection
<1>2. PICK j \in DOMAIN g : g[j] = i
  BY <1>1 DEF Renamings, Bijection, Surjection
<1>3. j \in Fresh /\ j \in Ids
  BY <1>2 DEF Renamings, Bijection, Injection, Fresh
<1>4. mem'[d][j] = [mem[d][i] EXCEPT !.row.updated_at = t]
  BY <1>2, <1>3 DEF Rename
<1>5. mem[d][i] \in Local /\ mem[d][i].status # "synced"
  BY <1>1 DEF Unsynced, TypeOK, List, Maybe
<1>6. /\ mem'[d][j] \in Local /\ mem'[d][j].status # "synced"
      /\ mem'[d][j].row.updated_at = t
  BY <1>4, <1>5 DEF Local, Row
<1>7. j \in Unsynced(mem'[d])
  BY <1>3, <1>6, NoLocalAssumption DEF Unsynced
<1>8. mem[d][j] = NoRow
  <2>1. Copies(j) = {}
    BY <1>3 DEF IdsInUse, Fresh
  <2> QED BY <1>3, <2>1, HeldType, CopiesType
<1>9. j \notin Unsynced(mem[d])
  BY <1>8 DEF Unsynced
<1> QED BY <1>4, <1>6, <1>7, <1>9 DEF Renamed

LEMMA PendingIsRow ==
  ASSUME NEW r \in Row
  PROVE  Pending(r) # NoRow
<1>1. Pending(r) \in Local
  BY DEF Pending, Local, Status
<1> QED BY <1>1, NoLocalAssumption

LEMMA ListLoses ==
  ASSUME TypeOK, IdsInUse, DownIsEmpty, [Next]_vars, NEW d \in Devices, NEW i \in Ids,
         mem[d][i] # NoRow, mem'[d][i] = NoRow, phase'[d] # "down"
  PROVE  Renamed(d, i)
<1>0. DevNow(d) \in Int
  BY DevNowType DEF TypeOK
<1>1. ~DeviceKept(d)
  BY DEF DeviceKept
<1>2. \A k \in Ids, m \in Messages, f \in FireTimes : ~Add(d, k, m, f)
  <2>1. ASSUME NEW k \in Ids, NEW m \in Messages, NEW f \in FireTimes, Add(d, k, m, f)
        PROVE  FALSE
    <3>1. mem'[d] = [mem[d] EXCEPT ![k] = Pending(NewRow(m, f, DevNow(d)))]
      BY <2>1 DEF Add, LocalChange, TypeOK
    <3>2. mem'[d][i] \in {mem[d][i], Pending(NewRow(m, f, DevNow(d)))}
      BY <3>1 DEF TypeOK, List
    <3>3. NewRow(m, f, DevNow(d)) \in Row
      BY <1>0, ClockAssumption DEF NewRow, Row
    <3> QED BY <3>2, <3>3, PendingIsRow
  <2> QED BY <2>1
<1>e. \A r \in Edits(d, i) : Pending(r) # NoRow
  <2>1. mem[d][i].row \in Row
    BY DEF TypeOK, List, Maybe, Local
  <2>2. Edits(d, i) \subseteq Row
    <3>1. Tombstone(mem[d][i].row, DevNow(d)) \in Row
      BY <1>0, <2>1 DEF Tombstone, Row
    <3>2. Fire(mem[d][i].row, DevNow(d)) \in Row
      <4>1. ASSUME NEW m \in Messages PROVE Fire(mem[d][i].row, DevNow(d)) \in Row
        BY <1>0, <2>1, RowTypes
      <4> QED BY <2>1, <4>1 DEF Row
    <3> QED BY <3>1, <3>2 DEF Edits
  <2> QED BY <2>2, PendingIsRow
<1>f. ASSUME NEW k \in Ids, Delete(d, k) PROVE FALSE
  <2>1. mem'[d] = [mem[d] EXCEPT ![k] = Pending(Tombstone(@.row, DevNow(d)))]
    BY <1>f DEF Delete, LocalChange, TypeOK
  <2>2. mem'[d][i] = IF i = k THEN Pending(Tombstone(mem[d][i].row, DevNow(d)))
                     ELSE mem[d][i]
    BY <2>1 DEF TypeOK, List
  <2> QED BY <1>e, <2>2 DEF Edits
<1>g. ~CheckTimers(d)
  <2>1. ASSUME CheckTimers(d) PROVE FALSE
    <3>1. mem'[d][i] = IF Due(d, i) THEN Pending(Fire(mem[d][i].row, DevNow(d)))
                       ELSE mem[d][i]
      BY <2>1 DEF CheckTimers, LocalChange, TypeOK
    <3> QED BY <1>e, <3>1 DEF Edits
  <2> QED BY <2>1
<1>3. CASE SyncBegin(d)
  <2> DEFINE U == Unsynced(mem[d]) \cap LegacyIds
  <2>1. PICK g \in Renamings(U) : mem' = [mem EXCEPT ![d] = Rename(mem[d], g, DevNow(d))]
    BY <1>3 DEF SyncBegin
  <2>2. mem'[d] = Rename(mem[d], g, DevNow(d)) /\ U \subseteq Unsynced(mem[d])
    BY <2>1 DEF TypeOK
  <2> HIDE DEF U
  <2> QED BY <1>0, <2>2, RenamedRow
<1>4. CASE ReceiveRetry(d)
  <2>1. PICK g \in Renamings(Unsynced(mem[d])) :
          mem' = [mem EXCEPT ![d] = Rename(mem[d], g, req[d].at)]
    BY <1>4 DEF ReceiveRetry
  <2>2. mem'[d] = Rename(mem[d], g, req[d].at) /\ req[d].at \in Int
    BY <1>4, <2>1 DEF ReceiveRetry, TypeOK, Request
  <2> QED BY <2>2, RenamedRow
<1>5. ~ReceiveOk(d)
  <2>1. ASSUME ReceiveOk(d) PROVE FALSE
    <3>1. mem'[d][i] = MergeAnswer(mem[d][i], req[d].rows[i], resp[d].conflicts[i],
                                   resp[d].changes[i])
      BY <2>1 DEF ReceiveOk, TypeOK
    <3>2. MergeAnswer(mem[d][i], req[d].rows[i], resp[d].conflicts[i], resp[d].changes[i])
            # NoRow
      <4>1. /\ mem[d][i] \in Local /\ req[d].rows[i] \in Maybe(Row)
            /\ resp[d].conflicts[i] \in Maybe(Row) /\ resp[d].changes[i] \in Maybe(Row)
        BY <2>1 DEF ReceiveOk, TypeOK, List, Maybe, Request, Response, Rows
      <4> QED BY <4>1, MergeKeepsRow
    <3> QED BY <3>1, <3>2
  <2> QED BY <2>1
<1>6. ~ReceiveFail(d) /\ ~Timeout(d)
  BY DEF ReceiveFail, Timeout
<1>7. ~Crash(d) /\ ~Restart(d)
  BY DEF Crash, Restart, DownIsEmpty, Nothing, TypeOK
<1>8. ~Api(d) /\ ~User(d)
  BY DEF Api, ServerSync, ServerError, ServerOverlap, ServerLate, Answered, User, Login, Logout
<1>9. \A e \in Devices : e # d => ~Daemon(e) /\ ~Api(e) /\ ~User(e)
  BY <1>1, OthersKept
<1>10. ~(\E u \in WebUsers : Web(u)) /\ ~Tick /\ ~UNCHANGED vars
  BY <1>1 DEF Web, WebCreate, WebDelete, Tick, vars, DeviceKept
<1> QED BY <1>2, <1>f, <1>g, <1>3, <1>4, <1>5, <1>6, <1>7, <1>8, <1>9, <1>10 DEF Next, Daemon

(* If all clocks are in step, then however often rounds fail and ids are   *)
(* exchanged for fresh ones, whichever account a round asks for, and       *)
(* whichever requests are served late or meet themselves: what a running   *)
(* daemon has yet to deliver stays in its list, if need be under a new id, *)
(* until the account of the round has it on the server.                    *)
THEOREM EditsAreKept ==
  ASSUME InStep
  PROVE  Spec => NoEditDropped
<1>1. Init => ListInv /\ OwnAccountHas
  BY ListInvInit, InStepBehind DEF Init, OwnAccountHas, Merging
<1>2. ListInv /\ OwnAccountHas /\ [Next]_vars => (ListInv /\ OwnAccountHas)'
  BY ListInvNext, OwnNext DEF ListInv
<1>3. ListInv /\ OwnAccountHas /\ [Next]_vars =>
        [\A d \in Devices : phase'[d] # "down" =>
           \A i \in Unsynced(mem[d]) :
             StillPending(d, i) \/ Renamed(d, i) \/ Delivered(d, i)]_vars
  <2> SUFFICES ASSUME ListInv, OwnAccountHas, [Next]_vars, NEW d \in Devices,
                      phase'[d] # "down", NEW i \in Unsynced(mem[d])
               PROVE  StillPending(d, i) \/ Renamed(d, i) \/ Delivered(d, i)
    OBVIOUS
  <2>1. /\ TypeOK /\ TypeOK' /\ StampsPast /\ RequestIsPending /\ IdsInUse /\ OneMessage
        /\ AnswerIsFresh /\ DownIsEmpty
    BY TypeNext DEF ListInv, SyncInv
  <2>2. /\ i \in Ids /\ mem[d][i] \in Local /\ mem[d][i] # NoRow
        /\ mem[d][i].status # "synced"
        /\ mem[d][i].row \in Row /\ mem[d][i].row.updated_at \in Int
    BY <2>1 DEF Unsynced, TypeOK, List, Maybe, Local, Row
  <2>3. CASE mem'[d][i] = NoRow
    BY <2>1, <2>2, <2>3, ListLoses
  <2>4. CASE mem'[d][i] # NoRow
    <3>1. mem'[d][i].row.updated_at >= mem[d][i].row.updated_at
      BY <2>1, <2>2, <2>4, ListGoesForward
    <3>2. CASE mem'[d][i].status # "synced"
      BY <2>2, <2>4, <3>1, <3>2 DEF StillPending, Unsynced
    <3>3. CASE mem'[d][i].status = "synced"
      <4>1. MemMerged(d, i)
        <5>1. mem'[d][i] # mem[d][i]
          BY <2>2, <3>3
        <5>2. ~MemEdited(d, i)
          <6>1. \A r : Pending(r).status = "pending"
            BY DEF Pending
          <6> QED BY <3>3, <6>1 DEF MemEdited
        <5> QED BY <2>1, <2>2, <2>4, <5>1, <5>2, ListStep
      <4>2. Merging(d) /\ phase[d] = "answered" /\ req[d].rows = Outgoing(mem[d])
        BY <2>1, <4>1 DEF MemMerged, Merging, RequestIsPending
      <4>3. req[d].rows[i] = mem[d][i].row /\ req[d].rows[i] # NoRow
        BY <2>2, <4>2, NoRowAssumption DEF Outgoing
      <4>4. /\ table[i] # NoRow /\ table[i].owner = req[d].user
            /\ table[i].row.updated_at >= mem[d][i].row.updated_at
        BY <2>2, <4>2, <4>3 DEF OwnAccountHas
      <4>5. table'[i] # NoRow /\ table'[i].owner = table[i].owner
        BY <2>1, <2>2, <4>4, AccountsStep
      <4>6. table' = table
        <5>1. mem' # mem
          BY <2>2, <3>3
        <5> QED BY <5>1, TableOrLists
      <4>7. table[i].row.message = mem[d][i].row.message
        <5>1. i \in NewIds
          BY <2>1, <2>2, <4>4 DEF IdsInUse, NewIds
        <5>2. table[i].row \in Copies(i) /\ mem[d][i].row \in Copies(i)
          BY <2>1, <2>2, <4>4, HeldType, CopiesType
        <5> QED BY <2>1, <5>1, <5>2 DEF OneMessage
      <4> QED BY <4>2, <4>4, <4>6, <4>7 DEF Delivered
    <3> QED BY <3>2, <3>3
  <2> QED BY <2>3, <2>4
<1> QED BY <1>1, <1>2, <1>3, PTL DEF Spec, NoEditDropped
=============================================================================
