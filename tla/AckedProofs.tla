----------------------------- MODULE AckedProofs -----------------------------
(***************************************************************************)
(* If no device's clock is ahead of the API's, the table's stamps never go *)
(* back, nothing counts as synced that the server does not have, and       *)
(* RemindrSync implements LwwStore.  The proofs are an induction over      *)
(* SyncInv.  The lemmas before them say what any step can do to one        *)
(* device: to a row of its list, to a row of its file, and to its round.   *)
(***************************************************************************)
EXTENDS RemindrSyncProofs

-----------------------------------------------------------------------------
(* The table.                                                              *)

LEMMA TableGrows ==
  ASSUME TypeOK, StampsPast, [Next]_vars, NEW i \in Ids, table[i] # NoRow
  PROVE  /\ table'[i] # NoRow
         /\ table'[i].row.updated_at >= table[i].row.updated_at
<1>0. TableOK /\ TypeOK' /\ table[i] \in Stored /\ table[i].row.updated_at \in Int
  BY TypeNext DEF TypeOK, TableOK, Maybe, Stored, Row
<1>1. CASE RowKept(i)
  BY <1>0, <1>1 DEF RowKept
<1>2. CASE RowServed(i)
  <2>1. PICK q \in Request : table'[i] = After(q)[i] /\ UNCHANGED now
    BY <1>2 DEF RowServed
  <2>2. CASE After(q)[i] = table[i]
    BY <1>0, <2>1, <2>2
  <2>3. CASE After(q)[i] # table[i]
    <3>1. /\ table'[i] = [owner |-> q.user, row |-> q.rows[i]]
          /\ q.rows[i] \in Row
          /\ q.rows[i].updated_at > table[i].row.updated_at
      BY <1>0, <2>1, <2>3, AfterFacts
    <3>2. table'[i] \in Stored
      BY <3>1 DEF Stored, Request
    <3>3. table'[i].row.updated_at \in Int
      BY <3>2 DEF Stored, Row
    <3> QED BY <1>0, <3>1, <3>2, <3>3, NoStoredAssumption
  <2> QED BY <2>2, <2>3
<1>3. CASE RowCreated(i)
  BY <1>3 DEF RowCreated
<1>4. CASE RowDeleted(i)
  <2>1. now \in Int /\ table[i].row \in Row /\ table[i].row.updated_at <= now
    BY <1>0 DEF TypeOK, Stored, StampsPast, Past
  <2>2. Tombstone(table[i].row, now) \in Row /\ Tombstone(table[i].row, now).updated_at = now
    BY <2>1 DEF Tombstone, Row
  <2>3. table'[i] = [owner |-> table[i].owner, row |-> Tombstone(table[i].row, now)]
    BY <1>4 DEF RowDeleted, Stored
  <2>4. table'[i] \in Stored
    BY <1>0, <2>2, <2>3 DEF Stored
  <2> QED BY <2>1, <2>2, <2>3, <2>4, NoStoredAssumption
<1> QED BY <1>1, <1>2, <1>3, <1>4, TableSteps

-----------------------------------------------------------------------------
(* One device in one step: a row of its list, a row of its file, its round. *)

MemKept(d, i) == mem'[d][i] \in {mem[d][i], NoRow, disk[d][i]}

MemPending(d, i) ==
  /\ mem'[d][i] \in Local
  /\ mem'[d][i].status # "synced"
  /\ \/ mem'[d][i].row.updated_at = DevNow(d)
     \/ req[d] # NoReq /\ mem'[d][i].row.updated_at = req[d].at

MemMerged(d, i) ==
  /\ Merging(d)
  /\ mem'[d][i] = MergeAnswer(mem[d][i], req[d].rows[i], resp[d].conflicts[i],
                              resp[d].changes[i])

MemStep(d) == \A i \in Ids : MemKept(d, i) \/ MemPending(d, i) \/ MemMerged(d, i)

DiskStep(d) == \A i \in Ids : disk'[d][i] \in {disk[d][i], NoRow, mem'[d][i]}

RoundKept(d) == UNCHANGED <<phase[d], req[d], resp[d], mem[d]>>

RoundOver(d) ==
  /\ phase'[d] \in {"idle", "down"}
  /\ req'[d] \in {req[d], NoReq}
  /\ resp'[d] \in {resp[d], NoAnswer}

RoundSent(d) ==
  /\ phase'[d] = "sent"
  /\ req'[d].rows = Outgoing(mem'[d])
  /\ req'[d].at = DevNow(d) \/ (req[d] # NoReq /\ req'[d].at = req[d].at)
  /\ resp'[d] \in {resp[d], NoAnswer}

RoundAnswered(d) ==
  /\ phase[d] = "sent" /\ phase'[d] = "answered"
  /\ UNCHANGED <<req[d], mem[d], now>>
  /\ \/ \E s \in {400, 409, 500} : resp'[d] = Failed(s)
     \/ /\ ~Taken(req[d])
        /\ resp'[d] = Answer(req[d])
        /\ table' = Written(req[d])

RoundStep(d) == RoundKept(d) \/ RoundOver(d) \/ RoundSent(d) \/ RoundAnswered(d)

LateStep(d) == late'[d] \in {late[d], NoReq, req[d]}

DeviceStep(d) == MemStep(d) /\ DiskStep(d) /\ RoundStep(d) /\ LateStep(d)

DeviceKept(d) ==
  UNCHANGED <<mem[d], disk[d], phase[d], req[d], resp[d], late[d]>>

LEMMA KeptIsStep ==
  ASSUME NEW d \in Devices, DeviceKept(d)
  PROVE  DeviceStep(d)
BY DEF DeviceKept, DeviceStep, MemStep, MemKept, DiskStep, RoundStep, RoundKept, LateStep

(* A step of one device leaves the others alone.                           *)
LEMMA OthersKept ==
  ASSUME TypeOK, NEW d \in Devices, NEW e \in Devices, d # e,
         Daemon(e) \/ Api(e) \/ User(e)
  PROVE  DeviceKept(d)
<1> USE DEF TypeOK, DeviceKept
<1>1. ASSUME NEW list, LocalChange(e, list)
      PROVE  DeviceKept(d)
  BY <1>1 DEF LocalChange, Save
<1>2. CASE \/ \E i \in Ids, m \in Messages, f \in FireTimes : Add(e, i, m, f)
           \/ \E i \in Ids : Delete(e, i)
           \/ CheckTimers(e)
  BY <1>1, <1>2 DEF Add, Delete, CheckTimers
<1>3. CASE SyncBegin(e)
  BY <1>3 DEF SyncBegin
<1>4. CASE ReceiveOk(e)
  BY <1>4 DEF ReceiveOk, Finish, Save
<1>5. CASE ReceiveRetry(e)
  BY <1>5 DEF ReceiveRetry, Finish
<1>6. CASE ReceiveFail(e) \/ Timeout(e) \/ Restart(e)
  BY <1>6 DEF ReceiveFail, Timeout, Restart, Finish
<1>7. CASE Crash(e)
  BY <1>7 DEF Crash
<1>8. CASE Api(e)
  BY <1>8 DEF Api, ServerSync, ServerError, ServerOverlap, ServerLate, Answered
<1>9. CASE User(e)
  BY <1>9 DEF User, Login, Logout
<1> QED BY <1>2, <1>3, <1>4, <1>5, <1>6, <1>7, <1>8, <1>9 DEF Daemon

(* A command or the timers: what changes becomes pending and is stamped.   *)
LEMMA LocalChangeStep ==
  ASSUME TypeOK, NEW d \in Devices, NEW list \in List, LocalChange(d, list),
         \A i \in Ids : \/ list[i] = mem[d][i]
                        \/ /\ list[i] \in Local
                           /\ list[i].status # "synced"
                           /\ list[i].row.updated_at = DevNow(d)
  PROVE  DeviceStep(d)
<1> USE DEF TypeOK
<1>1. mem'[d] = list
  BY DEF LocalChange
<1>2. MemStep(d)
  BY <1>1 DEF MemStep, MemKept, MemPending
<1>3. DiskStep(d)
  BY <1>1 DEF LocalChange, Save, DiskStep, Nothing
<1>4. RoundOver(d) /\ LateStep(d)
  BY DEF LocalChange, RoundOver, LateStep
<1> QED BY <1>2, <1>3, <1>4 DEF DeviceStep, RoundStep

LEMMA RenameFacts ==
  ASSUME NEW list \in List, NEW S, S \subseteq Unsynced(list),
         NEW g \in Renamings(S), NEW t \in Int, NEW i \in Ids
  PROVE  \/ Rename(list, g, t)[i] \in {list[i], NoRow}
         \/ /\ Rename(list, g, t)[i] \in Local
            /\ Rename(list, g, t)[i].status # "synced"
            /\ Rename(list, g, t)[i].row.updated_at = t
<1>1. CASE i \in DOMAIN g
  <2>1. g[i] \in Ids /\ list[g[i]] \in Local /\ list[g[i]].status # "synced"
    BY <1>1, RenamingFacts DEF Unsynced, List, Maybe
  <2> DEFINE l == [list[g[i]] EXCEPT !.row.updated_at = t]
  <2>2. l \in Local /\ l.status # "synced" /\ l.row.updated_at = t
    BY <2>1 DEF Local, Row
  <2>3. Rename(list, g, t)[i] = l
    BY <1>1 DEF Rename
  <2> QED BY <2>2, <2>3
<1>2. CASE i \notin DOMAIN g
  BY <1>2 DEF Rename
<1> QED BY <1>1, <1>2

LEMMA OwnDaemonStep ==
  ASSUME TypeOK, TypeOK', NEW d \in Devices, Daemon(d)
  PROVE  DeviceStep(d)
<1>0. /\ mem[d] \in List /\ now \in Nat /\ DevNow(d) \in Int
      /\ FireTimes \subseteq Int
      /\ \A i \in Ids : mem[d][i] # NoRow => mem[d][i] \in Local /\ mem[d][i].row \in Row
  BY DevNowType, ClockAssumption DEF TypeOK, List, Maybe, Local
<1>1. ASSUME NEW i \in Ids, NEW m \in Messages, NEW f \in FireTimes, Add(d, i, m, f)
      PROVE  DeviceStep(d)
  <2> DEFINE r == NewRow(m, f, DevNow(d))
             list == [mem[d] EXCEPT ![i] = Pending(r)]
  <2>1. r \in Row /\ r.updated_at = DevNow(d)
    BY <1>0 DEF NewRow, Row
  <2>2. Pending(r) \in Local /\ Pending(r).status # "synced" /\ Pending(r).row = r
    BY <2>1 DEF Pending, Local, Status
  <2>3. list \in List
    BY <1>0, <2>2 DEF List, Maybe
  <2>4. \A j \in Ids : list[j] = IF j = i THEN Pending(r) ELSE mem[d][j]
    BY <1>0 DEF List
  <2>5. LocalChange(d, list)
    BY <1>1 DEF Add
  <2> HIDE DEF r, list
  <2> QED BY <2>1, <2>2, <2>3, <2>4, <2>5, LocalChangeStep
<1>2. ASSUME NEW i \in Ids, Delete(d, i)
      PROVE  DeviceStep(d)
  <2> DEFINE r == Tombstone(mem[d][i].row, DevNow(d))
             list == [mem[d] EXCEPT ![i] = Pending(r)]
  <2>0. mem[d][i].row \in Row
    BY <1>0, <1>2 DEF Delete
  <2>1. r \in Row /\ r.updated_at = DevNow(d)
    BY <1>0, <2>0 DEF Tombstone, Row
  <2>2. Pending(r) \in Local /\ Pending(r).status # "synced" /\ Pending(r).row = r
    BY <2>1 DEF Pending, Local, Status
  <2>3. list \in List
    BY <1>0, <2>2 DEF List, Maybe
  <2>4. \A j \in Ids : list[j] = IF j = i THEN Pending(r) ELSE mem[d][j]
    BY <1>0 DEF List
  <2>5. LocalChange(d, list)
    <3>1. list = [mem[d] EXCEPT ![i] = Pending(Tombstone(@.row, DevNow(d)))]
      OBVIOUS
    <3> QED BY <1>2, <3>1 DEF Delete
  <2> HIDE DEF r, list
  <2> QED BY <2>1, <2>2, <2>3, <2>4, <2>5, LocalChangeStep
<1>3. CASE CheckTimers(d)
  <2> DEFINE f(i) == Pending(Fire(mem[d][i].row, DevNow(d)))
             list == [i \in Ids |-> IF Due(d, i) THEN f(i) ELSE mem[d][i]]
  <2>1. ASSUME NEW i \in Ids, Due(d, i)
        PROVE  f(i) \in Local /\ f(i).status # "synced" /\ f(i).row.updated_at = DevNow(d)
    <3>1. mem[d][i].row \in Row /\ mem[d][i].row.message \in Messages
      BY <1>0, <2>1 DEF Due, Row
    <3> DEFINE r == Fire(mem[d][i].row, DevNow(d))
    <3>2. r \in Row /\ r.updated_at = DevNow(d)
      <4>1. 0 \in Int
        OBVIOUS
      <4> QED BY <1>0, <3>1, <4>1, RowTypes
    <3>3. Pending(r) \in Local /\ Pending(r).status # "synced" /\ Pending(r).row = r
      BY <3>2 DEF Pending, Local, Status
    <3> QED BY <3>2, <3>3
  <2>2. list \in List
    BY <1>0, <2>1 DEF List, Maybe
  <2>3. LocalChange(d, list)
    BY <1>3 DEF CheckTimers
  <2>4. \A i \in Ids : list[i] = IF Due(d, i) THEN f(i) ELSE mem[d][i]
    OBVIOUS
  <2> HIDE DEF f, list
  <2> QED BY <2>1, <2>2, <2>3, <2>4, LocalChangeStep
<1>4. CASE SyncBegin(d)
  <2>1. PICK g \in Renamings(Unsynced(mem[d]) \cap LegacyIds) :
          /\ mem' = [mem EXCEPT ![d] = Rename(mem[d], g, DevNow(d))]
          /\ req' = [req EXCEPT ![d] =
               [user |-> cred[d], since |-> cursor[d], at |-> DevNow(d),
                rows |-> Outgoing(Rename(mem[d], g, DevNow(d))), retried |-> FALSE]]
    BY <1>4 DEF SyncBegin
  <2>2. mem'[d] = Rename(mem[d], g, DevNow(d))
    BY <2>1 DEF TypeOK
  <2>3. MemStep(d)
    <3> SUFFICES ASSUME NEW i \in Ids PROVE MemKept(d, i) \/ MemPending(d, i)
      BY DEF MemStep
    <3>1. DEFINE S == Unsynced(mem[d]) \cap LegacyIds
    <3>2. S \subseteq Unsynced(mem[d])
      OBVIOUS
    <3> HIDE DEF S
    <3> QED BY <1>0, <2>1, <2>2, <3>2, RenameFacts DEF S, MemKept, MemPending
  <2>4. DiskStep(d) /\ LateStep(d)
    BY <1>4 DEF SyncBegin, DiskStep, LateStep
  <2>5. RoundSent(d)
    <3>1. /\ req'[d].rows = Outgoing(mem'[d])
          /\ req'[d].at = DevNow(d)
      BY <2>1, <2>2 DEF TypeOK
    <3>2. phase'[d] = "sent" /\ resp' = resp
      BY <1>4 DEF SyncBegin, TypeOK
    <3> QED BY <3>1, <3>2 DEF RoundSent
  <2> QED BY <2>3, <2>4, <2>5 DEF DeviceStep, RoundStep
<1>5. CASE ReceiveOk(d)
  <2>1. phase[d] = "answered" /\ resp[d].status = 200
    BY <1>5 DEF ReceiveOk
  <2>2. \A i \in Ids : mem'[d][i] = MergeAnswer(mem[d][i], req[d].rows[i],
                                       resp[d].conflicts[i], resp[d].changes[i])
    BY <1>5 DEF ReceiveOk, TypeOK
  <2>3. MemStep(d)
    BY <2>1, <2>2 DEF MemStep, MemMerged, Merging
  <2>4. DiskStep(d)
    BY <1>5 DEF ReceiveOk, Save, Nothing, DiskStep, TypeOK
  <2>5. RoundOver(d) /\ LateStep(d)
    BY <1>5 DEF ReceiveOk, Finish, RoundOver, LateStep, TypeOK
  <2> QED BY <2>3, <2>4, <2>5 DEF DeviceStep, RoundStep
<1>6. CASE ReceiveRetry(d)
  <2>0. req[d] \in Request /\ req[d] # NoReq /\ req[d].at \in Int
    BY <1>6, NoReqAssumption DEF ReceiveRetry, TypeOK, Request
  <2>1. PICK g \in Renamings(Unsynced(mem[d])) :
          /\ mem' = [mem EXCEPT ![d] = Rename(mem[d], g, req[d].at)]
          /\ \/ Finish(d)
             \/ /\ phase' = [phase EXCEPT ![d] = "sent"]
                /\ req' = [req EXCEPT ![d].user = cred[d],
                                      ![d].rows = Outgoing(Rename(mem[d], g, req[d].at)),
                                      ![d].retried = TRUE]
                /\ resp' = [resp EXCEPT ![d] = NoAnswer]
    BY <1>6 DEF ReceiveRetry
  <2>2. mem'[d] = Rename(mem[d], g, req[d].at)
    BY <2>1 DEF TypeOK
  <2>3. MemStep(d)
    <3> SUFFICES ASSUME NEW i \in Ids PROVE MemKept(d, i) \/ MemPending(d, i)
      BY DEF MemStep
    <3> QED BY <1>0, <2>0, <2>1, <2>2, RenameFacts DEF MemKept, MemPending
  <2>4. DiskStep(d) /\ LateStep(d)
    BY <1>6 DEF ReceiveRetry, DiskStep, LateStep
  <2>5. CASE Finish(d)
    <3>1. RoundOver(d)
      BY <2>5 DEF Finish, RoundOver, TypeOK
    <3> QED BY <2>3, <2>4, <3>1 DEF DeviceStep, RoundStep
  <2>6. CASE /\ phase' = [phase EXCEPT ![d] = "sent"]
             /\ req' = [req EXCEPT ![d].user = cred[d],
                                   ![d].rows = Outgoing(Rename(mem[d], g, req[d].at)),
                                   ![d].retried = TRUE]
             /\ resp' = [resp EXCEPT ![d] = NoAnswer]
    <3>1. req'[d] = [req[d] EXCEPT !.user = cred[d],
                                   !.rows = Outgoing(Rename(mem[d], g, req[d].at)),
                                   !.retried = TRUE]
      BY <2>6 DEF TypeOK
    <3>2. req'[d].rows = Outgoing(mem'[d]) /\ req'[d].at = req[d].at
      BY <2>0, <2>2, <3>1 DEF Request
    <3>3. phase'[d] = "sent" /\ resp'[d] = NoAnswer
      BY <2>6 DEF TypeOK
    <3>4. RoundSent(d)
      BY <2>0, <3>2, <3>3 DEF RoundSent
    <3> QED BY <2>3, <2>4, <3>4 DEF DeviceStep, RoundStep
  <2> QED BY <2>1, <2>5, <2>6
<1>7. CASE ReceiveFail(d)
  BY <1>7 DEF ReceiveFail, Finish, DeviceStep, MemStep, MemKept, DiskStep,
              RoundStep, RoundOver, LateStep, TypeOK
<1>8. CASE Timeout(d)
  <2>1. RoundOver(d)
    BY <1>8 DEF Timeout, Finish, RoundOver, TypeOK
  <2>2. MemStep(d) /\ DiskStep(d)
    BY <1>8 DEF Timeout, MemStep, MemKept, DiskStep
  <2>3. LateStep(d)
    BY <1>8 DEF Timeout, LateStep, TypeOK
  <2> QED BY <2>1, <2>2, <2>3 DEF DeviceStep, RoundStep
<1>9. CASE Crash(d)
  <2>1. RoundOver(d)
    BY <1>9 DEF Crash, RoundOver, TypeOK
  <2>2. MemStep(d)
    BY <1>9 DEF Crash, MemStep, MemKept, Nothing, TypeOK
  <2>3. DiskStep(d)
    <3>1. PICK left \in CrashLeaves(d) : disk' = [disk EXCEPT ![d] = left[1]]
      BY <1>9 DEF Crash
    <3>2. left[1] \in {disk[d], Nothing}
      BY DEF CrashLeaves
    <3> QED BY <3>1, <3>2 DEF DiskStep, Nothing, TypeOK
  <2>4. LateStep(d)
    BY <1>9 DEF Crash, LateStep, TypeOK
  <2> QED BY <2>1, <2>2, <2>3, <2>4 DEF DeviceStep, RoundStep
<1>10. CASE Restart(d)
  BY <1>10 DEF Restart, DeviceStep, MemStep, MemKept, DiskStep,
               RoundStep, RoundOver, LateStep, TypeOK
<1> QED BY <1>1, <1>2, <1>3, <1>4, <1>5, <1>6, <1>7, <1>8, <1>9, <1>10 DEF Daemon

LEMMA OwnApiStep ==
  ASSUME TypeOK, NEW d \in Devices, Api(d)
  PROVE  DeviceStep(d)
<1>1. ASSUME NEW a, Answered(d, a)
      PROVE  /\ MemStep(d) /\ DiskStep(d) /\ LateStep(d)
             /\ phase[d] = "sent" /\ phase'[d] = "answered"
             /\ UNCHANGED <<req[d], mem[d], now>>
             /\ resp'[d] = a
  BY <1>1 DEF Answered, MemStep, MemKept, DiskStep, LateStep, TypeOK
<1>2. CASE ServerSync(d)
  <2>1. Answered(d, Verdict(req[d])) /\ table' = After(req[d])
    BY <1>2 DEF ServerSync
  <2>2. RoundAnswered(d)
    BY <1>1, <2>1 DEF RoundAnswered, Verdict, After
  <2> QED BY <1>1, <2>1, <2>2 DEF DeviceStep, RoundStep
<1>3. CASE ServerError(d)
  <2>1. Answered(d, Failed(500))
    BY <1>3 DEF ServerError
  <2>2. RoundAnswered(d)
    BY <1>1, <2>1 DEF RoundAnswered
  <2> QED BY <1>1, <2>1, <2>2 DEF DeviceStep, RoundStep
<1>4. CASE ServerLate(d)
  BY <1>4 DEF ServerLate, DeviceStep, MemStep, MemKept, DiskStep, RoundStep,
              RoundKept, LateStep, TypeOK
<1>5. CASE ServerOverlap(d)
  <2>1. RoundAnswered(d)
    BY <1>5 DEF ServerOverlap, RoundAnswered, TypeOK
  <2>2. MemStep(d) /\ DiskStep(d) /\ LateStep(d)
    BY <1>5 DEF ServerOverlap, MemStep, MemKept, DiskStep, LateStep, TypeOK
  <2> QED BY <2>1, <2>2 DEF DeviceStep, RoundStep
<1> QED BY <1>2, <1>3, <1>4, <1>5 DEF Api

LEMMA DeviceSteps ==
  ASSUME TypeOK, [Next]_vars, NEW d \in Devices
  PROVE  DeviceStep(d)
<1>1. TypeOK'
  BY TypeNext
<1>2. CASE \E e \in Devices : Daemon(e) \/ Api(e) \/ User(e)
  <2>1. PICK e \in Devices : Daemon(e) \/ Api(e) \/ User(e)
    BY <1>2
  <2>2. CASE d # e
    BY <2>1, <2>2, OthersKept, KeptIsStep
  <2>3. CASE d = e /\ User(e)
    <3>1. DeviceKept(d)
      BY <2>3 DEF User, Login, Logout, DeviceKept
    <3> QED BY <3>1, KeptIsStep
  <2> QED BY <1>1, <2>1, <2>2, <2>3, OwnDaemonStep, OwnApiStep
<1>3. CASE (\E u \in WebUsers : Web(u)) \/ Tick \/ UNCHANGED vars
  <2>1. DeviceKept(d)
    BY <1>3 DEF Web, WebCreate, WebDelete, Tick, vars, DeviceKept
  <2> QED BY <2>1, KeptIsStep
<1> QED BY <1>2, <1>3 DEF Next

-----------------------------------------------------------------------------
(* The merge of one answer: where its rows come from.                      *)

LEMMA MergeAnswerRow ==
  ASSUME NEW l \in Maybe(Local), NEW sent \in Maybe(Row),
         NEW conflict \in Maybe(Row), NEW change \in Maybe(Row),
         MergeAnswer(l, sent, conflict, change) # NoRow
  PROVE  LET r == MergeAnswer(l, sent, conflict, change).row
         IN  \/ l # NoRow /\ r = l.row
             \/ conflict # NoRow /\ r = conflict
             \/ change # NoRow /\ r = change
BY NoLocalAssumption
   DEF MergeAnswer, ApplyConflict, ApplyInbound, Synced, Maybe, Local

(* What it leaves as synced was so before, has just been acknowledged, or  *)
(* has the stamp of a change the API told.                                 *)
LEMMA MergeAnswerSynced ==
  ASSUME NEW l \in Maybe(Local), NEW sent \in Maybe(Row),
         NEW conflict \in Maybe(Row), NEW change \in Maybe(Row),
         NEW r, r = MergeAnswer(l, sent, conflict, change),
         r # NoRow, r.status = "synced"
  PROVE  \/ change # NoRow /\ r.row.updated_at = change.updated_at
         \/ l # NoRow /\ r.row = l.row /\ sent # NoRow /\ conflict = NoRow
         \/ l # NoRow /\ r.row = l.row /\ sent = NoRow /\ l.status = "synced"
BY NoLocalAssumption
   DEF MergeAnswer, ApplyConflict, ApplyInbound, Synced, Maybe, Local

-----------------------------------------------------------------------------
(* Stamps stay in the past.                                                *)

LEMMA ClockGrows ==
  ASSUME TypeOK, [Next]_vars
  PROVE  now \in Nat /\ now' \in Nat /\ now' >= now
<1>1. now \in Nat /\ now' \in Nat
  BY TypeNext DEF TypeOK
<1>2. CASE Tick
  BY <1>1, <1>2 DEF Tick
<1>3. CASE UNCHANGED now
  BY <1>1, <1>3
<1>4. ASSUME NEW d \in Devices, Daemon(d) PROVE UNCHANGED now
  BY <1>4 DEF Daemon, Add, Delete, CheckTimers, LocalChange, SyncBegin, ReceiveOk,
              ReceiveRetry, ReceiveFail, Timeout, Crash, Restart
<1>5. ASSUME NEW d \in Devices, Api(d) \/ User(d) PROVE UNCHANGED now
  BY <1>5 DEF Api, ServerSync, ServerError, ServerOverlap, ServerLate, Answered, User, Login, Logout
<1>6. ASSUME NEW u \in WebUsers, Web(u) PROVE UNCHANGED now
  BY <1>6 DEF Web, WebCreate, WebDelete
<1> QED BY <1>2, <1>3, <1>4, <1>5, <1>6 DEF Next, vars

LEMMA DevicesBehind ==
  ASSUME NoClockAhead, now \in Nat, NEW d \in Devices
  PROVE  DevNow(d) \in Int /\ DevNow(d) <= now
BY ClockAssumption DEF NoClockAhead, DevNow

LEMMA AnswerPast ==
  ASSUME TableOK, NEW q \in Request, RequestPast(q), NEW i \in Ids,
         table[i] # NoRow => Past(table[i].row)
  PROVE  /\ Answer(q).conflicts[i] # NoRow => Past(Answer(q).conflicts[i])
         /\ Answer(q).changes[i] # NoRow => Past(Answer(q).changes[i])
<1> USE DEF TableOK
<1>1. \A tbl \in [Ids -> Maybe(Stored)] :
        Owned(tbl, q.user, i) # NoRow => tbl[i] # NoRow /\ Owned(tbl, q.user, i) = tbl[i].row
  BY DEF Owned
<1>2. Answer(q).conflicts[i] # NoRow =>
        Answer(q).conflicts[i] \in {q.rows[i], Owned(table, q.user, i)}
  BY DEF Answer, ConflictRow
<1>3. Answer(q).changes[i] # NoRow => Answer(q).changes[i] = Owned(Written(q), q.user, i)
  BY DEF Answer
<1>4. Written(q) \in [Ids -> Maybe(Stored)]
  BY WrittenType
<1>5. \/ Written(q)[i] = table[i]
      \/ q.rows[i] # NoRow /\ Written(q)[i].row = q.rows[i]
  BY DEF Written, Writes
<1>6. q.rows[i] # NoRow => Past(q.rows[i])
  BY DEF RequestPast
<1>7. Answer(q).conflicts[i] # NoRow => Past(Answer(q).conflicts[i])
  BY <1>1, <1>2, <1>6
<1>8. Answer(q).changes[i] # NoRow => Past(Answer(q).changes[i])
  BY <1>1, <1>3, <1>4, <1>5, <1>6
<1> QED BY <1>7, <1>8

(* The rows of one list or of one file.                                    *)
LEMMA MemPast ==
  ASSUME NoClockAhead, TypeOK, StampsPast, [Next]_vars, NEW d \in Devices,
         NEW i \in Ids
  PROVE  /\ mem'[d][i] # NoRow => mem'[d][i].row.updated_at <= now'
         /\ disk'[d][i] # NoRow => disk'[d][i].row.updated_at <= now'
<1>0. /\ now \in Nat /\ now' \in Nat /\ now' >= now
      /\ DevNow(d) \in Int /\ DevNow(d) <= now
      /\ MemStep(d) /\ DiskStep(d)
      /\ TypeOK'
  BY ClockGrows, DevicesBehind, DeviceSteps, TypeNext DEF DeviceStep
<1>1. ASSUME NEW l \in Maybe(Local), l # NoRow
      PROVE  l.row \in Row /\ l.row.updated_at \in Int
  BY <1>1 DEF Maybe, Local, Row
<1>2. /\ mem[d][i] \in Maybe(Local) /\ mem'[d][i] \in Maybe(Local)
      /\ disk[d][i] \in Maybe(Local) /\ disk'[d][i] \in Maybe(Local)
  BY <1>0 DEF TypeOK, List
<1>3. /\ mem[d][i] # NoRow => mem[d][i].row.updated_at <= now'
      /\ disk[d][i] # NoRow => disk[d][i].row.updated_at <= now'
  BY <1>0, <1>1, <1>2 DEF StampsPast, Past
<1>4. mem'[d][i] # NoRow => mem'[d][i].row.updated_at <= now'
  <2> SUFFICES ASSUME mem'[d][i] # NoRow PROVE mem'[d][i].row.updated_at <= now'
    OBVIOUS
  <2>1. CASE MemKept(d, i)
    BY <2>1, <1>3 DEF MemKept
  <2>2. CASE MemPending(d, i)
    <3>1. CASE mem'[d][i].row.updated_at = DevNow(d)
      BY <1>0, <3>1
    <3>2. CASE req[d] # NoReq /\ mem'[d][i].row.updated_at = req[d].at
      <4>1. req[d].at \in Int /\ req[d].at <= now
        BY <3>2 DEF TypeOK, Request, StampsPast, RequestPast
      <4> QED BY <1>0, <3>2, <4>1
    <3> QED BY <2>2, <3>1, <3>2 DEF MemPending
  <2>3. CASE MemMerged(d, i)
    <3> DEFINE sent == req[d].rows[i]
               conflict == resp[d].conflicts[i]
               change == resp[d].changes[i]
    <3>1. sent \in Maybe(Row) /\ conflict \in Maybe(Row) /\ change \in Maybe(Row)
      BY <2>3 DEF MemMerged, Merging, TypeOK, Request, Response, Rows
    <3>2. /\ conflict # NoRow => conflict.updated_at \in Int /\ conflict.updated_at <= now
          /\ change # NoRow => change.updated_at \in Int /\ change.updated_at <= now
      BY <3>1 DEF StampsPast, Past, Maybe, Row
    <3>3. mem'[d][i] = MergeAnswer(mem[d][i], sent, conflict, change)
      BY <2>3 DEF MemMerged
    <3> HIDE DEF sent, conflict, change
    <3> QED BY <1>0, <1>2, <1>3, <3>1, <3>2, <3>3, MergeAnswerRow
  <2> QED BY <1>0, <2>1, <2>2, <2>3 DEF MemStep
<1>5. disk'[d][i] \in {disk[d][i], NoRow, mem'[d][i]}
  BY <1>0 DEF DiskStep
<1> QED BY <1>3, <1>4, <1>5

LEMMA StampsNext ==
  ASSUME NoClockAhead, TypeOK, StampsPast, [Next]_vars
  PROVE  StampsPast'
<1>0. /\ now \in Nat /\ now' \in Nat /\ now' >= now
      /\ TableOK /\ TypeOK'
  BY ClockGrows, TypeNext DEF TypeOK, TableOK
<1>t. ASSUME NEW r \in Row, Past(r) PROVE r.updated_at <= now'
  BY <1>0, <1>t DEF Past, Row
<1>1. ASSUME NEW i \in Ids, table'[i] # NoRow
      PROVE  table'[i].row.updated_at <= now'
  <2>1. CASE RowKept(i)
    <3>1. table[i] # NoRow /\ table[i].row \in Row /\ table'[i] = table[i]
      BY <1>1, <2>1 DEF RowKept, TypeOK, Maybe, Stored
    <3> QED BY <3>1, <1>t DEF StampsPast
  <2>2. CASE RowServed(i)
    <3>1. PICK q \in Request :
            /\ \E d \in Devices : q \in {req[d], late[d]}
            /\ table'[i] = After(q)[i]
      BY <2>2 DEF RowServed
    <3>2. RequestPast(q)
      BY <3>1, NoReqAssumption DEF StampsPast
    <3>3. CASE After(q)[i] = table[i]
      <4>1. table[i] # NoRow /\ table[i].row \in Row /\ table'[i] = table[i]
        BY <1>1, <3>1, <3>3 DEF TypeOK, Maybe, Stored
      <4> QED BY <4>1, <1>t DEF StampsPast
    <3>4. CASE After(q)[i] # table[i]
      <4>1. q.rows[i] \in Row /\ table'[i] = [owner |-> q.user, row |-> q.rows[i]]
        BY <1>0, <3>1, <3>4, AfterFacts
      <4>2. q.rows[i] # NoRow
        BY <4>1, NoRowAssumption
      <4> QED BY <3>2, <4>1, <4>2, <1>t DEF RequestPast
    <3> QED BY <3>3, <3>4
  <2>3. CASE RowCreated(i)
    <3>1. PICK u \in Users, m \in Messages, f \in FireTimes :
            table'[i] = [owner |-> u, row |-> NewRow(m, f, now)]
      BY <2>3 DEF RowCreated
    <3> QED BY <1>0, <3>1 DEF NewRow
  <2>4. CASE RowDeleted(i)
    <3>1. table[i].row \in Row
      BY <2>4 DEF RowDeleted, TypeOK, Maybe, Stored
    <3>2. Tombstone(table[i].row, now).updated_at = now
      BY <3>1 DEF Tombstone, Row
    <3>3. table'[i].row = Tombstone(table[i].row, now)
      <4>1. table[i] \in Stored
        BY <2>4 DEF RowDeleted, TypeOK, Maybe
      <4> QED BY <2>4, <4>1 DEF RowDeleted, Stored
    <3> QED BY <1>0, <3>2, <3>3
  <2> QED BY <2>1, <2>2, <2>3, <2>4, TableSteps
<1>2. ASSUME NEW d \in Devices, NEW i \in Ids
      PROVE  /\ mem'[d][i] # NoRow => mem'[d][i].row.updated_at <= now'
             /\ disk'[d][i] # NoRow => disk'[d][i].row.updated_at <= now'
  BY MemPast
<1>q. ASSUME NEW q \in Request, RequestPast(q)
      PROVE  /\ q.at <= now'
             /\ \A i \in Ids : q.rows[i] # NoRow => q.rows[i].updated_at <= now'
  <2>1. q.at <= now'
    BY <1>0, <1>q DEF RequestPast, Request
  <2>2. ASSUME NEW i \in Ids, q.rows[i] # NoRow PROVE q.rows[i].updated_at <= now'
    <3>1. q.rows[i] \in Row
      BY <2>2 DEF Request, Rows, Maybe
    <3> QED BY <1>q, <1>t, <2>2, <3>1 DEF RequestPast
  <2> QED BY <2>1, <2>2
<1>3. ASSUME NEW d \in Devices, req'[d] # NoReq
      PROVE  /\ req'[d].at <= now'
             /\ \A i \in Ids : req'[d].rows[i] # NoRow => req'[d].rows[i].updated_at <= now'
  <2>1. RoundStep(d)
    BY DeviceSteps DEF DeviceStep
  <2>2. CASE req'[d] = req[d]
    <3>1. req[d] \in Request /\ RequestPast(req[d])
      BY <1>3, <2>2 DEF TypeOK, StampsPast
    <3> QED BY <1>q, <2>2, <3>1
  <2>3. CASE RoundSent(d)
    <3>1. req'[d].at <= now'
      <4>1. CASE req'[d].at = DevNow(d)
        BY <1>0, <4>1, DevicesBehind
      <4>2. CASE req[d] # NoReq /\ req'[d].at = req[d].at
        <5>1. req[d] \in Request /\ RequestPast(req[d])
          BY <4>2 DEF TypeOK, StampsPast
        <5> QED BY <1>q, <4>2, <5>1
      <4> QED BY <2>3, <4>1, <4>2 DEF RoundSent
    <3>2. ASSUME NEW i \in Ids, req'[d].rows[i] # NoRow
          PROVE  req'[d].rows[i].updated_at <= now'
      <4>1. req'[d].rows[i] = mem'[d][i].row /\ mem'[d][i] # NoRow
        BY <2>3, <3>2 DEF RoundSent, Outgoing, Unsynced
      <4> QED BY <1>2, <4>1
    <3> QED BY <3>1, <3>2
  <2> QED BY <1>3, <2>1, <2>2, <2>3 DEF RoundStep, RoundKept, RoundOver, RoundAnswered
<1>4. ASSUME NEW d \in Devices, late'[d] # NoReq
      PROVE  /\ late'[d].at <= now'
             /\ \A i \in Ids : late'[d].rows[i] # NoRow => late'[d].rows[i].updated_at <= now'
  <2>1. late'[d] \in Request
    BY <1>0, <1>4 DEF TypeOK
  <2>2. late'[d] \in {late[d], req[d]}
    BY <1>4, DeviceSteps DEF DeviceStep, LateStep
  <2>3. RequestPast(late'[d])
    BY <1>4, <2>2 DEF StampsPast
  <2> QED BY <1>q, <2>1, <2>3
<1>5. ASSUME NEW d \in Devices, NEW i \in Ids
      PROVE  /\ resp'[d].conflicts[i] # NoRow => resp'[d].conflicts[i].updated_at <= now'
             /\ resp'[d].changes[i] # NoRow => resp'[d].changes[i].updated_at <= now'
  <2>1. \/ resp'[d] \in {resp[d], NoAnswer}
        \/ \E s \in {400, 409, 500} : resp'[d] = Failed(s)
        \/ phase[d] = "sent" /\ resp'[d] = Answer(req[d])
    BY DeviceSteps DEF DeviceStep, RoundStep, RoundKept, RoundOver, RoundSent, RoundAnswered
  <2>2. CASE resp'[d] = resp[d]
    <3>1. resp[d].conflicts[i] \in Maybe(Row) /\ resp[d].changes[i] \in Maybe(Row)
      BY DEF TypeOK, Response, Rows
    <3> QED BY <2>2, <3>1, <1>t DEF StampsPast, Maybe
  <2>3. CASE resp'[d] = NoAnswer \/ \E s \in {400, 409, 500} : resp'[d] = Failed(s)
    BY <2>3 DEF NoAnswer, Failed, Nothing
  <2>4. CASE phase[d] = "sent" /\ resp'[d] = Answer(req[d])
    <3>1. req[d] \in Request /\ RequestPast(req[d])
      BY <2>4, NoReqAssumption DEF TypeOK, StampsPast
    <3>2. Answer(req[d]).conflicts[i] \in Maybe(Row) /\ Answer(req[d]).changes[i] \in Maybe(Row)
      BY <1>0, <3>1, AnswerType DEF Response, Rows
    <3>3. table[i] # NoRow => Past(table[i].row)
      BY DEF StampsPast
    <3>4. /\ Answer(req[d]).conflicts[i] # NoRow => Past(Answer(req[d]).conflicts[i])
          /\ Answer(req[d]).changes[i] # NoRow => Past(Answer(req[d]).changes[i])
      BY <1>0, <3>1, <3>3, AnswerPast
    <3> QED BY <2>4, <3>2, <3>4, <1>t DEF Maybe
  <2> QED BY <2>1, <2>2, <2>3, <2>4
<1> QED BY <1>1, <1>2, <1>3, <1>4, <1>5 DEF StampsPast, Past, RequestPast

-----------------------------------------------------------------------------
(* What is in flight.                                                      *)

LEMMA PendingNext ==
  ASSUME TypeOK, RequestIsPending, [Next]_vars
  PROVE  RequestIsPending'
<1> SUFFICES ASSUME NEW d \in Devices, phase'[d] \in {"sent", "answered"}
             PROVE  req'[d].rows = Outgoing(mem'[d])
  BY DEF RequestIsPending, Outgoing, Unsynced
<1>1. RoundStep(d)
  BY DeviceSteps DEF DeviceStep
<1> QED BY <1>1 DEF RoundStep, RoundKept, RoundOver, RoundSent, RoundAnswered, RequestIsPending

LEMMA HoldsNext ==
  ASSUME TypeOK, StampsPast, [Next]_vars, NEW i \in Ids, NEW r \in Row, Holds(i, r)
  PROVE  Holds(i, r)'
<1>1. /\ table'[i] # NoRow
      /\ table'[i].row.updated_at >= table[i].row.updated_at
  BY TableGrows DEF Holds
<1>2. table[i].row.updated_at \in Int /\ table'[i].row.updated_at \in Int
  BY <1>1, TypeNext DEF Holds, TypeOK, Maybe, Stored, Row
<1> QED BY <1>1, <1>2 DEF Holds, Row

(* An answer of 200 speaks of what the table has from then on.             *)
LEMMA AnswerHolds ==
  ASSUME TableOK, NEW q \in Request, ~Taken(q), table' = Written(q), NEW i \in Ids
  PROVE  /\ Answer(q).changes[i] # NoRow =>
              /\ table'[i] # NoRow
              /\ table'[i].row.updated_at >= Answer(q).changes[i].updated_at
         /\ q.rows[i] # NoRow /\ Answer(q).conflicts[i] = NoRow => Holds(i, q.rows[i])'
<1> USE DEF TableOK
<1>0. table' \in [Ids -> Maybe(Stored)] /\ table[i] \in Maybe(Stored)
  BY WrittenType
<1>1. ASSUME Answer(q).changes[i] # NoRow
      PROVE  /\ table'[i] # NoRow
             /\ table'[i].row.updated_at >= Answer(q).changes[i].updated_at
  <2>1. Answer(q).changes[i] = Owned(Written(q), q.user, i)
    BY <1>1 DEF Answer
  <2>2. table'[i] # NoRow /\ Answer(q).changes[i] = table'[i].row
    BY <1>1, <2>1 DEF Owned
  <2>3. table'[i].row.updated_at \in Int
    BY <1>0, <2>2 DEF Maybe, Stored, Row
  <2> QED BY <2>2, <2>3
<1>2. ASSUME q.rows[i] # NoRow, Answer(q).conflicts[i] = NoRow
      PROVE  Holds(i, q.rows[i])'
  <2>0. q.rows[i] \in Row /\ q.rows[i].updated_at \in Int
    BY <1>2 DEF Request, Rows, Maybe, Row
  <2>1. Outcome(q, i) # "conflict"
    <3>1. Outcome(q, i) = "conflict" =>
            Answer(q).conflicts[i] = ConflictRow(q.rows[i], Owned(table, q.user, i))
      BY <1>2 DEF Answer
    <3>2. ConflictRow(q.rows[i], Owned(table, q.user, i)) # NoRow
      BY <1>2 DEF ConflictRow
    <3> QED BY <1>2, <3>1, <3>2
  <2>2. CASE Writes(q, i)
    <3>1. table'[i] = [owner |-> q.user, row |-> q.rows[i]]
      BY <2>2 DEF Written
    <3>2. table'[i] \in Stored
      BY <2>0, <3>1 DEF Stored, Request
    <3> QED BY <2>0, <3>1, <3>2, NoStoredAssumption DEF Holds
  <2>3. CASE ~Writes(q, i)
    <3>1. Outcome(q, i) = "noop"
      BY <1>2, <2>1, <2>3 DEF Writes, Outcome, MergeOne
    <3> DEFINE server == Owned(table, q.user, i)
    <3>2. server # NoRow /\ q.rows[i].updated_at = server.updated_at
      BY <3>1 DEF Outcome, MergeOne
    <3>3. table[i] # NoRow /\ server = table[i].row
      BY <3>2 DEF Owned
    <3>4. table'[i] = table[i]
      BY <2>3 DEF Written
    <3> QED BY <2>0, <3>2, <3>3, <3>4 DEF Holds
  <2> QED BY <2>2, <2>3
<1> QED BY <1>1, <1>2

LEMMA DurableNext ==
  ASSUME TypeOK, StampsPast, RequestIsPending, AnswerIsDurable, [Next]_vars
  PROVE  AnswerIsDurable'
<1> SUFFICES ASSUME NEW d \in Devices, NEW i \in Ids, Merging(d)'
             PROVE  /\ resp'[d].changes[i] # NoRow => Holds(i, resp[d].changes[i])'
                    /\ req'[d].rows[i] # NoRow /\ resp'[d].conflicts[i] = NoRow
                         => Holds(i, req[d].rows[i])'
  BY DEF AnswerIsDurable
<1>0. RoundStep(d) /\ TableOK
  BY DeviceSteps DEF DeviceStep, TypeOK, TableOK
<1>1. CASE RoundKept(d)
  <2>1. Merging(d) /\ resp'[d] = resp[d] /\ req'[d] = req[d]
    BY <1>1 DEF RoundKept, Merging
  <2>2. /\ resp[d].changes[i] \in Maybe(Row)
        /\ req[d].rows[i] \in Maybe(Row)
    BY <2>1 DEF Merging, TypeOK, Response, Request, Rows
  <2>3. ASSUME resp[d].changes[i] # NoRow PROVE Holds(i, resp[d].changes[i])'
    <3> DEFINE r == resp[d].changes[i]
    <3>1. r \in Row /\ Holds(i, r)
      BY <2>1, <2>2, <2>3 DEF AnswerIsDurable, Maybe
    <3> QED BY <2>1, <3>1, HoldsNext DEF Holds
  <2>4. ASSUME req[d].rows[i] # NoRow, resp[d].conflicts[i] = NoRow
        PROVE  Holds(i, req[d].rows[i])'
    <3>1. req[d].rows[i] \in Row /\ Holds(i, req[d].rows[i])
      BY <2>1, <2>2, <2>4 DEF AnswerIsDurable, Maybe
    <3> QED BY <2>1, <3>1, HoldsNext DEF Holds
  <2> QED BY <2>1, <2>3, <2>4
<1>2. CASE RoundAnswered(d)
  <2>1. /\ req[d] \in Request /\ req'[d] = req[d]
        /\ ~Taken(req[d])
        /\ resp'[d] = Answer(req[d])
        /\ table' = Written(req[d])
    BY <1>2 DEF RoundAnswered, Merging, Failed, TypeOK
  <2> QED BY <1>0, <2>1, AnswerHolds DEF Holds
<1>3. CASE RoundOver(d) \/ RoundSent(d)
  BY <1>3 DEF RoundOver, RoundSent, Merging
<1> QED BY <1>0, <1>1, <1>2, <1>3 DEF RoundStep

-----------------------------------------------------------------------------
(* What counts as synced.                                                  *)

LEMMA AckedNext ==
  ASSUME SyncInv, [Next]_vars
  PROVE  AckedOnServer'
<1> USE DEF SyncInv
<1>0. TypeOK' /\ \A d \in Devices : MemStep(d) /\ DiskStep(d)
  BY TypeNext, DeviceSteps DEF DeviceStep
<1>1. ASSUME NEW i \in Ids, NEW l \in Local, Holds(i, l.row)
      PROVE  Holds(i, l.row)'
  <2> DEFINE r == l.row
  <2>1. r \in Row /\ Holds(i, r)
    BY <1>1 DEF Local
  <2> QED BY <2>1, HoldsNext DEF Holds
<1>2. ASSUME NEW d \in Devices, NEW i \in Ids, NEW l \in {mem[d][i], disk[d][i]},
             l # NoRow, l.status = "synced"
      PROVE  Holds(i, l.row)'
  <2>1. l \in Local /\ Holds(i, l.row)
    BY <1>2 DEF AckedOnServer, TypeOK, List, Maybe
  <2> QED BY <1>1, <2>1
<1>3. ASSUME NEW d \in Devices, NEW i \in Ids,
             mem'[d][i] # NoRow, mem'[d][i].status = "synced"
      PROVE  Holds(i, mem[d][i].row)'
  <2>1. CASE MemKept(d, i)
    <3>1. CASE mem'[d][i] = mem[d][i]
      BY <1>2, <1>3, <3>1 DEF Holds
    <3>2. CASE mem'[d][i] = disk[d][i]
      BY <1>2, <1>3, <3>2 DEF Holds
    <3> QED BY <1>3, <2>1, <3>1, <3>2 DEF MemKept
  <2>2. CASE MemPending(d, i)
    BY <1>3, <2>2 DEF MemPending
  <2>3. CASE MemMerged(d, i)
    <3> DEFINE l == mem[d][i]
               sent == req[d].rows[i]
               conflict == resp[d].conflicts[i]
               change == resp[d].changes[i]
               r == mem'[d][i]
    <3>1. /\ Merging(d) /\ phase[d] = "answered"
          /\ req[d].rows = Outgoing(mem[d])
          /\ r = MergeAnswer(l, sent, conflict, change)
      BY <2>3 DEF MemMerged, Merging, RequestIsPending
    <3>2. /\ l \in Maybe(Local) /\ sent \in Maybe(Row)
          /\ conflict \in Maybe(Row) /\ change \in Maybe(Row)
          /\ r \in Local
      BY <1>0, <1>3, <3>1 DEF TypeOK, List, Request, Response, Rows, Maybe
    <3>3. CASE change # NoRow /\ r.row.updated_at = change.updated_at
      <4>1. change \in Row /\ Holds(i, change)
        BY <3>1, <3>2, <3>3 DEF AnswerIsDurable, Maybe
      <4>2. Holds(i, change) => table'[i] # NoRow
                                /\ table'[i].row.updated_at >= change.updated_at
        BY <4>1, HoldsNext DEF Holds
      <4> QED BY <3>3, <4>1, <4>2 DEF Holds
    <3>4. CASE l # NoRow /\ r.row = l.row /\ sent # NoRow /\ conflict = NoRow
      <4>1. sent = l.row /\ sent \in Row
        BY <3>1, <3>2, <3>4 DEF Outgoing, Maybe
      <4>2. Holds(i, sent)
        BY <3>1, <3>4 DEF AnswerIsDurable
      <4>3. table'[i] # NoRow /\ table'[i].row.updated_at >= sent.updated_at
        BY <4>1, <4>2, HoldsNext DEF Holds
      <4> QED BY <3>4, <4>1, <4>3 DEF Holds
    <3>5. CASE l # NoRow /\ r.row = l.row /\ sent = NoRow /\ l.status = "synced"
      <4>1. table'[i] # NoRow /\ table'[i].row.updated_at >= l.row.updated_at
        BY <1>2, <3>5 DEF Holds
      <4> QED BY <3>5, <4>1 DEF Holds
    <3>6. r # NoRow /\ r.status = "synced"
      BY <1>3
    <3> HIDE DEF l, sent, conflict, change, r
    <3> QED BY <3>1, <3>2, <3>3, <3>4, <3>5, <3>6, MergeAnswerSynced
  <2> QED BY <1>0, <2>1, <2>2, <2>3 DEF MemStep
<1>4. ASSUME NEW d \in Devices, NEW i \in Ids,
             disk'[d][i] # NoRow, disk'[d][i].status = "synced"
      PROVE  Holds(i, disk[d][i].row)'
  <2>1. CASE disk'[d][i] = disk[d][i]
    BY <1>2, <1>4, <2>1 DEF Holds
  <2>2. CASE disk'[d][i] = mem'[d][i]
    BY <1>3, <1>4, <2>2 DEF Holds
  <2> QED BY <1>0, <1>4, <2>1, <2>2 DEF DiskStep
<1> QED BY <1>3, <1>4 DEF AckedOnServer

-----------------------------------------------------------------------------
LEMMA SyncInvInit == NoClockAhead /\ Init => SyncInv
<1> SUFFICES ASSUME NoClockAhead, Init PROVE SyncInv
  OBVIOUS
<1>1. TypeOK
  BY TypeInit
<1>2. ASSUME NEW d \in Devices, NEW i \in Ids, LegacyRows[d][i] # NoRow
      PROVE  /\ LegacyRows[d][i].status = "pending"
             /\ LegacyRows[d][i].row.updated_at <= 1
  BY <1>2, LegacyAssumption, ClockAssumption DEF NoClockAhead
<1>3. StampsPast
  BY <1>2 DEF Init, StampsPast, Past, Nothing, NoAnswer, Failed
<1>4. RequestIsPending /\ AnswerIsDurable
  BY DEF Init, RequestIsPending, AnswerIsDurable, Merging
<1>5. AckedOnServer
  BY <1>2 DEF Init, AckedOnServer
<1> QED BY <1>1, <1>3, <1>4, <1>5 DEF SyncInv

LEMMA SyncInvNext == NoClockAhead /\ SyncInv /\ [Next]_vars => SyncInv'
<1> SUFFICES ASSUME NoClockAhead, SyncInv, [Next]_vars PROVE SyncInv'
  OBVIOUS
<1>1. TypeOK'
  BY TypeNext DEF SyncInv
<1>2. StampsPast'
  BY StampsNext DEF SyncInv
<1>3. RequestIsPending'
  BY PendingNext DEF SyncInv
<1>4. AnswerIsDurable'
  BY DurableNext DEF SyncInv
<1>5. AckedOnServer'
  BY AckedNext
<1> QED BY <1>1, <1>2, <1>3, <1>4, <1>5 DEF SyncInv

(* With no device's clock ahead of the API's, a row counts as synced only  *)
(* while the API has it: no lost answer, failed save, crash, id conflict,  *)
(* change of account or late request makes a daemon forget an edit the API *)
(* never got.                                                              *)
THEOREM NothingSyncedIsLost ==
  ASSUME NoClockAhead
  PROVE  Spec => []AckedOnServer
<1>1. Init => SyncInv
  BY SyncInvInit
<1>2. SyncInv /\ [Next]_vars => SyncInv'
  BY SyncInvNext
<1>3. SyncInv => AckedOnServer
  BY DEF SyncInv
<1> QED BY <1>1, <1>2, <1>3, PTL DEF Spec

(* Under the same assumption the table never goes back to an older version *)
(* of a row, whichever device, web page or late request writes it.         *)
THEOREM TableNeverRegresses ==
  ASSUME NoClockAhead
  PROVE  Spec => StampsGrow
<1>1. Init => SyncInv
  BY SyncInvInit
<1>2. SyncInv /\ [Next]_vars => SyncInv'
  BY SyncInvNext
<1>3. SyncInv /\ [Next]_vars =>
        [\A i \in Ids : table[i] # NoRow /\ table'[i] # NoRow =>
           table'[i].row.updated_at >= table[i].row.updated_at]_vars
  BY TableGrows DEF SyncInv
<1> QED BY <1>1, <1>2, <1>3, PTL DEF Spec, StampsGrow

-----------------------------------------------------------------------------
(* The table and the lists are an LwwStore.                                *)

(* A step changes the table or what devices hold, never both: they meet in *)
(* requests and answers only.                                              *)
LEMMA TableOrLists ==
  [Next]_vars => UNCHANGED table \/ UNCHANGED <<mem, disk>>
<1> SUFFICES ASSUME [Next]_vars PROVE UNCHANGED table \/ UNCHANGED <<mem, disk>>
  OBVIOUS
<1>1. CASE UNCHANGED vars
  BY <1>1 DEF vars
<1>2. CASE Tick
  BY <1>2 DEF Tick
<1>3. ASSUME NEW u \in WebUsers, Web(u) PROVE UNCHANGED <<mem, disk>>
  BY <1>3 DEF Web, WebCreate, WebDelete
<1>4. ASSUME NEW d \in Devices, Api(d) PROVE UNCHANGED <<mem, disk>>
  BY <1>4 DEF Api, ServerSync, ServerError, ServerOverlap, ServerLate, Answered
<1>5. ASSUME NEW d \in Devices, Daemon(d) \/ User(d) PROVE UNCHANGED table
  BY <1>5 DEF Daemon, User, Add, Delete, CheckTimers, LocalChange, SyncBegin,
     ReceiveOk, ReceiveRetry, ReceiveFail, Timeout, Crash, Restart, Login, Logout
<1> QED BY <1>1, <1>2, <1>3, <1>4, <1>5 DEF Next

(* Each row of the table is kept or superseded.                            *)
LEMMA TableSupersedes ==
  ASSUME TypeOK, StampsPast, [Next]_vars
  PROVE  \A i \in Ids : table'[i] = table[i] \/ Lww!Superseded(i)
BY TableGrows, AccountsStep, TypeNext DEF Lww!Superseded, TypeOK

LEMMA LwwInit == Init => Lww!Init
<1> SUFFICES ASSUME Init PROVE Lww!Init
  OBVIOUS
<1>1. ASSUME NEW d \in Devices
      PROVE  SyncedStamps(mem[d]) = [i \in Ids |-> NoRow]
             /\ SyncedStamps(disk[d]) = [i \in Ids |-> NoRow]
  <2>1. mem[d] = LegacyRows[d] /\ disk[d] = LegacyRows[d]
    BY DEF Init
  <2>2. \A i \in Ids : LegacyRows[d][i] # NoRow => LegacyRows[d][i].status = "pending"
    BY LegacyAssumption
  <2> QED BY <2>1, <2>2 DEF SyncedStamps
<1> QED BY <1>1 DEF Lww!Init, Init, Nothing

LEMMA LwwNext ==
  ASSUME SyncInv, SyncInv', [Next]_vars
  PROVE  [Lww!Next]_Lww!vars
<1> DEFINE R == Devices \X {"mem", "disk"}
           D == [x \in R |-> SyncedStamps(IF x[2] = "mem" THEN mem[x[1]] ELSE disk[x[1]])]
<1>1. CASE UNCHANGED <<mem, disk>>
  <2>1. D' = D
    BY <1>1 DEF SyncedStamps
  <2>2. \A i \in Ids : table'[i] = table[i] \/ Lww!Superseded(i)
    BY TableSupersedes DEF SyncInv
  <2>3. Lww!Write
    <3> DEFINE K == {i \in Ids : table'[i] # table[i]}
    <3>1. K \in SUBSET Ids
      OBVIOUS
    <3>2. \A i \in Ids : IF i \in K THEN Lww!Superseded(i) ELSE table'[i] = table[i]
      BY <2>2
    <3> QED BY <2>1, <3>1, <3>2 DEF Lww!Write
  <2> QED BY <2>3 DEF Lww!Next
<1>2. CASE UNCHANGED table
  <2>1. ASSUME NEW x \in R, NEW i \in Ids, D'[x][i] # NoRow
        PROVE  table[i] # NoRow /\ D'[x][i] <= table[i].row.updated_at
    <3>1. PICK d \in Devices, f \in {"mem", "disk"} : x = <<d, f>>
      OBVIOUS
    <3> DEFINE list == IF f = "mem" THEN mem[d] ELSE disk[d]
    <3>2. D'[x] = SyncedStamps(list')
      BY <3>1 DEF SyncedStamps
    <3>3. AckedOnServer'
      BY DEF SyncInv
    <3>4. list \in {mem[d], disk[d]} /\ list' \in {mem'[d], disk'[d]}
      OBVIOUS
    <3>5. \A l : l \in {mem'[d], disk'[d]} /\ SyncedStamps(l)[i] # NoRow =>
             table[i] # NoRow /\ SyncedStamps(l)[i] <= table[i].row.updated_at
      BY <1>2, <3>3 DEF AckedOnServer, Holds, SyncedStamps
    <3> QED BY <2>1, <3>2, <3>4, <3>5
  <2>2. Lww!Report
    BY <1>2, <2>1 DEF Lww!Report
  <2> QED BY <2>2 DEF Lww!Next
<1> QED BY <1>1, <1>2, TableOrLists

(* The refinement: every behaviour of the daemons, the web and the API is  *)
(* one of a last-write-wins store.                                         *)
THEOREM RemindrIsLwwStore ==
  ASSUME NoClockAhead
  PROVE  Spec => ImplementsLwwStore
<1>1. Init => SyncInv /\ Lww!Init
  BY SyncInvInit, LwwInit
<1>2. SyncInv /\ [Next]_vars => SyncInv'
  BY SyncInvNext
<1>3. SyncInv /\ SyncInv' /\ [Next]_vars => [Lww!Next]_Lww!vars
  BY LwwNext
<1> QED BY <1>1, <1>2, <1>3, PTL DEF Spec, ImplementsLwwStore, Lww!Spec
=============================================================================
