-------------------------- MODULE RemindrSyncProofs --------------------------
(***************************************************************************)
(* Theorems of RemindrSync, for every set of devices, accounts, ids and    *)
(* reminders and every choice of failures.                                 *)
(***************************************************************************)
EXTENDS RemindrSync, TLAPS

-----------------------------------------------------------------------------
(* The operators on rows.                                                  *)

LEMMA RowTypes ==
  ASSUME NEW r \in Row, NEW m \in Messages, NEW f \in Int, NEW t \in Int
  PROVE  /\ NewRow(m, f, t) \in Row
         /\ Tombstone(r, t) \in Row
         /\ Fire(r, t) \in Row
         /\ Pending(r) \in Local
         /\ Synced(r) \in Local
         /\ Tombstone(r, t).updated_at = t
         /\ Fire(r, t).updated_at = t
<1>1. NewRow(m, f, t) \in Row
  BY DEF NewRow, Row
<1>2. Tombstone(r, t) \in Row /\ Tombstone(r, t).updated_at = t
  BY DEF Tombstone, Row
<1>3. Fire(r, t) \in Row /\ Fire(r, t).updated_at = t
  <2>1. Period[r.message] \in Nat
    BY PeriodAssumption DEF Row
  <2>2. CASE Period[r.message] > 0
    <3>1. r.fire_at + Period[r.message] \in Int
      BY <2>1 DEF Row
    <3>2. Fire(r, t) = [message |-> r.message,
                        fire_at |-> r.fire_at + Period[r.message],
                        fired |-> r.fired, deleted |-> r.deleted, updated_at |-> t]
      BY <2>2 DEF Fire, Row
    <3> QED BY <3>1, <3>2 DEF Row
  <2>3. CASE ~(Period[r.message] > 0)
    BY <2>1, <2>3 DEF Fire, Row
  <2> QED BY <2>2, <2>3
<1>4. Pending(r) \in Local /\ Synced(r) \in Local
  BY DEF Pending, Synced, Local, Status
<1> QED
  BY <1>1, <1>2, <1>3, <1>4

LEMMA MergeAnswerType ==
  ASSUME NEW l \in Maybe(Local), NEW sent \in Maybe(Row),
         NEW conflict \in Maybe(Row), NEW change \in Maybe(Row)
  PROVE  MergeAnswer(l, sent, conflict, change) \in Maybe(Local)
<1>1. ASSUME NEW k \in Maybe(Local), NEW c \in Row
      PROVE  ApplyConflict(k, c) \in Maybe(Local)
  BY <1>1, NoLocalAssumption DEF ApplyConflict, Maybe, Local, Status
<1>2. ASSUME NEW k \in Maybe(Local), NEW c \in Row
      PROVE  ApplyInbound(k, c) \in Maybe(Local)
  BY <1>2, NoLocalAssumption DEF ApplyInbound, Synced, Maybe, Local, Status
<1> DEFINE acked == IF conflict # NoRow THEN ApplyConflict(l, conflict)
                    ELSE IF sent # NoRow /\ l # NoRow THEN Synced(l.row)
                    ELSE l
<1>3. acked \in Maybe(Local)
  <2>1. CASE conflict # NoRow
    BY <1>1, <2>1 DEF Maybe
  <2>2. CASE conflict = NoRow
    BY <2>2 DEF Synced, Maybe, Local, Status
  <2> QED BY <2>1, <2>2
<1>4. CASE change = NoRow
  BY <1>3, <1>4 DEF MergeAnswer
<1>5. CASE change # NoRow
  <2>1. change \in Row
    BY <1>5 DEF Maybe
  <2>2. ApplyInbound(acked, change) \in Maybe(Local)
    BY <1>2, <1>3, <2>1
  <2> QED BY <1>5, <2>2 DEF MergeAnswer
<1> QED BY <1>4, <1>5

-----------------------------------------------------------------------------
(* The operators on lists and requests.                                    *)

LEMMA OutgoingType ==
  ASSUME NEW list \in List
  PROVE  Outgoing(list) \in Rows
BY DEF Outgoing, Unsynced, List, Rows, Maybe, Local

(* A renaming takes each new id, never used before, to an old one.         *)
LEMMA RenamingFacts ==
  ASSUME NEW S, NEW g \in Renamings(S)
  PROVE  /\ DOMAIN g \subseteq Ids
         /\ \A j \in DOMAIN g : g[j] \in S
BY DEF Renamings, Bijection, Injection, Fresh

LEMMA RenameType ==
  ASSUME NEW list \in List, NEW S, S \subseteq Unsynced(list),
         NEW g \in Renamings(S), NEW t \in Int
  PROVE  Rename(list, g, t) \in List
<1>1. ASSUME NEW l \in Local
      PROVE  [l EXCEPT !.row.updated_at = t] \in Local
  BY <1>1 DEF Local, Row
<1>2. \A j \in DOMAIN g : g[j] \in Ids /\ list[g[j]] \in Local
  BY RenamingFacts DEF Unsynced, List, Maybe
<1>3. \A j \in DOMAIN g : [list[g[j]] EXCEPT !.row.updated_at = t] \in Local
  BY <1>1, <1>2
<1>4. ASSUME NEW i \in Ids
      PROVE  Rename(list, g, t)[i] \in Maybe(Local)
  BY <1>3 DEF Rename, List, Maybe
<1> QED BY <1>4 DEF Rename, List

(* The history variables and the counters aside, this is all the API's     *)
(* operators look at.                                                      *)
TableOK == now \in Nat /\ table \in [Ids -> Maybe(Stored)]

LEMMA OwnedType ==
  ASSUME NEW tbl \in [Ids -> Maybe(Stored)], NEW u, NEW i \in Ids
  PROVE  Owned(tbl, u, i) \in Maybe(Row)
BY DEF Owned, Maybe, Stored

LEMMA WrittenType ==
  ASSUME TableOK, NEW q \in Request
  PROVE  Written(q) \in [Ids -> Maybe(Stored)]
BY DEF TableOK, Written, Writes, Request, Rows, Maybe, Stored

LEMMA AfterType ==
  ASSUME TableOK, NEW q \in Request
  PROVE  After(q) \in [Ids -> Maybe(Stored)]
BY WrittenType DEF After, TableOK

LEMMA FailedType ==
  ASSUME NEW s \in {0, 400, 409, 500}
  PROVE  Failed(s) \in Response
BY DEF Failed, Response, Nothing, Rows, Maybe

LEMMA AnswerType ==
  ASSUME TableOK, NEW q \in Request
  PROVE  Answer(q) \in Response
<1> USE DEF TableOK
<1>1. ASSUME NEW i \in Ids
      PROVE  /\ q.rows[i] \in Maybe(Row)
             /\ Owned(table, q.user, i) \in Maybe(Row)
             /\ Owned(Written(q), q.user, i) \in Maybe(Row)
  BY <1>1, OwnedType, WrittenType DEF Request, Rows
<1>2. Answer(q).conflicts \in Rows
  BY <1>1 DEF Answer, ConflictRow, Rows, Maybe
<1>3. Answer(q).changes \in Rows
  BY <1>1 DEF Answer, Rows, Maybe
<1>4. now \in Int
  OBVIOUS
<1> QED BY <1>2, <1>3, <1>4 DEF Answer, Response

LEMMA VerdictType ==
  ASSUME TableOK, NEW q \in Request
  PROVE  Verdict(q) \in Response
BY AnswerType, FailedType DEF Verdict

-----------------------------------------------------------------------------
(* Type correctness.                                                       *)

LEMMA NothingType == Nothing \in List /\ Nothing \in Rows
BY DEF Nothing, List, Rows, Maybe

LEMMA DevNowType ==
  ASSUME now \in Nat, NEW d \in Devices
  PROVE  DevNow(d) \in Int
BY ClockAssumption DEF DevNow

LEMMA FailType ==
  ASSUME faults \in Nat, NEW kind, Fail(kind)
  PROVE  faults' \in Nat
BY DEF Fail

LEMMA SaveType ==
  ASSUME disk \in [Devices -> List], faults \in Nat,
         NEW d \in Devices, NEW list \in List, Save(d, list)
  PROVE  disk' \in [Devices -> List] /\ faults' \in Nat
BY NothingType, FailType DEF Save

LEMMA TypeInit == Init => TypeOK
<1> SUFFICES ASSUME Init PROVE TypeOK
  OBVIOUS
<1>1. created \subseteq Messages
  BY LegacyAssumption DEF Init, List, Maybe, Local, Row
<1>2. table \in [Ids -> Maybe(Stored)]
  BY DEF Init, Nothing, Maybe
<1>3. NoAnswer \in Response
  BY FailedType DEF NoAnswer
<1>4. phase \in [Devices -> {"idle", "sent", "answered", "down"}]
      /\ \A d \in Devices : phase[d] = "idle"
  BY DEF Init
<1> QED
  BY <1>1, <1>2, <1>3, <1>4, LegacyAssumption DEF Init, TypeOK

LEMMA LocalChangeType ==
  ASSUME TypeOK, NEW d \in Devices, NEW list \in List, LocalChange(d, list),
         used' \subseteq Ids, created' \subseteq Messages
  PROVE  TypeOK'
<1>1. disk' \in [Devices -> List] /\ faults' \in Nat
  BY SaveType DEF LocalChange, TypeOK
<1>2. mem' \in [Devices -> List]
  BY DEF LocalChange, TypeOK
<1> QED BY <1>1, <1>2 DEF LocalChange, TypeOK

LEMMA TypeNext == TypeOK /\ [Next]_vars => TypeOK'
<1> SUFFICES ASSUME TypeOK, [Next]_vars PROVE TypeOK'
  OBVIOUS
<1>0. TableOK
  BY DEF TypeOK, TableOK
<1>1. ASSUME NEW d \in Devices, NEW i \in Ids, NEW m \in Messages,
             NEW f \in FireTimes, Add(d, i, m, f)
      PROVE  TypeOK'
  <2> DEFINE list == [mem[d] EXCEPT ![i] = Pending(NewRow(m, f, DevNow(d)))]
  <2>1. Pending(NewRow(m, f, DevNow(d))) \in Local
    BY DevNowType, ClockAssumption DEF TypeOK, NewRow, Pending, Local, Row, Status
  <2>2. list \in List
    BY <2>1 DEF TypeOK, List, Maybe
  <2> QED BY <1>1, <2>2, LocalChangeType DEF Add, TypeOK
<1>2. ASSUME NEW d \in Devices, NEW i \in Ids, Delete(d, i)
      PROVE  TypeOK'
  <2> DEFINE list == [mem[d] EXCEPT ![i] = Pending(Tombstone(@.row, DevNow(d)))]
  <2>1. mem[d][i].row \in Row
    BY <1>2 DEF Delete, TypeOK, List, Maybe, Local
  <2>2. Pending(Tombstone(mem[d][i].row, DevNow(d))) \in Local
    BY <2>1, DevNowType DEF TypeOK, Tombstone, Pending, Local, Row, Status
  <2>3. list \in List
    BY <2>2 DEF TypeOK, List, Maybe
  <2> QED BY <1>2, <2>3, LocalChangeType DEF Delete, TypeOK
<1>3. ASSUME NEW d \in Devices, CheckTimers(d)
      PROVE  TypeOK'
  <2> DEFINE list == [i \in Ids |-> IF Due(d, i)
                                    THEN Pending(Fire(mem[d][i].row, DevNow(d)))
                                    ELSE mem[d][i]]
  <2>1. ASSUME NEW i \in Ids, Due(d, i)
        PROVE  Pending(Fire(mem[d][i].row, DevNow(d))) \in Local
    <3>1. mem[d][i].row \in Row
      BY <2>1 DEF Due, TypeOK, List, Maybe, Local
    <3>2. Fire(mem[d][i].row, DevNow(d)) \in Row
      <4>1. DevNow(d) \in Int
        BY DevNowType DEF TypeOK
      <4>2. ASSUME NEW m \in Messages PROVE Fire(mem[d][i].row, DevNow(d)) \in Row
        BY <3>1, <4>1, RowTypes
      <4> QED BY <4>2, <3>1 DEF Row
    <3> QED BY <3>2 DEF Pending, Local, Status
  <2>2. list \in List
    BY <2>1 DEF TypeOK, List, Maybe
  <2> QED BY <1>3, <2>2, LocalChangeType DEF CheckTimers, TypeOK
<1>4. ASSUME NEW d \in Devices, SyncBegin(d)
      PROVE  TypeOK'
  <2>1. PICK g \in Renamings(Unsynced(mem[d]) \cap LegacyIds) :
          LET list == Rename(mem[d], g, DevNow(d))
          IN  /\ mem' = [mem EXCEPT ![d] = list]
              /\ req' = [req EXCEPT ![d] =
                   [user |-> cred[d], since |-> cursor[d], at |-> DevNow(d),
                    rows |-> Outgoing(list), retried |-> FALSE]]
              /\ used' = used \cup DOMAIN g
    BY <1>4 DEF SyncBegin
  <2> DEFINE list == Rename(mem[d], g, DevNow(d))
  <2>2. DevNow(d) \in Int
    BY DevNowType DEF TypeOK
  <2>3. list \in List
    BY <2>2, RenameType DEF TypeOK
  <2>4. Outgoing(list) \in Rows
    BY <2>3, OutgoingType
  <2>5. DOMAIN g \subseteq Ids
    BY RenamingFacts
  <2>6. cred[d] \in Users /\ cursor[d] \in Int
    BY <1>4 DEF SyncBegin, TypeOK
  <2> DEFINE q == [user |-> cred[d], since |-> cursor[d], at |-> DevNow(d),
                   rows |-> Outgoing(list), retried |-> FALSE]
  <2>7. q \in Request
    BY <2>2, <2>4, <2>6 DEF Request
  <2>8. mem' = [mem EXCEPT ![d] = list] /\ req' = [req EXCEPT ![d] = q]
    BY <2>1
  <2>9. q # NoReq
    BY <2>7, NoReqAssumption
  <2>10. used' \subseteq Ids
    BY <2>1, <2>5 DEF TypeOK
  <2>11. /\ phase' = [phase EXCEPT ![d] = "sent"]
         /\ UNCHANGED <<now, table, created, cred, disk, cursor, resp, late, faults>>
    BY <1>4 DEF SyncBegin
  <2> HIDE DEF list, q
  <2>12. mem' \in [Devices -> List] /\ req' \in [Devices -> Request \cup {NoReq}]
    BY <2>3, <2>7, <2>8 DEF TypeOK
  <2>13. \A e \in Devices : phase'[e] \in {"sent", "answered"} => req'[e] # NoReq
    BY <2>8, <2>9, <2>11 DEF TypeOK
  <2> QED BY <2>10, <2>11, <2>12, <2>13 DEF TypeOK
<1>5. ASSUME NEW d \in Devices, NEW a \in Response, Answered(d, a),
             table' \in [Ids -> Maybe(Stored)], faults' \in Nat
      PROVE  TypeOK'
  BY <1>5 DEF Answered, TypeOK
<1>6. ASSUME NEW d \in Devices, phase[d] \in {"sent", "answered"}
      PROVE  req[d] \in Request
  BY <1>6 DEF TypeOK
<1>7. ASSUME NEW d \in Devices, ServerSync(d)
      PROVE  TypeOK'
  <2>1. req[d] \in Request
    BY <1>6, <1>7 DEF ServerSync, Answered
  <2>2. Verdict(req[d]) \in Response /\ After(req[d]) \in [Ids -> Maybe(Stored)]
    BY <1>0, <2>1, VerdictType, AfterType
  <2> QED BY <1>5, <1>7, <2>2 DEF ServerSync, TypeOK
<1>8. ASSUME NEW d \in Devices, ServerError(d)
      PROVE  TypeOK'
  <2>1. req[d] \in Request
    BY <1>6, <1>8 DEF ServerError, Answered
  <2>2. Failed(500) \in Response /\ After(req[d]) \in [Ids -> Maybe(Stored)]
    BY <1>0, <2>1, FailedType, AfterType
  <2>3. faults' \in Nat
    BY <1>8, FailType DEF ServerError, TypeOK
  <2>4. table' \in [Ids -> Maybe(Stored)]
    BY <1>8, <2>2 DEF ServerError, TypeOK
  <2> QED BY <1>5, <1>8, <2>2, <2>3, <2>4 DEF ServerError
<1>9. ASSUME NEW d \in Devices, Finish(d)
      PROVE  /\ phase' \in [Devices -> {"idle", "sent", "answered", "down"}]
             /\ req' \in [Devices -> Request \cup {NoReq}]
             /\ resp' \in [Devices -> Response]
             /\ \A e \in Devices :
                  phase'[e] \in {"sent", "answered"} => req'[e] # NoReq
  BY <1>9, FailedType DEF Finish, TypeOK, NoAnswer
<1>10. ASSUME NEW d \in Devices, ReceiveOk(d)
       PROVE  TypeOK'
  <2> DEFINE list == [i \in Ids |-> MergeAnswer(mem[d][i], req[d].rows[i],
                                      resp[d].conflicts[i], resp[d].changes[i])]
  <2>1. req[d] \in Request /\ resp[d] \in Response
    BY <1>6, <1>10 DEF ReceiveOk, TypeOK
  <2>2. list \in List
    BY <2>1, MergeAnswerType DEF TypeOK, List, Request, Response, Rows
  <2>3. mem' = [mem EXCEPT ![d] = list]
    BY <1>10 DEF ReceiveOk
  <2>4. cursor' \in [Devices -> Int]
    BY <1>10, <2>1 DEF ReceiveOk, TypeOK, Response
  <2>5. disk' \in [Devices -> List] /\ faults' \in Nat
    <3>1. CASE Save(d, list)
      BY <2>2, <3>1, SaveType DEF TypeOK
    <3>2. CASE Fail("save") /\ disk' = [disk EXCEPT ![d] = list]
      BY <2>2, <3>2, FailType DEF TypeOK
    <3> QED BY <1>10, <3>1, <3>2 DEF ReceiveOk
  <2>6. /\ Finish(d)
        /\ UNCHANGED <<now, table, created, used, cred, late>>
    BY <1>10 DEF ReceiveOk
  <2> HIDE DEF list
  <2> QED BY <1>9, <2>2, <2>3, <2>4, <2>5, <2>6 DEF TypeOK
<1>11. ASSUME NEW d \in Devices, ReceiveRetry(d)
       PROVE  TypeOK'
  <2>1. req[d] \in Request
    BY <1>6, <1>11 DEF ReceiveRetry
  <2>2. PICK g \in Renamings(Unsynced(mem[d])) :
          LET list == Rename(mem[d], g, req[d].at)
          IN  /\ mem' = [mem EXCEPT ![d] = list]
              /\ used' = used \cup DOMAIN g
              /\ \/ Finish(d)
                 \/ /\ cred[d] # NoUser
                    /\ phase' = [phase EXCEPT ![d] = "sent"]
                    /\ req' = [req EXCEPT ![d].user = cred[d],
                                          ![d].rows = Outgoing(list),
                                          ![d].retried = TRUE]
                    /\ resp' = [resp EXCEPT ![d] = NoAnswer]
    BY <1>11 DEF ReceiveRetry
  <2> DEFINE list == Rename(mem[d], g, req[d].at)
  <2>3. list \in List
    BY <2>1, RenameType DEF TypeOK, Request
  <2>4. Outgoing(list) \in Rows
    BY <2>3, OutgoingType
  <2>5. used' \subseteq Ids
    BY <2>2, RenamingFacts DEF TypeOK
  <2>6. UNCHANGED <<now, table, created, cred, disk, cursor, late, faults>>
    BY <1>11 DEF ReceiveRetry
  <2>7. mem' = [mem EXCEPT ![d] = list]
    BY <2>2
  <2> HIDE DEF list
  <2>8. mem' \in [Devices -> List]
    BY <2>3, <2>7 DEF TypeOK
  <2>9. CASE Finish(d)
    BY <1>9, <2>5, <2>6, <2>8, <2>9 DEF TypeOK
  <2>10. CASE /\ cred[d] # NoUser
              /\ phase' = [phase EXCEPT ![d] = "sent"]
              /\ req' = [req EXCEPT ![d].user = cred[d],
                                    ![d].rows = Outgoing(list),
                                    ![d].retried = TRUE]
              /\ resp' = [resp EXCEPT ![d] = NoAnswer]
    <3>1. cred[d] \in Users
      BY <2>10 DEF TypeOK
    <3>2. [req[d] EXCEPT !.user = cred[d], !.rows = Outgoing(list), !.retried = TRUE]
            \in Request
      BY <2>1, <2>4, <3>1 DEF Request
    <3>3. req' = [req EXCEPT ![d] =
                   [req[d] EXCEPT !.user = cred[d], !.rows = Outgoing(list),
                                  !.retried = TRUE]]
      BY <2>10 DEF TypeOK
    <3>4. NoAnswer \in Response
      BY FailedType DEF NoAnswer
    <3>5. req' \in [Devices -> Request \cup {NoReq}] /\ req'[d] \in Request
      BY <3>2, <3>3 DEF TypeOK
    <3>6. \A e \in Devices : phase'[e] \in {"sent", "answered"} => req'[e] # NoReq
      <4>1. \A e \in Devices \ {d} : req'[e] = req[e] /\ phase'[e] = phase[e]
        BY <2>10, <3>3 DEF TypeOK
      <4>2. req'[d] # NoReq
        BY <3>5, NoReqAssumption
      <4> QED BY <4>1, <4>2 DEF TypeOK
    <3>7. /\ resp' \in [Devices -> Response]
          /\ phase' \in [Devices -> {"idle", "sent", "answered", "down"}]
      BY <2>10, <3>4 DEF TypeOK
    <3> QED BY <2>5, <2>6, <2>8, <3>5, <3>6, <3>7 DEF TypeOK
  <2> QED BY <2>2, <2>9, <2>10 DEF list
<1>12. ASSUME NEW d \in Devices, ReceiveFail(d)
       PROVE  TypeOK'
  BY <1>9, <1>12 DEF ReceiveFail, TypeOK
<1>13. ASSUME NEW d \in Devices, Timeout(d)
       PROVE  TypeOK'
  <2>1. req[d] \in Request
    BY <1>6, <1>13 DEF Timeout
  <2>2. late' \in [Devices -> Request \cup {NoReq}] /\ faults' \in Nat
    BY <1>13, <2>1, FailType DEF Timeout, TypeOK
  <2> QED BY <1>9, <1>13, <2>2 DEF Timeout, TypeOK
<1>14. ASSUME NEW d \in Devices, ServerLate(d)
       PROVE  TypeOK'
  <2>1. late[d] \in Request
    BY <1>14 DEF ServerLate, TypeOK
  <2>2. After(late[d]) \in [Ids -> Maybe(Stored)]
    BY <1>0, <2>1, AfterType
  <2> QED BY <1>14, <2>2 DEF ServerLate, TypeOK
<1>25. ASSUME NEW d \in Devices, ServerOverlap(d)
       PROVE  TypeOK'
  <2>1. late[d] \in Request
    BY <1>25 DEF ServerOverlap, TypeOK
  <2>2. After(late[d]) \in [Ids -> Maybe(Stored)] /\ Failed(409) \in Response
    BY <1>0, <2>1, AfterType, FailedType
  <2> QED BY <1>25, <2>2 DEF ServerOverlap, TypeOK
<1>15. ASSUME NEW d \in Devices, Crash(d)
       PROVE  TypeOK'
  <2>1. PICK left \in CrashLeaves(d) : /\ disk' = [disk EXCEPT ![d] = left[1]]
                                       /\ cursor' = [cursor EXCEPT ![d] = left[2]]
    BY <1>15 DEF Crash
  <2>2. left[1] \in List /\ left[2] \in Int
    <3>1. resp[d].lastSync \in Int
      BY DEF TypeOK, Response
    <3> QED BY <2>1, <3>1, NothingType DEF CrashLeaves, TypeOK
  <2>3. disk' \in [Devices -> List] /\ cursor' \in [Devices -> Int]
    BY <2>1, <2>2 DEF TypeOK
  <2>4. late' \in [Devices -> Request \cup {NoReq}] /\ faults' \in Nat
    BY <1>6, <1>15, FailType DEF Crash, TypeOK
  <2>5. /\ mem' \in [Devices -> List]
        /\ phase' \in [Devices -> {"idle", "sent", "answered", "down"}]
        /\ req' \in [Devices -> Request \cup {NoReq}]
        /\ resp' \in [Devices -> Response]
    BY <1>15, NothingType, FailedType DEF Crash, TypeOK, NoAnswer
  <2>6. \A e \in Devices : phase'[e] \in {"sent", "answered"} => req'[e] # NoReq
    BY <1>15 DEF Crash, TypeOK
  <2> QED BY <1>15, <2>3, <2>4, <2>5, <2>6 DEF Crash, TypeOK
<1>16. ASSUME NEW d \in Devices, Restart(d)
       PROVE  TypeOK'
  BY <1>16 DEF Restart, TypeOK
<1>17. ASSUME NEW d \in Devices, User(d)
       PROVE  TypeOK'
  BY <1>17 DEF User, Login, Logout, TypeOK
<1>18. ASSUME NEW u \in WebUsers, NEW i \in Ids, NEW m \in Messages,
              NEW f \in FireTimes, WebCreate(u, i, m, f)
       PROVE  TypeOK'
  <2>1. [owner |-> u, row |-> NewRow(m, f, now)] \in Stored
    BY UsersAssumption, ClockAssumption DEF Stored, NewRow, Row, TypeOK
  <2> QED BY <1>18, <2>1 DEF WebCreate, TypeOK, Maybe
<1>19. ASSUME NEW u \in WebUsers, NEW i \in Ids, WebDelete(u, i)
       PROVE  TypeOK'
  <2>1. table[i] \in Stored
    BY <1>19 DEF WebDelete, Owned, TypeOK, Maybe
  <2>2. [table[i] EXCEPT !.row = Tombstone(@, now)] \in Stored
    <3>1. now \in Int /\ table[i].row \in Row
      BY <2>1 DEF Stored, TypeOK
    <3>2. Tombstone(table[i].row, now) \in Row
      BY <3>1 DEF Tombstone, Row
    <3> QED BY <2>1, <3>2 DEF Stored
  <2>3. table' = [table EXCEPT ![i] = [table[i] EXCEPT !.row = Tombstone(@, now)]]
    BY <1>19, <2>1 DEF WebDelete, TypeOK
  <2> QED BY <1>19, <2>2, <2>3 DEF WebDelete, TypeOK, Maybe
<1>20. CASE Tick
  BY <1>20 DEF Tick, TypeOK
<1>21. CASE UNCHANGED vars
  BY <1>21 DEF vars, TypeOK
<1>22. ASSUME NEW d \in Devices, Daemon(d)
       PROVE  TypeOK'
  BY <1>1, <1>2, <1>3, <1>4, <1>10, <1>11, <1>12, <1>13, <1>15, <1>16, <1>22 DEF Daemon
<1>24. ASSUME NEW d \in Devices, Api(d)
       PROVE  TypeOK'
  BY <1>7, <1>8, <1>14, <1>24, <1>25 DEF Api
<1>23. ASSUME NEW u \in WebUsers, Web(u)
       PROVE  TypeOK'
  BY <1>18, <1>19, <1>23 DEF Web
<1> QED
  BY <1>17, <1>20, <1>21, <1>22, <1>23, <1>24 DEF Next

(* Every variable keeps its type.                                          *)
THEOREM TypeCorrect == Spec => []TypeOK
<1> QED BY TypeInit, TypeNext, PTL DEF Spec

-----------------------------------------------------------------------------
(* What happens to the table.                                              *)

(* A served request leaves a row alone or puts its own there, stamped no   *)
(* further ahead than the API tolerates, over nothing or over an older row *)
(* of the same account.                                                    *)
LEMMA AfterFacts ==
  ASSUME TableOK, NEW q \in Request, NEW i \in Ids, After(q)[i] # table[i]
  PROVE  /\ q.rows[i] \in Row
         /\ After(q)[i] = [owner |-> q.user, row |-> q.rows[i]]
         /\ q.rows[i].updated_at <= now + ClockSkewSec
         /\ table[i] # NoRow =>
              /\ table[i].owner = q.user
              /\ q.rows[i].updated_at > table[i].row.updated_at
<1> USE DEF TableOK
<1>1. ~Invalid(q) /\ ~Taken(q) /\ Writes(q, i)
  BY DEF After, Written
<1>2. q.rows[i] \in Row
  BY <1>1 DEF Writes, Request, Rows, Maybe
<1>3. After(q)[i] = [owner |-> q.user, row |-> q.rows[i]]
  BY <1>1 DEF After, Written
<1> DEFINE server == Owned(table, q.user, i)
<1>4. server \in Maybe(Row)
  BY OwnedType
<1>5. q.rows[i].updated_at \in Int /\ now \in Int /\ ClockSkewSec \in Int
  BY <1>2, SkewAssumption DEF Row
<1>6. CASE Outcome(q, i) = "insert"
  <2>1. table[i] = NoRow
    BY <1>1, <1>2, <1>6, NoRowAssumption DEF Taken, Inserts
  <2>2. q.rows[i].updated_at <= now + ClockSkewSec
    BY <1>4, <1>5, <1>6 DEF Outcome, MergeOne
  <2> QED BY <1>2, <1>3, <2>1, <2>2
<1>7. CASE Outcome(q, i) = "update"
  <2>1. /\ server # NoRow
        /\ ~(q.rows[i].updated_at = server.updated_at)
        /\ ~(q.rows[i].updated_at < server.updated_at)
        /\ q.rows[i].updated_at <= now + ClockSkewSec
    <3>1. server # NoRow => server.updated_at \in Int
      BY <1>4 DEF Maybe, Row
    <3>2. MergeOne(q.rows[i], server, now) = "update"
      BY <1>7 DEF Outcome
    <3> HIDE DEF server
    <3>3. server # NoRow
      BY <1>5, <3>2 DEF MergeOne
    <3>4. ~(q.rows[i].updated_at = server.updated_at)
      BY <3>2, <3>3 DEF MergeOne
    <3>5. ~(q.rows[i].updated_at < server.updated_at)
      BY <1>5, <3>1, <3>2, <3>3 DEF MergeOne
    <3> QED BY <1>5, <3>1, <3>2, <3>3, <3>4, <3>5 DEF MergeOne
  <2>2. table[i] # NoRow /\ table[i].owner = q.user /\ server = table[i].row
    BY <2>1 DEF Owned
  <2>3. server.updated_at \in Int
    BY <1>4, <2>1 DEF Maybe, Row
  <2> QED BY <1>2, <1>3, <1>5, <2>1, <2>2, <2>3
<1> QED BY <1>1, <1>6, <1>7 DEF Writes

(* Every step of the system on one row of the table.                       *)
RowServed(i) ==
  \E q \in Request :
    /\ \E d \in Devices : q \in {req[d], late[d]}
    /\ table'[i] = After(q)[i]
    /\ UNCHANGED now

RowCreated(i) ==
  \E u \in Users, m \in Messages, f \in FireTimes :
    /\ i \in Fresh /\ used' = used \cup {i}
    /\ m \notin created /\ created' = created \cup {m}
    /\ table[i] = NoRow
    /\ table'[i] = [owner |-> u, row |-> NewRow(m, f, now)]
    /\ UNCHANGED now

RowDeleted(i) ==
  /\ table[i] \in Stored
  /\ table'[i] = [table[i] EXCEPT !.row = Tombstone(@, now)]
  /\ UNCHANGED now

RowKept(i) == table'[i] = table[i] /\ now' >= now

LEMMA TableSteps ==
  ASSUME TypeOK, [Next]_vars, NEW i \in Ids
  PROVE  RowKept(i) \/ RowServed(i) \/ RowCreated(i) \/ RowDeleted(i)
<1>0. /\ now \in Nat
      /\ \A d \in Devices : phase[d] \in {"sent", "answered"} => req[d] \in Request
      /\ \A d \in Devices : late[d] # NoReq => late[d] \in Request
  BY DEF TypeOK
<1>1. CASE UNCHANGED <<now, table>>
  BY <1>0, <1>1 DEF RowKept
<1>2. ASSUME NEW d \in Devices, ServerSync(d)
      PROVE  RowServed(i)
  BY <1>0, <1>2 DEF ServerSync, Answered, RowServed
<1>3. ASSUME NEW d \in Devices, ServerError(d)
      PROVE  RowKept(i) \/ RowServed(i)
  BY <1>0, <1>3 DEF ServerError, Answered, RowServed, RowKept
<1>4. ASSUME NEW d \in Devices, ServerLate(d) \/ ServerOverlap(d)
      PROVE  RowServed(i)
  BY <1>0, <1>4 DEF ServerLate, ServerOverlap, RowServed
<1>5. ASSUME NEW u \in WebUsers, NEW j \in Ids, NEW m \in Messages,
             NEW f \in FireTimes, WebCreate(u, j, m, f)
      PROVE  RowKept(i) \/ RowCreated(i)
  <2>1. CASE j = i
    <3>1. table'[i] = [owner |-> u, row |-> NewRow(m, f, now)]
      BY <1>5, <2>1 DEF WebCreate, TypeOK
    <3>2. /\ table[i] = NoRow /\ UNCHANGED now
          /\ i \in Fresh /\ used' = used \cup {i}
          /\ m \notin created /\ created' = created \cup {m}
      BY <1>5, <2>1 DEF WebCreate
    <3> QED BY <3>1, <3>2, UsersAssumption DEF RowCreated
  <2>2. CASE j # i
    BY <1>0, <1>5, <2>2 DEF WebCreate, RowKept, TypeOK
  <2> QED BY <2>1, <2>2
<1>6. ASSUME NEW u \in WebUsers, NEW j \in Ids, WebDelete(u, j)
      PROVE  RowKept(i) \/ RowDeleted(i)
  <2>1. CASE j = i
    <3>1. table[i] \in Stored
      BY <1>6, <2>1 DEF WebDelete, Owned, TypeOK, Maybe
    <3>2. table'[i] = [table[i] EXCEPT !.row = Tombstone(@, now)]
      BY <1>6, <2>1, <3>1 DEF WebDelete, TypeOK
    <3> QED BY <1>6, <3>1, <3>2 DEF WebDelete, RowDeleted
  <2>2. CASE j # i
    BY <1>0, <1>6, <2>2 DEF WebDelete, RowKept, TypeOK
  <2> QED BY <2>1, <2>2
<1>7. CASE Tick
  BY <1>0, <1>7 DEF Tick, RowKept
<1>8. CASE UNCHANGED vars
  BY <1>1, <1>8 DEF vars
<1>9. ASSUME NEW d \in Devices, Daemon(d) \/ User(d)
      PROVE  UNCHANGED <<now, table>>
  BY <1>9 DEF Daemon, User, Add, Delete, CheckTimers, LocalChange, SyncBegin,
     ReceiveOk, ReceiveRetry, ReceiveFail, Timeout, Crash, Restart, Login, Logout
<1>10. ASSUME NEW u \in WebUsers, Web(u)
       PROVE  RowKept(i) \/ RowCreated(i) \/ RowDeleted(i)
  BY <1>5, <1>6, <1>10 DEF Web
<1>11. ASSUME NEW d \in Devices, Api(d)
       PROVE  RowKept(i) \/ RowServed(i)
  BY <1>2, <1>3, <1>4, <1>11 DEF Api
<1> QED BY <1>1, <1>7, <1>8, <1>9, <1>10, <1>11 DEF Next

-----------------------------------------------------------------------------
(* No clock, however wrong, puts a row of the table further ahead than     *)
(* ClockSkewSec.                                                           *)
THEOREM FutureIsBounded == Spec => []NoFarFuture
<1>1. Init => NoFarFuture
  BY DEF Init, NoFarFuture, Nothing
<1>2. TypeOK /\ NoFarFuture /\ [Next]_vars => NoFarFuture'
  <2> SUFFICES ASSUME TypeOK, NoFarFuture, [Next]_vars, NEW i \in Ids,
                      table'[i] # NoRow
               PROVE  table'[i].row.updated_at <= now' + ClockSkewSec
    BY DEF NoFarFuture
  <2>0. now \in Int /\ now' \in Int /\ ClockSkewSec \in Nat /\ TableOK
    BY TypeNext, SkewAssumption DEF TypeOK, TableOK
  <2>1. CASE RowKept(i)
    <3>1. table[i].row.updated_at \in Int
      BY <2>1 DEF RowKept, TypeOK, Maybe, Stored, Row
    <3> QED BY <2>0, <2>1, <3>1 DEF RowKept, NoFarFuture
  <2>2. CASE RowServed(i)
    <3>1. PICK q \in Request : table'[i] = After(q)[i] /\ UNCHANGED now
      BY <2>2 DEF RowServed
    <3>2. CASE After(q)[i] = table[i]
      <4>1. RowKept(i)
        BY <2>0, <3>1, <3>2 DEF RowKept
      <4> QED BY <2>1, <4>1
    <3>3. CASE After(q)[i] # table[i]
      <4>1. /\ table'[i] = [owner |-> q.user, row |-> q.rows[i]]
            /\ q.rows[i].updated_at <= now + ClockSkewSec
        BY <2>0, <3>1, <3>3, AfterFacts
      <4>2. now' = now
        BY <3>1
      <4> QED BY <4>1, <4>2
    <3> QED BY <3>2, <3>3
  <2>3. CASE RowCreated(i)
    BY <2>0, <2>3 DEF RowCreated, NewRow
  <2>4. CASE RowDeleted(i)
    <3>1. table[i].row \in Row /\ table'[i].row = Tombstone(table[i].row, now)
      BY <2>4 DEF RowDeleted, Stored
    <3>2. table'[i].row.updated_at = now
      BY <3>1 DEF Tombstone, Row
    <3>3. now' = now
      BY <2>4 DEF RowDeleted
    <3> QED BY <2>0, <3>2, <3>3
  <2> QED BY <2>1, <2>2, <2>3, <2>4, TableSteps
<1> QED BY <1>1, <1>2, TypeCorrect, PTL DEF Spec

LEMMA AccountsStep ==
  TypeOK /\ [Next]_vars =>
    \A i \in Ids : table[i] # NoRow =>
      table'[i] # NoRow /\ table'[i].owner = table[i].owner
<1> SUFFICES ASSUME TypeOK, [Next]_vars, NEW i \in Ids, table[i] # NoRow
             PROVE  table'[i] # NoRow /\ table'[i].owner = table[i].owner
  OBVIOUS
<1>0. TableOK /\ TypeOK'
  BY TypeNext DEF TypeOK, TableOK
<1>1. CASE RowKept(i)
  BY <1>1 DEF RowKept
<1>2. CASE RowServed(i)
  <2>1. PICK q \in Request : table'[i] = After(q)[i] /\ UNCHANGED now
    BY <1>2 DEF RowServed
  <2>2. CASE After(q)[i] = table[i]
    BY <2>1, <2>2
  <2>3. CASE After(q)[i] # table[i]
    <3>1. table'[i] = [owner |-> q.user, row |-> q.rows[i]] /\ table[i].owner = q.user
      BY <1>0, <2>1, <2>3, AfterFacts
    <3>2. [owner |-> q.user, row |-> q.rows[i]] \in Stored
      BY <1>0, <2>3, AfterFacts DEF Stored, Request
    <3> QED BY <3>1, <3>2, NoStoredAssumption
  <2> QED BY <2>2, <2>3
<1>3. CASE RowCreated(i)
  BY <1>3 DEF RowCreated
<1>4. CASE RowDeleted(i)
  <2>1. table'[i].owner = table[i].owner
    BY <1>4 DEF RowDeleted, Stored
  <2>2. table'[i] \in Stored
    <3>1. now \in Int /\ table[i].row \in Row
      BY <1>4 DEF RowDeleted, TypeOK, Stored
    <3>2. Tombstone(table[i].row, now) \in Row
      BY <3>1 DEF Tombstone, Row
    <3> QED BY <1>4, <3>2 DEF RowDeleted, Stored
  <2> QED BY <2>1, <2>2, NoStoredAssumption
<1> QED BY <1>1, <1>2, <1>3, <1>4, TableSteps

(* A row stays, and stays with its account.                                *)
THEOREM RowsStayWithAccounts == Spec => AccountsKeepRows
BY AccountsStep, TypeCorrect, PTL DEF Spec, AccountsKeepRows
=============================================================================
