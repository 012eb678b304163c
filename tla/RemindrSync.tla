----------------------------- MODULE RemindrSync -----------------------------
(***************************************************************************)
(* The offline-first core of Remindr: daemons that keep a list of          *)
(* reminders in memory and in reminders_v2.json, the web app, and the API  *)
(* whose table they all meet in.                                           *)
(*                                                                         *)
(* A daemon does one thing at a time: commands, timers and a whole sync    *)
(* round, HTTP requests included, run under g_reminders_mutex.  So a       *)
(* handler is one action, and a sync round is three: the request leaves,   *)
(* the API answers, the answer is merged.  Between those the rest of the   *)
(* world moves: other devices, the web, logins, the clock, and failures.   *)
(*                                                                         *)
(* A request is served in one step here, but for one that meets an earlier *)
(* copy of its own rows (ServerOverlap); ApiSync takes that step apart.    *)
(***************************************************************************)
EXTENDS Reminder, FiniteSets, Functions

CONSTANTS
  Devices,     \* machines that run reminderd
  Users,       \* accounts
  WebUsers,    \* those that use the web app too
  Ids,         \* reminder ids, as many as a run may use up
  NoUser,      \* "not logged in"
  NoReq,       \* "no request"
  LegacyRows,  \* per device, the list migrated from a v1 store
  Skew,        \* per device, its clock minus the API's clock
  FireTimes,   \* the fire_at values commands ask for
  Refused,     \* reminders the API's validation rejects
  Faults,      \* the kinds of failure a run may meet
  MaxFaults,   \* BOUND: failures in a behaviour
  MaxTime      \* BOUND: the last second of the API's clock

ASSUME UsersAssumption == NoUser \notin Users /\ WebUsers \subseteq Users
ASSUME ClockAssumption ==
  Skew \in [Devices -> Int] /\ FireTimes \subseteq Int /\ MaxTime \in Nat
ASSUME FaultAssumption ==
  /\ Faults \subseteq {"crash", "timeout", "late", "dberror", "save"}
  /\ MaxFaults \in Nat

List == [Ids -> Maybe(Local)]
Rows == [Ids -> Maybe(Row)]
Nothing == [i \in Ids |-> NoRow]

ASSUME LegacyAssumption ==
  /\ LegacyRows \in [Devices -> List]
  /\ \A d \in Devices, i \in Ids :
       LegacyRows[d][i] # NoRow =>
         LegacyRows[d][i].status = "pending" /\ LegacyRows[d][i].row.updated_at = 1 + Skew[d]

VARIABLES
  now,      \* the API's clock
  table,    \* the reminders table: id -> owner and row
  created,  \* the reminders created so far (history)
  used,     \* the ids generated so far (history)
  cred,     \* credentials.json of each device: the account
  mem,      \* g_reminders
  disk,     \* reminders_v2.json
  cursor,   \* last_sync_at of sync_state.json
  phase,    \* what the daemon is doing
  req,      \* its request to POST /v1/sync
  resp,     \* the answer on its way back
  late,     \* a request the daemon gave up on and the API has yet to serve
  faults    \* failures so far

vars == <<now, table, created, used, cred, mem, disk, cursor, phase, req, resp,
          late, faults>>

-----------------------------------------------------------------------------
Stored == [owner: Users, row: Row]

Request ==
  [user: Users, since: Int, at: Int, rows: Rows, retried: BOOLEAN]

ASSUME NoReqAssumption == NoReq \notin Request
ASSUME NoStoredAssumption == NoRow \notin Stored

Response ==
  [status: {0, 200, 400, 409, 500}, lastSync: Int, conflicts: Rows, changes: Rows]

Failed(status) ==
  [status |-> status, lastSync |-> 0, conflicts |-> Nothing, changes |-> Nothing]

NoAnswer == Failed(0)

(* Ids that are no UUID: those a v1 store brought along.                   *)
LegacyIds == {i \in Ids : \E d \in Devices : LegacyRows[d][i] # NoRow}

Fresh == Ids \ (used \cup LegacyIds)

DevNow(d) == now + Skew[d]

Unsynced(list) == {i \in Ids : list[i] # NoRow /\ list[i].status # "synced"}

Outgoing(list) ==
  [i \in Ids |-> IF i \in Unsynced(list) THEN list[i].row ELSE NoRow]

RenameAsSynced(list, g, t) ==
  [i \in Ids |->
     IF i \in DOMAIN g THEN Synced([list[g[i]].row EXCEPT !.updated_at = t])
     ELSE IF \E j \in DOMAIN g : g[j] = i THEN NoRow
     ELSE list[i]]

(* Give the rows with ids S new ids: g maps each new id to the old one.    *)
Renamings(S) == UNION {Bijection(T, S) : T \in SUBSET Fresh}

Rename(list, g, t) ==
  [i \in Ids |->
     IF i \in DOMAIN g THEN [list[g[i]] EXCEPT !.row.updated_at = t]
     ELSE IF \E j \in DOMAIN g : g[j] = i THEN NoRow
     ELSE list[i]]

Fail(kind) ==
  /\ kind \in Faults
  /\ faults < MaxFaults
  /\ faults' = faults + 1

(* save_reminders: the file is written, cannot be opened, or is left       *)
(* truncated by a failed write, which the next start reads as an empty     *)
(* store.  No caller looks at the result.                                  *)
Save(d, list) ==
  \/ disk' = [disk EXCEPT ![d] = list] /\ UNCHANGED faults
  \/ Fail("save") /\ \E old \in {disk[d], Nothing} : disk' = [disk EXCEPT ![d] = old]

-----------------------------------------------------------------------------
Init ==
  /\ now = 1
  /\ table = Nothing
  /\ created = {LegacyRows[x[1]][x[2]].row.message :
                  x \in {y \in Devices \X Ids : LegacyRows[y[1]][y[2]] # NoRow}}
  /\ used = {}
  /\ cred = [d \in Devices |-> NoUser]
  /\ mem = LegacyRows
  /\ disk = LegacyRows
  /\ cursor = [d \in Devices |-> 0]
  /\ phase = [d \in Devices |-> "idle"]
  /\ req = [d \in Devices |-> NoReq]
  /\ resp = [d \in Devices |-> NoAnswer]
  /\ late = [d \in Devices |-> NoReq]
  /\ faults = 0

-----------------------------------------------------------------------------
(* The daemon between sync rounds.                                         *)

LocalChange(d, list) ==
  /\ phase[d] = "idle"
  /\ mem' = [mem EXCEPT ![d] = list]
  /\ Save(d, list)
  /\ UNCHANGED <<now, table, cred, cursor, phase, req, resp, late>>

Add(d, i, m, f) ==
  /\ i \in Fresh
  /\ m \notin created
  /\ LocalChange(d, [mem[d] EXCEPT ![i] = Pending(NewRow(m, f, DevNow(d)))])
  /\ used' = used \cup {i}
  /\ created' = created \cup {m}

Delete(d, i) ==
  /\ mem[d][i] # NoRow
  /\ ~mem[d][i].row.deleted
  /\ LocalChange(d, [mem[d] EXCEPT ![i] = Pending(Tombstone(@.row, DevNow(d)))])
  /\ UNCHANGED <<used, created>>

Due(d, i) ==
  /\ mem[d][i] # NoRow
  /\ ~mem[d][i].row.deleted
  /\ mem[d][i].row.fire_at <= DevNow(d)

CheckTimers(d) ==
  /\ \E i \in Ids : Due(d, i)
  /\ LocalChange(d, [i \in Ids |-> IF Due(d, i)
                                   THEN Pending(Fire(mem[d][i].row, DevNow(d)))
                                   ELSE mem[d][i]])
  /\ UNCHANGED <<used, created>>

-----------------------------------------------------------------------------
(* A sync round, from the sync thread or a SYNC command.                   *)

(* The request leaves.  Unsent rows with a v1 id get a UUID on the way, in *)
(* memory only.                                                            *)
SyncBegin(d) ==
  /\ phase[d] = "idle"
  /\ cred[d] # NoUser
  /\ \E g \in Renamings(Unsynced(mem[d]) \cap LegacyIds) :
       LET list == Rename(mem[d], g, DevNow(d))
       IN  /\ mem' = [mem EXCEPT ![d] = list]
           /\ req' = [req EXCEPT ![d] =
                [user |-> cred[d], since |-> cursor[d], at |-> DevNow(d),
                 rows |-> Outgoing(list), retried |-> FALSE]]
           /\ used' = used \cup DOMAIN g
  /\ phase' = [phase EXCEPT ![d] = "sent"]
  /\ UNCHANGED <<now, table, created, cred, disk, cursor, resp, late, faults>>

OwnedByAnyone(tbl, u, i) == IF tbl[i] # NoRow THEN tbl[i].row ELSE NoRow

(* The row of account u under id i, the only kind the API's SELECT finds.  *)
Owned(tbl, u, i) ==
  IF tbl[i] # NoRow /\ tbl[i].owner = u THEN tbl[i].row ELSE NoRow

Outcome(q, i) == MergeOne(q.rows[i], Owned(table, q.user, i), now)

WritesInsertsOnly(q, i) == q.rows[i] # NoRow /\ Outcome(q, i) = "insert"

Writes(q, i) == q.rows[i] # NoRow /\ Outcome(q, i) \in {"insert", "update"}

(* What the API's validation turns down.                                   *)
Invalid(q) ==
  \E i \in Ids : /\ q.rows[i] # NoRow
                 /\ \/ i \in LegacyIds
                    \/ ~q.rows[i].deleted /\ q.rows[i].message \in Refused

Inserts(q, i) == q.rows[i] # NoRow /\ Outcome(q, i) = "insert"

(* reminders.id is the primary key of all accounts' rows together.         *)
Taken(q) == \E i \in Ids : Inserts(q, i) /\ table[i] # NoRow

Written(q) ==
  [i \in Ids |-> IF Writes(q, i) THEN [owner |-> q.user, row |-> q.rows[i]]
                 ELSE table[i]]

Answer(q) ==
  [status |-> 200,
   lastSync |-> now,
   conflicts |->
     [i \in Ids |-> IF q.rows[i] # NoRow /\ Outcome(q, i) = "conflict"
                    THEN ConflictRow(q.rows[i], Owned(table, q.user, i))
                    ELSE NoRow],
   changes |->
     [i \in Ids |-> LET r == Owned(Written(q), q.user, i)
                    IN  IF r # NoRow /\ r.updated_at > q.since THEN r ELSE NoRow]]

(* The handler of POST /v1/sync on request q: one bad row, or one id of    *)
(* another account, refuses the request as a whole.                        *)
Verdict(q) ==
  IF Invalid(q) THEN Failed(400)
  ELSE IF Taken(q) THEN Failed(409)
  ELSE Answer(q)

After(q) == IF Invalid(q) \/ Taken(q) THEN table ELSE Written(q)

Answered(d, a) ==
  /\ phase[d] = "sent"
  /\ phase' = [phase EXCEPT ![d] = "answered"]
  /\ resp' = [resp EXCEPT ![d] = a]
  /\ UNCHANGED <<now, created, used, cred, mem, disk, cursor, req, late>>

ServerSync(d) ==
  /\ Answered(d, Verdict(req[d]))
  /\ table' = After(req[d])
  /\ UNCHANGED faults

(* Any other error of the database is a 500.  It rolls back, except that a *)
(* COMMIT whose own answer is lost has been applied.                       *)
ServerError(d) ==
  /\ Answered(d, Failed(500))
  /\ ~Invalid(req[d])
  /\ Fail("dberror")
  /\ UNCHANGED table \/ table' = After(req[d])

(* The request of a new round overtakes one the daemon gave up on, which   *)
(* is still in service: neither sees a row under the id, and the second    *)
(* INSERT waits for the first one's COMMIT and is answered 409.            *)
ServerOverlap(d) ==
  /\ phase[d] = "sent"
  /\ late[d] # NoReq
  /\ ~Invalid(req[d]) /\ ~Invalid(late[d]) /\ ~Taken(late[d])
  /\ \E i \in Ids : Inserts(req[d], i) /\ Inserts(late[d], i)
  /\ phase' = [phase EXCEPT ![d] = "answered"]
  /\ resp' = [resp EXCEPT ![d] = Failed(409)]
  /\ table' = After(late[d])
  /\ late' = [late EXCEPT ![d] = NoReq]
  /\ UNCHANGED <<now, created, used, cred, mem, disk, cursor, req, faults>>

FinishHoldingMutex(d) ==
  /\ req' = [req EXCEPT ![d] = NoReq]
  /\ resp' = [resp EXCEPT ![d] = NoAnswer]
  /\ UNCHANGED phase

(* The round ends; the mutex is released.                                  *)
Finish(d) ==
  /\ phase' = [phase EXCEPT ![d] = "idle"]
  /\ req' = [req EXCEPT ![d] = NoReq]
  /\ resp' = [resp EXCEPT ![d] = NoAnswer]

(* 200: merge, then last_sync_at is saved, then the list.  The first save  *)
(* can fail like the second: sync_state.json is left as it was, or         *)
(* truncated, which reads as a state that has never synced.                *)
ReceiveOk(d) ==
  /\ phase[d] = "answered"
  /\ resp[d].status = 200
  /\ LET a == resp[d]
         list == [i \in Ids |-> MergeAnswer(mem[d][i], req[d].rows[i],
                                            a.conflicts[i], a.changes[i])]
     IN  /\ mem' = [mem EXCEPT ![d] = list]
         /\ \/ cursor' = [cursor EXCEPT ![d] = a.lastSync] /\ Save(d, list)
            \/ /\ Fail("save")
               /\ \E c \in {cursor[d], 0} : cursor' = [cursor EXCEPT ![d] = c]
               /\ disk' = [disk EXCEPT ![d] = list]
  /\ Finish(d)
  /\ UNCHANGED <<now, table, created, used, cred, late>>

Retryable(d) == resp[d].status \in {409, 500} /\ ~req[d].retried

(* 409 or 500: every unsent row gets a new id, and the round tries again,  *)
(* with the credentials of that moment.  Without any, the API refuses it.  *)
ReceiveRetry(d) ==
  /\ phase[d] = "answered"
  /\ Retryable(d)
  /\ \E g \in Renamings(Unsynced(mem[d])) :
       LET list == Rename(mem[d], g, req[d].at)
       IN  /\ mem' = [mem EXCEPT ![d] = list]
           /\ used' = used \cup DOMAIN g
           /\ \/ /\ cred[d] = NoUser
                 /\ Finish(d)
              \/ /\ cred[d] # NoUser
                 /\ phase' = [phase EXCEPT ![d] = "sent"]
                 /\ req' = [req EXCEPT ![d].user = cred[d],
                                       ![d].rows = Outgoing(list),
                                       ![d].retried = TRUE]
                 /\ resp' = [resp EXCEPT ![d] = NoAnswer]
  /\ UNCHANGED <<now, table, created, cred, disk, cursor, late, faults>>

(* Any other answer ends the round, and nothing is saved.                  *)
ReceiveFail(d) ==
  /\ phase[d] = "answered"
  /\ resp[d].status # 200
  /\ ~Retryable(d)
  /\ Finish(d)
  /\ UNCHANGED <<now, table, created, used, cred, mem, disk, cursor, late, faults>>

(* curl gives up, or the connection breaks: the request is lost, or the    *)
(* answer is, or the API will serve the request after all.                 *)
Timeout(d) ==
  /\ phase[d] \in {"sent", "answered"}
  /\ \/ Fail("timeout") /\ UNCHANGED late
     \/ /\ Fail("late")
        /\ phase[d] = "sent"
        /\ late[d] = NoReq
        /\ late' = [late EXCEPT ![d] = req[d]]
  /\ Finish(d)
  /\ UNCHANGED <<now, table, created, used, cred, mem, disk, cursor>>

ServerLate(d) ==
  /\ late[d] # NoReq
  /\ table' = After(late[d])
  /\ late' = [late EXCEPT ![d] = NoReq]
  /\ UNCHANGED <<now, created, used, cred, mem, disk, cursor, phase, req, resp, faults>>

-----------------------------------------------------------------------------
(* What a crash can leave on disk: the files as they were; a store cut off *)
(* in the middle of a save, which the next start reads as empty; and when  *)
(* it comes while an answer is merged, the new last_sync_at, or a          *)
(* truncated sync_state.json, beside the old store or a truncated one.     *)
Merging(d) == phase[d] = "answered" /\ resp[d].status = 200

CrashLeaves(d) ==
  {<<disk[d], cursor[d]>>}
    \cup (IF phase[d] = "idle" THEN {<<Nothing, cursor[d]>>} ELSE {})
    \cup (IF Merging(d)
          THEN {<<disk[d], 0>>, <<disk[d], resp[d].lastSync>>,
                <<Nothing, resp[d].lastSync>>}
          ELSE {})

Crash(d) ==
  /\ phase[d] # "down"
  /\ Fail("crash")
  /\ \E left \in CrashLeaves(d) :
       /\ disk' = [disk EXCEPT ![d] = left[1]]
       /\ cursor' = [cursor EXCEPT ![d] = left[2]]
  /\ \/ UNCHANGED late
     \/ /\ phase[d] = "sent"
        /\ late[d] = NoReq
        /\ late' = [late EXCEPT ![d] = req[d]]
  /\ mem' = [mem EXCEPT ![d] = Nothing]
  /\ phase' = [phase EXCEPT ![d] = "down"]
  /\ req' = [req EXCEPT ![d] = NoReq]
  /\ resp' = [resp EXCEPT ![d] = NoAnswer]
  /\ UNCHANGED <<now, table, created, used, cred>>

Restart(d) ==
  /\ phase[d] = "down"
  /\ mem' = [mem EXCEPT ![d] = disk[d]]
  /\ phase' = [phase EXCEPT ![d] = "idle"]
  /\ UNCHANGED <<now, table, created, used, cred, disk, cursor, req, resp, late, faults>>

(* `remind login` and `remind logout` write credentials.json and nothing   *)
(* else.                                                                   *)
Login(d, u) ==
  /\ cred[d] # u
  /\ cred' = [cred EXCEPT ![d] = u]
  /\ UNCHANGED <<now, table, created, used, mem, disk, cursor, phase, req, resp, late, faults>>

Logout(d) ==
  /\ cred[d] # NoUser
  /\ cred' = [cred EXCEPT ![d] = NoUser]
  /\ UNCHANGED <<now, table, created, used, mem, disk, cursor, phase, req, resp, late, faults>>

-----------------------------------------------------------------------------
(* The web app, through the API.                                           *)

(* The INSERT fails on an id the table has.                                *)
WebCreate(u, i, m, f) ==
  /\ i \in Fresh
  /\ table[i] = NoRow
  /\ m \notin created \cup Refused
  /\ table' = [table EXCEPT ![i] = [owner |-> u, row |-> NewRow(m, f, now)]]
  /\ used' = used \cup {i}
  /\ created' = created \cup {m}
  /\ UNCHANGED <<now, cred, mem, disk, cursor, phase, req, resp, late, faults>>

WebDelete(u, i) ==
  /\ Owned(table, u, i) # NoRow
  /\ ~table[i].row.deleted
  /\ table' = [table EXCEPT ![i].row = Tombstone(@, now)]
  /\ UNCHANGED <<now, created, used, cred, mem, disk, cursor, phase, req, resp, late, faults>>

Tick ==
  /\ now < MaxTime
  /\ now' = now + 1
  /\ UNCHANGED <<table, created, used, cred, mem, disk, cursor, phase, req, resp, late, faults>>

-----------------------------------------------------------------------------
Daemon(d) ==
  \/ \E i \in Ids, m \in Messages, f \in FireTimes : Add(d, i, m, f)
  \/ \E i \in Ids : Delete(d, i)
  \/ CheckTimers(d)
  \/ SyncBegin(d)
  \/ ReceiveOk(d)
  \/ ReceiveRetry(d)
  \/ ReceiveFail(d)
  \/ Timeout(d)
  \/ Crash(d)
  \/ Restart(d)

Api(d) == ServerSync(d) \/ ServerError(d) \/ ServerOverlap(d) \/ ServerLate(d)

User(d) == Logout(d) \/ \E u \in Users : Login(d, u)

Web(u) ==
  \/ \E i \in Ids, m \in Messages, f \in FireTimes : WebCreate(u, i, m, f)
  \/ \E i \in Ids : WebDelete(u, i)

Next ==
  \/ \E d \in Devices : Daemon(d) \/ Api(d) \/ User(d)
  \/ \E u \in WebUsers : Web(u)
  \/ Tick

Spec == Init /\ [][Next]_vars

(***************************************************************************)
(* Fairness.  sync_thread_fn starts a round every 60 seconds at the        *)
(* latest, the API answers what reaches it, and http_request returns.      *)
(* Nothing is assumed of people, of timers or of the clock.                *)
(***************************************************************************)
Receive(d) == ReceiveOk(d) \/ ReceiveRetry(d) \/ ReceiveFail(d)

Fairness ==
  \A d \in Devices : /\ WF_vars(SyncBegin(d))
                     /\ WF_vars(ServerSync(d))
                     /\ WF_vars(Receive(d))

FairSpec == Spec /\ Fairness

-----------------------------------------------------------------------------
(* Every variable keeps to its type, and a round in flight has its request. *)
TypeOK ==
  /\ now \in Nat
  /\ table \in [Ids -> Maybe(Stored)]
  /\ created \subseteq Messages
  /\ used \subseteq Ids
  /\ cred \in [Devices -> Users \cup {NoUser}]
  /\ mem \in [Devices -> List]
  /\ disk \in [Devices -> List]
  /\ cursor \in [Devices -> Int]
  /\ phase \in [Devices -> {"idle", "sent", "answered", "down"}]
  /\ req \in [Devices -> Request \cup {NoReq}]
  /\ resp \in [Devices -> Response]
  /\ late \in [Devices -> Request \cup {NoReq}]
  /\ faults \in Nat
  /\ \A d \in Devices : phase[d] \in {"sent", "answered"} => req[d] # NoReq

(***************************************************************************)
(* Safety.                                                                 *)
(***************************************************************************)

(* What the API holds under an id is at least as new as row r.             *)
Holds(i, r) == table[i] # NoRow /\ table[i].row.updated_at >= r.updated_at

(* A row a daemon counts as synced, in memory or in the file it would      *)
(* restart from, is on the server, no older: whatever requests, answers    *)
(* and saves were lost, no edit is marked as delivered that was not.       *)
AckedOnServer ==
  \A d \in Devices, i \in Ids : \A l \in {mem[d][i], disk[d][i]} :
    l # NoRow /\ l.status = "synced" => Holds(i, l.row)

(* MergeOne lets no clock, however wrong, stamp a row further ahead than   *)
(* ClockSkewSec: else no other device could ever change it again.          *)
NoFarFuture ==
  \A i \in Ids :
    table[i] # NoRow => table[i].row.updated_at <= now + ClockSkewSec

(* The daemon has the server's version of a reminder, or a newer one.      *)
Knows(d, i) ==
  /\ table[i] # NoRow /\ mem[d][i] # NoRow
  /\ mem[d][i].row.updated_at >= table[i].row.updated_at

(* last_sync_at is a promise: every row of the account stamped before it   *)
(* has reached the daemon, since the API will not send those again.        *)
CursorBacked ==
  \A d \in Devices, i \in Ids :
    /\ phase[d] = "idle"
    /\ cred[d] # NoUser
    /\ Owned(table, cred[d], i) # NoRow
    /\ table[i].row.updated_at < cursor[d]
    => Knows(d, i)

(***************************************************************************)
(* AckedOnServer is not inductive: it holds because of what is in flight.  *)
(* With no device ahead of the API, every stamp anywhere lies in the past; *)
(* a request carries what the list still has pending; and an answer speaks *)
(* of rows the table has, which it only ever replaces by newer ones.       *)
(***************************************************************************)
NoClockAhead == \A d \in Devices : Skew[d] <= 0

Past(r) == r.updated_at <= now

RequestPast(q) ==
  /\ q.at <= now
  /\ \A i \in Ids : q.rows[i] # NoRow => Past(q.rows[i])

StampsPast ==
  /\ \A i \in Ids : table[i] # NoRow => Past(table[i].row)
  /\ \A d \in Devices, i \in Ids : mem[d][i] # NoRow => Past(mem[d][i].row)
  /\ \A d \in Devices, i \in Ids : disk[d][i] # NoRow => Past(disk[d][i].row)
  /\ \A d \in Devices : req[d] # NoReq => RequestPast(req[d])
  /\ \A d \in Devices : late[d] # NoReq => RequestPast(late[d])
  /\ \A d \in Devices, i \in Ids :
       resp[d].conflicts[i] # NoRow => Past(resp[d].conflicts[i])
  /\ \A d \in Devices, i \in Ids :
       resp[d].changes[i] # NoRow => Past(resp[d].changes[i])

RequestIsPending ==
  \A d \in Devices :
    phase[d] \in {"sent", "answered"} => req[d].rows = Outgoing(mem[d])

AnswerIsDurable ==
  \A d \in Devices, i \in Ids : Merging(d) =>
    /\ resp[d].changes[i] # NoRow => Holds(i, resp[d].changes[i])
    /\ req[d].rows[i] # NoRow /\ resp[d].conflicts[i] = NoRow
         => Holds(i, req[d].rows[i])

SyncInv ==
  /\ TypeOK
  /\ StampsPast
  /\ RequestIsPending
  /\ AnswerIsDurable
  /\ AckedOnServer

(***************************************************************************)
(* What no step may do.                                                    *)
(***************************************************************************)

(* A row is never dropped and never passes to another account, whatever    *)
(* ids a device sends after its owner changed.                             *)
AccountsKeepRows ==
  [][\A i \in Ids : table[i] # NoRow =>
       table'[i] # NoRow /\ table'[i].owner = table[i].owner]_vars

(* A row of the table is never replaced by an older version, however late  *)
(* the request that writes it.                                             *)
StampsGrow ==
  [][\A i \in Ids : table[i] # NoRow /\ table'[i] # NoRow =>
       table'[i].row.updated_at >= table[i].row.updated_at]_vars

(* A daemon that keeps running never replaces a row by an older version:   *)
(* an answer computed before an edit elsewhere does not undo what is here. *)
LocalNeverRegresses ==
  [][\A d \in Devices, i \in Ids :
       mem[d][i] # NoRow /\ mem'[d][i] # NoRow =>
         mem'[d][i].row.updated_at >= mem[d][i].row.updated_at]_vars

(* Once the server has a one-off reminder as deleted, no request brings it *)
(* back: not a retry of the round that created it, not an older edit.      *)
OneOffTombstonesStick ==
  [][\A i \in Ids :
       table[i] # NoRow /\ table[i].row.deleted
         /\ Period[table[i].row.message] = 0
       => table'[i].row.deleted]_vars

(* Once a daemon has a one-off reminder as deleted, no answer of the API   *)
(* brings it back: neither a conflict nor a change.                        *)
LocalTombstonesStick ==
  [][\A d \in Devices, i \in Ids :
       mem[d][i] # NoRow /\ mem'[d][i] # NoRow
         /\ mem[d][i].row.deleted /\ Period[mem[d][i].row.message] = 0
       => mem'[d][i].row.deleted]_vars

(* However often rounds fail and ids are exchanged for fresh ones, an edit *)
(* a running daemon has yet to deliver stays in its list, under its id in  *)
(* that or a later version, or unchanged under a new id, until the account *)
(* of the round has it, or a newer one, on the server.                     *)
StillPending(d, i) ==
  /\ i \in Unsynced(mem'[d])
  /\ mem'[d][i].row.updated_at >= mem[d][i].row.updated_at

Renamed(d, i) ==
  \E j \in Unsynced(mem'[d]) \ Unsynced(mem[d]) :
    mem'[d][j] = [mem[d][i] EXCEPT !.row.updated_at = mem'[d][j].row.updated_at]

Delivered(d, i) ==
  /\ phase[d] = "answered"
  /\ table'[i] # NoRow
  /\ table'[i].owner = req[d].user
  /\ table'[i].row.message = mem[d][i].row.message
  /\ table'[i].row.updated_at >= mem[d][i].row.updated_at

NoEditDropped ==
  [][\A d \in Devices : phase'[d] # "down" =>
       \A i \in Unsynced(mem[d]) :
         StillPending(d, i) \/ Renamed(d, i) \/ Delivered(d, i)]_vars

(* A deletion on the server is final for recurring reminders too.          *)
TombstonesStick ==
  [][\A i \in Ids :
       table[i] # NoRow /\ table[i].row.deleted => table'[i].row.deleted]_vars

(***************************************************************************)
(* Together: the table is a last-write-wins store, and a device's memory   *)
(* and its file are two replicas of it, of which the synced rows matter.   *)
(***************************************************************************)
SyncedStamps(list) ==
  [i \in Ids |-> IF list[i] # NoRow /\ list[i].status = "synced"
                 THEN list[i].row.updated_at ELSE NoRow]

Lww == INSTANCE LwwStore WITH
  Keys <- Ids,
  Replicas <- Devices \X {"mem", "disk"},
  None <- NoRow,
  store <- table,
  delivered <- [x \in Devices \X {"mem", "disk"} |->
                  SyncedStamps(IF x[2] = "mem" THEN mem[x[1]] ELSE disk[x[1]])]

(* Sync rounds, retries, crashes and all, Remindr implements that store.   *)
ImplementsLwwStore == Lww!Spec

(***************************************************************************)
(* Liveness.                                                               *)
(***************************************************************************)

(* The API validates a request as a whole: beside a live reminder it turns *)
(* down, it takes nothing and sends nothing.                               *)
Acceptable(r) == r.deleted \/ r.message \notin Refused

Blocked(d) == \E i \in Unsynced(mem[d]) : ~Acceptable(mem[d][i].row)

Waiting(d, m) ==
  \E i \in Unsynced(mem[d]) : mem[d][i].row.message = m /\ Acceptable(mem[d][i].row)

(* What a daemon has yet to deliver, and the API accepts, is delivered if  *)
(* the device stays logged in, unless a reminder the API refuses waits     *)
(* beside it; once that is deleted, or has fired for good, it is delivered *)
(* itself and a hindrance no more.                                         *)
PendingDrains ==
  \A d \in Devices, m \in Messages :
    Waiting(d, m) /\ cred[d] # NoUser
      ~> ~Waiting(d, m) \/ Blocked(d) \/ cred[d] = NoUser

(* A version that is newer than last_sync_at while the daemon is between   *)
(* rounds reaches it, or is overtaken by a newer one that does, with the   *)
(* same exception.                                                         *)
FreshRowsArrive ==
  \A d \in Devices, u \in Users, i \in Ids, t \in 1 .. MaxTime :
    /\ phase[d] = "idle" /\ cred[d] = u
    /\ Owned(table, u, i) # NoRow
    /\ t = table[i].row.updated_at /\ t > cursor[d]
    ~> \/ cred[d] # u
       \/ Blocked(d)
       \/ mem[d][i] # NoRow /\ mem[d][i].row.updated_at >= t
=============================================================================
