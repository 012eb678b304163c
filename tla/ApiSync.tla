------------------------------- MODULE ApiSync -------------------------------
(***************************************************************************)
(* POST /v1/sync under concurrency: what RemindrSync serves in one step,   *)
(* taken apart into the statements of its transaction.                     *)
(*                                                                         *)
(* Every request has a goroutine and a pooled connection of its own (a     *)
(* session).  The database runs at its default, READ COMMITTED: a SELECT   *)
(* sees what is committed when it runs and what the transaction itself     *)
(* wrote; an INSERT or UPDATE waits for any other transaction that has     *)
(* written the row, and then goes by what that one left; a cycle of waits  *)
(* is broken by failing one of them.  DELETE /v1/reminders/{id} is an      *)
(* UPDATE on its own, with a time read before it, and a SELECT if that     *)
(* changed no row.                                                         *)
(*                                                                         *)
(* Requests here have passed validation, and POST /v1/reminders is left    *)
(* out: an INSERT under an id just drawn waits for nobody.                 *)
(***************************************************************************)
EXTENDS Reminder, FiniteSets, Sequences

CONSTANTS
  Sessions,   \* BOUND: requests in service at a time
  Users,      \* accounts
  NoUser,     \* whom a free session serves
  Ids,        \* reminder ids
  Changes,    \* per account, what its devices push: records of an id and a row
  Cursors,    \* the values of last_sync_at requests carry
  MaxTime,    \* BOUND: the last second of the clock
  MaxErrors   \* BOUND: database errors in a behaviour

Change == [id: Ids, row: Row]

ASSUME ChangesAssumption == Changes \in [Users -> SUBSET Change]
ASSUME UsersAssumption == NoUser \notin Users
ASSUME CursorsAssumption == Cursors \subseteq Nat
ASSUME BoundsAssumption == MaxTime \in Nat /\ MaxErrors \in Nat

Stored == [owner: Users, row: Row]
Table == [Ids -> Maybe(Stored)]
Nothing == [i \in Ids |-> NoRow]

ASSUME NoStoredAssumption == NoRow \notin Stored

VARIABLES
  now,       \* the API's clock
  table,     \* what is committed
  versions,  \* every row that ever was (history)
  pc,        \* where each session's handler is
  user,      \* whose request it serves
  since,     \* its last_sync_at
  at,        \* the time it read
  todo,      \* the changes it still has to merge
  plan,      \* what MergeOne said of the next one
  writes,    \* its uncommitted rows, which others wait for
  changes,   \* what its pull found
  status,    \* its HTTP status, 0 until it has one
  errors     \* database errors so far

vars == <<now, table, versions, pc, user, since, at, todo, plan, writes,
          changes, status, errors>>

request == <<user, since, at>>

-----------------------------------------------------------------------------
Overlay(below, above) ==
  [i \in Ids |-> IF above[i] # NoRow THEN above[i] ELSE below[i]]

(* The rows a statement of session s finds.                                *)
Visible(s) == Overlay(table, writes[s])

OwnRow(tbl, u, i) ==
  IF tbl[i] # NoRow /\ tbl[i].owner = u THEN tbl[i].row ELSE NoRow

(* The sessions that hold row i against s, and those s is waiting for.     *)
Holders(s, i) == {x \in Sessions \ {s} : writes[x][i] # NoRow}

(* The WHERE clause of a deletion, on what is committed.                   *)
Deletable(s) ==
  LET r == OwnRow(table, user[s], Head(todo[s]).id) IN r # NoRow /\ ~r.deleted

Waits(s) ==
  IF pc[s] = "write" \/ (pc[s] = "delete" /\ Deletable(s))
  THEN Holders(s, Head(todo[s]).id)
  ELSE {}

Deadlocked(s) ==
  \E S \in SUBSET Sessions :
    /\ s \in S
    /\ \A x \in S : Waits(x) \cap S # {} /\ \E y \in S : x \in Waits(y)

OnceMore(rest) == "select"

(* The loop over the changes, then the pull.                               *)
NextStatement(rest) == IF rest = <<>> THEN "pull" ELSE "select"

Install(tbl) ==
  /\ table' = tbl
  /\ versions' = versions \cup {<<i, tbl[i]>> : i \in {j \in Ids : tbl[j] # NoRow}}

Init ==
  /\ now = 1
  /\ table = Nothing
  /\ versions = {}
  /\ pc = [s \in Sessions |-> "free"]
  /\ user = [s \in Sessions |-> NoUser]
  /\ since = [s \in Sessions |-> 0]
  /\ at = [s \in Sessions |-> 0]
  /\ todo = [s \in Sessions |-> <<>>]
  /\ plan = [s \in Sessions |-> "noop"]
  /\ writes = [s \in Sessions |-> Nothing]
  /\ changes = [s \in Sessions |-> Nothing]
  /\ status = [s \in Sessions |-> 0]
  /\ errors = 0

-----------------------------------------------------------------------------
(* One sync request.                                                       *)

(* At most two changes; a daemon's list has each id once.                  *)
Pushes(u) ==
  {<<>>} \cup {<<c>> : c \in Changes[u]}
         \cup {p \in Changes[u] \X Changes[u] : p[1].id # p[2].id}

Begin(s, u, t, push) ==
  /\ pc[s] = "free"
  /\ pc' = [pc EXCEPT ![s] = NextStatement(push)]
  /\ user' = [user EXCEPT ![s] = u]
  /\ since' = [since EXCEPT ![s] = t]
  /\ at' = [at EXCEPT ![s] = now]
  /\ todo' = [todo EXCEPT ![s] = push]
  /\ UNCHANGED <<now, table, versions, plan, writes, changes, status, errors>>

Advance(s) ==
  /\ todo' = [todo EXCEPT ![s] = Tail(@)]
  /\ pc' = [pc EXCEPT ![s] = NextStatement(Tail(todo[s]))]

Select(s) ==
  /\ pc[s] = "select"
  /\ LET c == Head(todo[s])
         outcome == MergeOne(c.row, OwnRow(Visible(s), user[s], c.id), at[s])
     IN  /\ plan' = [plan EXCEPT ![s] = outcome]
         /\ IF outcome \in {"insert", "update"}
            THEN pc' = [pc EXCEPT ![s] = "write"] /\ UNCHANGED todo
            ELSE Advance(s)
  /\ UNCHANGED <<now, table, versions, request, writes, changes, status, errors>>

Close(s, code) ==
  /\ pc' = [pc EXCEPT ![s] = "done"]
  /\ status' = [status EXCEPT ![s] = code]
  /\ todo' = [todo EXCEPT ![s] = <<>>]
  /\ plan' = [plan EXCEPT ![s] = "noop"]

CloseKeepingLocks(s, code) == Close(s, code) /\ UNCHANGED writes

(* An error answer; the deferred Rollback gives the rows back.             *)
Refuse(s, code) ==
  /\ Close(s, code)
  /\ writes' = [writes EXCEPT ![s] = Nothing]

Write(s, i) ==
  /\ writes' = [writes EXCEPT ![s][i] = [owner |-> user[s], row |-> Head(todo[s]).row]]
  /\ Advance(s)
  /\ UNCHANGED <<plan, status>>

Turn(s, p) ==
  /\ pc[s] = "write"
  /\ plan[s] = p
  /\ Waits(s) = {}
  /\ UNCHANGED <<now, table, versions, request, changes, errors>>

InsertOrReplace(s) ==
  /\ Turn(s, "insert")
  /\ Write(s, Head(todo[s]).id)

Insert(s) ==
  /\ Turn(s, "insert")
  /\ LET i == Head(todo[s]).id
     IN  IF table[i] # NoRow THEN Refuse(s, 409) ELSE Write(s, i)

(* The WHERE clause names the id and the account, not updated_at.          *)
Update(s) ==
  /\ Turn(s, "update")
  /\ Write(s, Head(todo[s]).id)

Pull(s) ==
  /\ pc[s] = "pull"
  /\ changes' = [changes EXCEPT ![s] =
       [i \in Ids |-> LET r == OwnRow(Visible(s), user[s], i)
                      IN  IF r # NoRow /\ r.updated_at > since[s] THEN r ELSE NoRow]]
  /\ pc' = [pc EXCEPT ![s] = "commit"]
  /\ UNCHANGED <<now, table, versions, request, todo, plan, writes, status, errors>>

Commit(s) ==
  /\ pc[s] = "commit"
  /\ Install(Visible(s))
  /\ Close(s, 200)
  /\ writes' = [writes EXCEPT ![s] = Nothing]
  /\ UNCHANGED <<now, request, changes, errors>>

Untold(s) == changes' = [changes EXCEPT ![s] = Nothing]

(* Any other failure of a statement, the request's cancellation included.  *)
(* A failed COMMIT may have been applied.                                  *)
ErrorAnsweredOk(s) ==
  /\ pc[s] \in {"select", "write", "pull", "commit"}
  /\ errors < MaxErrors
  /\ errors' = errors + 1
  /\ Refuse(s, IF pc[s] = "commit" THEN 200 ELSE 500)
  /\ UNCHANGED <<now, table, versions, request, changes>>

Error(s) ==
  /\ pc[s] \in {"select", "write", "pull", "commit"}
  /\ errors < MaxErrors
  /\ errors' = errors + 1
  /\ Refuse(s, 500)
  /\ Untold(s)
  /\ \/ UNCHANGED <<table, versions>>
     \/ pc[s] = "commit" /\ Install(Visible(s))
  /\ UNCHANGED <<now, request>>

(* The database fails one transaction of a cycle, which is a 500 too.      *)
DeadlockVictim(s) ==
  /\ Deadlocked(s)
  /\ Refuse(s, 500)
  /\ UNCHANGED <<now, table, versions, request, changes, errors>>

-----------------------------------------------------------------------------
(* One deletion on the web.                                                *)

DeleteBegin(s, u, i) ==
  /\ pc[s] = "free"
  /\ pc' = [pc EXCEPT ![s] = "delete"]
  /\ user' = [user EXCEPT ![s] = u]
  /\ at' = [at EXCEPT ![s] = now]
  /\ todo' = [todo EXCEPT ![s] = <<[id |-> i]>>]
  /\ UNCHANGED <<now, table, versions, since, plan, writes, changes, status, errors>>

Entomb(s) ==
  /\ Deletable(s)
  /\ Waits(s) = {}
  /\ Install([table EXCEPT ![Head(todo[s]).id].row = Tombstone(@, at[s])])

(* The UPDATE, alone in its transaction.  What has no row for it to change *)
(* is looked up again: already deleted is as good; not there, or another   *)
(* account's, is a 404.                                                    *)
DeleteRow(s) ==
  /\ pc[s] = "delete"
  /\ Waits(s) = {}
  /\ \/ Entomb(s) /\ Close(s, 204)
     \/ /\ ~Deletable(s)
        /\ pc' = [pc EXCEPT ![s] = "exists"]
        /\ UNCHANGED <<table, versions, todo, plan, status>>
  /\ UNCHANGED <<now, request, writes, changes, errors>>

SelectExists(s) ==
  /\ pc[s] = "exists"
  /\ Close(s, IF OwnRow(table, user[s], Head(todo[s]).id) = NoRow THEN 404 ELSE 204)
  /\ UNCHANGED <<now, table, versions, request, writes, changes, errors>>

(* An UPDATE that fails, or whose success is not heard of, is a 500; a     *)
(* SELECT that fails is a 404.                                             *)
DeleteError(s) ==
  /\ pc[s] \in {"delete", "exists"}
  /\ errors < MaxErrors
  /\ errors' = errors + 1
  /\ Close(s, IF pc[s] = "delete" THEN 500 ELSE 404)
  /\ \/ UNCHANGED <<table, versions>>
     \/ pc[s] = "delete" /\ Entomb(s)
  /\ UNCHANGED <<now, request, writes, changes>>

(* The answer leaves and the session is free for another request.          *)
Reply(s) ==
  /\ pc[s] = "done"
  /\ pc' = [pc EXCEPT ![s] = "free"]
  /\ status' = [status EXCEPT ![s] = 0]
  /\ user' = [user EXCEPT ![s] = NoUser]
  /\ since' = [since EXCEPT ![s] = 0]
  /\ at' = [at EXCEPT ![s] = 0]
  /\ Untold(s)
  /\ UNCHANGED <<now, table, versions, todo, plan, writes, errors>>

Tick ==
  /\ now < MaxTime
  /\ now' = now + 1
  /\ UNCHANGED <<table, versions, pc, request, todo, plan, writes, changes, status, errors>>

-----------------------------------------------------------------------------
Arrive(s) ==
  \E u \in Users :
    \/ \E t \in Cursors, push \in Pushes(u) : Begin(s, u, t, push)
    \/ \E i \in Ids : DeleteBegin(s, u, i)

Statement(s) == Select(s) \/ Pull(s) \/ Commit(s) \/ SelectExists(s) \/ Reply(s)

Locking(s) == Insert(s) \/ Update(s) \/ DeleteRow(s)

Next ==
  \/ \E s \in Sessions : \/ Arrive(s) \/ Statement(s) \/ Locking(s)
                         \/ Error(s) \/ DeleteError(s) \/ DeadlockVictim(s)
  \/ Tick

Spec == Init /\ [][Next]_vars

(***************************************************************************)
(* Handlers run to their end; the database queues those that wait for a    *)
(* row, so that none is overtaken for ever, and looks for cycles.          *)
(***************************************************************************)
Fairness ==
  \A s \in Sessions : /\ WF_vars(Statement(s))
                      /\ SF_vars(Locking(s))
                      /\ WF_vars(DeadlockVictim(s))

FairSpec == Spec /\ Fairness

-----------------------------------------------------------------------------
(* What the next statement of s works on, and for whom.                    *)
Ready(s) ==
  /\ pc[s] \in {"select", "write"} => todo[s] \in Seq(Change) \ {<<>>}
  /\ pc[s] \in {"delete", "exists"} => todo[s] \in Seq([id: Ids]) \ {<<>>}
  /\ pc[s] # "free" => user[s] \in Users

(* Every variable keeps to its type, and a statement has a row to work on. *)
TypeOK ==
  /\ now \in Nat
  /\ table \in Table
  /\ versions \subseteq Ids \X Stored
  /\ pc \in [Sessions -> {"free", "select", "write", "pull", "commit",
                         "delete", "exists", "done"}]
  /\ user \in [Sessions -> Users \cup {NoUser}]
  /\ since \in [Sessions -> Nat]
  /\ at \in [Sessions -> Nat]
  /\ todo \in [Sessions -> Seq(Change) \cup Seq([id: Ids])]
  /\ plan \in [Sessions -> {"insert", "update", "conflict", "noop"}]
  /\ writes \in [Sessions -> Table]
  /\ changes \in [Sessions -> [Ids -> Maybe(Row)]]
  /\ status \in [Sessions -> {0, 200, 204, 404, 409, 500}]
  /\ errors \in Nat
  /\ \A s \in Sessions : Ready(s)

(* No interleaving lets a row pass to another account: two accounts that   *)
(* push one id at once end with one 409, not with one row overwritten.     *)
OwnersKept ==
  [][\A i \in Ids : table[i] # NoRow =>
       table'[i] # NoRow /\ table'[i].owner = table[i].owner]_vars

(* A 200 tells only of rows that were committed, its own included: nothing *)
(* of a transaction that failed, or has yet to commit, reaches a device,   *)
(* where it would count as synced.                                         *)
AnswersAreCommitted ==
  \A s \in Sessions, i \in Ids :
    status[s] = 200 /\ changes[s][i] # NoRow =>
      <<i, [owner |-> user[s], row |-> changes[s][i]]>> \in versions

(***************************************************************************)
(* Why both hold: a row has one holder at a time, which serves the account *)
(* that has the row already or found it in nobody's hands; what an UPDATE  *)
(* is about to change was its own account's when it looked and is still;   *)
(* and a pull's rows are committed or about to be with it.                 *)
(***************************************************************************)
OneHolder ==
  \A s, x \in Sessions, i \in Ids :
    writes[s][i] # NoRow /\ writes[x][i] # NoRow => s = x

Ours(s, i) == table[i] # NoRow => table[i].owner = user[s]

HeldRowsAreOurs(s) ==
  /\ pc[s] \in {"free", "delete", "exists", "done"} => writes[s] = Nothing
  /\ \A i \in Ids : writes[s][i] # NoRow => writes[s][i].owner = user[s] /\ Ours(s, i)

UpdatesAreOurs(s) ==
  pc[s] = "write" /\ plan[s] = "update" =>
    LET i == Head(todo[s]).id IN Ours(s, i) /\ Visible(s)[i] # NoRow

PullIsBacked(s) ==
  /\ pc[s] \notin {"commit", "done"} => changes[s] = Nothing
  /\ status[s] # 0 => pc[s] = "done"
  /\ \A i \in Ids : changes[s][i] # NoRow =>
       LET r == [owner |-> user[s], row |-> changes[s][i]]
       IN  <<i, r>> \in versions \/ writes[s][i] = r

TableIsHistory == \A i \in Ids : table[i] # NoRow => <<i, table[i]>> \in versions

ApiInv ==
  /\ TypeOK
  /\ OneHolder
  /\ TableIsHistory
  /\ \A s \in Sessions : HeldRowsAreOurs(s) /\ UpdatesAreOurs(s) /\ PullIsBacked(s)

(* Last write wins: the commit of a sync never puts an older version of a  *)
(* row in the place of a newer one.                                        *)
NewestWins ==
  [][\A s \in Sessions, i \in Ids :
       pc[s] = "commit" /\ pc'[s] = "done" /\ table[i] # NoRow =>
         table'[i].row.updated_at >= table[i].row.updated_at]_vars

(* Every request is answered, whichever rows it shares with which others.  *)
EveryRequestAnswered ==
  \A s \in Sessions : []<>(pc[s] = "free")
=============================================================================
