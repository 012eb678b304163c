------------------------------ MODULE Reminder ------------------------------
(***************************************************************************)
(* The data every part of Remindr exchanges: a reminder row, the merge     *)
(* rule of the API, the rules by which a daemon folds an API answer into   *)
(* its local list, and what firing does to a row.  Pure operators only;    *)
(* the state machines that use them are RemindrSync and ApiSync.           *)
(*                                                                         *)
(* A row keeps the fields a property can tell apart.  The message stands   *)
(* for the reminder itself: the code never edits a message or a recurrence *)
(* once the reminder exists, so the recurrence is a function of it         *)
(* (Period), and two rows with one message are two copies of a reminder.   *)
(***************************************************************************)
EXTENDS Integers

CONSTANTS
  Messages,      \* the reminders that can be created
  Period,        \* seconds between two firings of a message, 0 for "none"
  ClockSkewSec,  \* how far ahead of the API's clock a change may be stamped
  NoRow          \* no such row

ASSUME PeriodAssumption == Period \in [Messages -> Nat]
ASSUME SkewAssumption == ClockSkewSec \in Nat

Row ==
  [message: Messages, fire_at: Int, fired: BOOLEAN, deleted: BOOLEAN,
   updated_at: Int]

ASSUME NoRowAssumption == NoRow \notin Row

NewRow(m, fire_at, t) ==
  [message |-> m, fire_at |-> fire_at, fired |-> FALSE, deleted |-> FALSE,
   updated_at |-> t]

Tombstone(r, t) == [r EXCEPT !.deleted = TRUE, !.updated_at = t]

(* A row in a daemon's list carries its sync_status as well.               *)
Status == {"pending", "synced", "conflict"}
Local == [row: Row, status: Status]
Maybe(S) == S \cup {NoRow}

ASSUME NoLocalAssumption == NoRow \notin Local

Pending(r) == [row |-> r, status |-> "pending"]
Synced(r)  == [row |-> r, status |-> "synced"]

(***************************************************************************)
(* The daemon's timer on one due row: a recurring reminder moves by ONE    *)
(* period whatever the delay, a one-off becomes a fired tombstone.         *)
(***************************************************************************)
Fire(r, t) ==
  IF Period[r.message] > 0
  THEN [r EXCEPT !.fire_at = @ + Period[r.message], !.updated_at = t]
  ELSE [r EXCEPT !.fired = TRUE, !.deleted = TRUE, !.updated_at = t]

(* How the merge below could go wrong: an older change applied, the two    *)
(* stamps compared the wrong way round, an insert that trusts the client's *)
(* clock.                                                                  *)
MergeOneIgnoringStamps(client, server, serverTime) ==
  CASE server = NoRow                           -> "insert"
    [] server # NoRow /\ client = server        -> "noop"
    [] OTHER                                    -> "update"

MergeOneReversed(client, server, serverTime) ==
  CASE server = NoRow                           -> "insert"
    [] server # NoRow /\ client = server        -> "noop"
    [] server # NoRow /\ client.updated_at < server.updated_at -> "update"
    [] OTHER                                    -> "conflict"

MergeOneTrustingInserts(client, server, serverTime) ==
  CASE server = NoRow                           -> "insert"
    [] server # NoRow /\ client.updated_at = server.updated_at -> "noop"
    [] server # NoRow /\ client.updated_at > server.updated_at
       /\ client.updated_at <= serverTime + ClockSkewSec        -> "update"
    [] OTHER                                    -> "conflict"

(***************************************************************************)
(* The API's merge: what to do with one pushed change, given the row the   *)
(* account has under that id (or NoRow) and the time of the request.       *)
(***************************************************************************)
MergeOne(client, server, serverTime) ==
  CASE server # NoRow /\ client.updated_at = server.updated_at -> "noop"
    [] server # NoRow /\ client.updated_at < server.updated_at -> "conflict"
    [] (server = NoRow \/ client.updated_at > server.updated_at)
       /\ client.updated_at > serverTime + ClockSkewSec        -> "conflict"
    [] server = NoRow /\ client.updated_at <= serverTime + ClockSkewSec
                                                               -> "insert"
    [] OTHER                                                   -> "update"

(* The row a conflict answers with: the server's if there is one.          *)
ConflictRow(client, server) == IF server = NoRow THEN client ELSE server

(***************************************************************************)
(* The daemon on one entry of "conflicts" and on one entry of "changes".   *)
(***************************************************************************)
ApplyConflict(local, c) ==
  IF local = NoRow THEN NoRow
  ELSE [row |-> IF c.updated_at >= local.row.updated_at THEN c ELSE local.row,
        status |-> "conflict"]

ApplyInboundAlways(local, server) == Synced(server)

ApplyInboundKnownOnly(local, server) ==
  IF local = NoRow THEN NoRow ELSE Synced(server)

ApplyInbound(local, server) ==
  IF \/ local = NoRow
     \/ server.updated_at > local.row.updated_at
     \/ /\ server.updated_at < local.row.updated_at
        /\ local.status # "pending"
  THEN Synced(server)
  ELSE IF server.updated_at = local.row.updated_at
       THEN Synced(local.row)
       ELSE local

MergeAnswerWithoutAck(local, sent, conflict, change) ==
  LET told == IF conflict # NoRow THEN ApplyConflict(local, conflict) ELSE local
  IN  IF change = NoRow THEN told ELSE ApplyInbound(told, change)

(***************************************************************************)
(* One id's share of a 200 answer, in the order the code takes it: its     *)
(* conflict, else the acknowledgement if it was sent, then its change.     *)
(* sent, conflict and change are rows or NoRow.                            *)
(***************************************************************************)
MergeAnswer(local, sent, conflict, change) ==
  LET acked == IF conflict # NoRow THEN ApplyConflict(local, conflict)
               ELSE IF sent # NoRow /\ local # NoRow THEN Synced(local.row)
               ELSE local
  IN  IF change = NoRow THEN acked ELSE ApplyInbound(acked, change)
=============================================================================
