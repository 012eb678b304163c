------------------------------ MODULE LwwStore ------------------------------
(***************************************************************************)
(* What the table of reminders is to the devices that share it: a register *)
(* per id in which the last write wins, of one account for ever, and in    *)
(* which every version a replica counts as delivered is found again, or    *)
(* one that overruled it.  No requests, retries, files or crashes here.    *)
(***************************************************************************)
EXTENDS Integers

CONSTANTS
  Keys,
  Replicas,
  None  \* no entry, no version

VARIABLES
  store,     \* per key: its owner and its row, which is stamped
  delivered  \* per replica and key: the stamp of a version known to be stored

vars == <<store, delivered>>

Init ==
  /\ store = [k \in Keys |-> None]
  /\ delivered = [r \in Replicas |-> [k \in Keys |-> None]]

(* A key gets its first entry, or its owner's entry a version not older.   *)
Superseded(k) ==
  /\ store'[k] # None
  /\ store[k] # None =>
       /\ store'[k].owner = store[k].owner
       /\ store'[k].row.updated_at >= store[k].row.updated_at

(* The rows of one request are written together.                           *)
Write ==
  /\ \E K \in SUBSET Keys : \A k \in Keys :
       IF k \in K THEN Superseded(k) ELSE store'[k] = store[k]
  /\ UNCHANGED delivered

(* A replica learns, forgets, reloads: whatever it says, the store backs.  *)
Report ==
  /\ \A r \in Replicas, k \in Keys :
       delivered'[r][k] # None =>
         store[k] # None /\ delivered'[r][k] <= store[k].row.updated_at
  /\ UNCHANGED store

Next == Write \/ Report

Spec == Init /\ [][Next]_vars
=============================================================================
