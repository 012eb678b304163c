------------------------------ MODULE ApiProofs ------------------------------
(***************************************************************************)
(* Theorems of ApiSync, for any number of requests in service, accounts    *)
(* and reminders: what no interleaving of their statements can do.         *)
(***************************************************************************)
EXTENDS ApiSync, SequenceTheorems, TLAPS

-----------------------------------------------------------------------------
(* The operators.                                                          *)

LEMMA OverlayType ==
  ASSUME NEW below \in Table, NEW above \in Table
  PROVE  Overlay(below, above) \in Table
BY DEF Overlay, Table

(* Where a handler can be.                                                 *)
Places == {"free", "select", "write", "pull", "commit", "delete", "exists", "done"}
USE DEF Places

LEMMA NothingType == Nothing \in Table
BY DEF Nothing, Table, Maybe

LEMMA OwnRowType ==
  ASSUME NEW tbl \in Table, NEW u, NEW i \in Ids
  PROVE  /\ OwnRow(tbl, u, i) \in Maybe(Row)
         /\ OwnRow(tbl, u, i) # NoRow =>
              /\ tbl[i] # NoRow
              /\ tbl[i] = [owner |-> u, row |-> OwnRow(tbl, u, i)]
BY DEF OwnRow, Table, Maybe, Stored

LEMMA TombstoneType ==
  ASSUME NEW r \in Row, NEW t \in Int
  PROVE  Tombstone(r, t) \in Row
BY DEF Tombstone, Row

LEMMA MergeOneOutcomes ==
  ASSUME NEW c \in Row, NEW r \in Maybe(Row), NEW t \in Nat
  PROVE  /\ MergeOne(c, r, t) \in {"insert", "update", "conflict", "noop"}
         /\ MergeOne(c, r, t) = "update" => r # NoRow
<1>1. /\ c.updated_at \in Int /\ t + ClockSkewSec \in Int
      /\ r # NoRow => r.updated_at \in Int
  BY SkewAssumption DEF Row, Maybe
<1>2. CASE r = NoRow
  BY <1>1, <1>2 DEF MergeOne
<1>3. CASE r # NoRow
  BY <1>1, <1>3 DEF MergeOne
<1> QED
  BY <1>2, <1>3

(* A list of changes that is not empty has a first one, and the rest is a  *)
(* list again.                                                             *)
LEMMA Rest ==
  ASSUME NEW S, NEW rest \in Seq(S), rest # <<>>
  PROVE  /\ Head(rest) \in S
         /\ Tail(rest) \in Seq(S)
         /\ NextStatement(Tail(rest)) \in {"pull", "select"}
         /\ NextStatement(Tail(rest)) = "select" => Tail(rest) # <<>>
BY HeadTailProperties DEF NextStatement

LEMMA PushesType ==
  ASSUME NEW u \in Users, NEW push \in Pushes(u)
  PROVE  /\ push \in Seq(Change)
         /\ NextStatement(push) \in {"pull", "select"}
         /\ NextStatement(push) = "select" => push # <<>>
<1>1. Changes[u] \subseteq Change
  BY ChangesAssumption
<1>2. push \in Seq(Change)
  <2>1. CASE push = <<>>
    BY <2>1
  <2>2. CASE \E c \in Changes[u] : push = <<c>>
    BY <1>1, <2>2
  <2>3. CASE push \in Changes[u] \X Changes[u]
    <3>1. PICK c \in Change, d \in Change : push = <<c, d>>
      BY <1>1, <2>3
    <3> QED BY <3>1
  <2> QED BY <2>1, <2>2, <2>3 DEF Pushes
<1> QED
  BY <1>2 DEF NextStatement

-----------------------------------------------------------------------------
(* Types.                                                                  *)

LEMMA TypeInit == Init => TypeOK
<1> SUFFICES ASSUME Init PROVE TypeOK
  OBVIOUS
<1>1. Nothing \in Table /\ Nothing \in [Ids -> Maybe(Row)]
  BY NothingType DEF Nothing, Maybe
<1>2. <<>> \in Seq(Change)
  OBVIOUS
<1> QED
  BY <1>1, <1>2 DEF Init, TypeOK, Ready

LEMMA InstallType ==
  ASSUME NEW tbl \in Table, versions \subseteq Ids \X Stored, Install(tbl)
  PROVE  table' \in Table /\ versions' \subseteq Ids \X Stored
BY DEF Install, Table, Maybe

(* What the next statement of a session works on.                          *)
LEMMA NextChange ==
  ASSUME TypeOK, NEW s \in Sessions
  PROVE  /\ pc[s] \in {"select", "write"} =>
              Head(todo[s]).id \in Ids /\ Head(todo[s]).row \in Row
         /\ pc[s] \in {"delete", "exists"} => Head(todo[s]).id \in Ids
         /\ pc[s] # "free" => user[s] \in Users
<1>1. Ready(s)
  BY DEF TypeOK
<1>2. ASSUME pc[s] \in {"select", "write"}
      PROVE  Head(todo[s]).id \in Ids /\ Head(todo[s]).row \in Row
  <2>1. Head(todo[s]) \in Change
    BY <1>1, <1>2, Rest DEF Ready
  <2> QED BY <2>1 DEF Change
<1>3. ASSUME pc[s] \in {"delete", "exists"}
      PROVE  Head(todo[s]).id \in Ids
  <2>1. Head(todo[s]) \in [id: Ids]
    BY <1>1, <1>3, Rest DEF Ready
  <2> QED BY <2>1
<1> QED
  BY <1>1, <1>2, <1>3 DEF Ready

(* What a step of a deletion does.                                         *)
DeletesRow(i) ==
  \E t \in Nat :
    /\ table[i] # NoRow
    /\ Install([table EXCEPT ![i].row = Tombstone(table[i].row, t)])

Deletion(s) == DeleteRow(s) \/ SelectExists(s) \/ DeleteError(s)

LEMMA EntombDeletes ==
  ASSUME TypeOK, NEW s \in Sessions, pc[s] = "delete", Entomb(s)
  PROVE  \E i \in Ids : DeletesRow(i)
<1> DEFINE i == Head(todo[s]).id
<1>1. i \in Ids /\ at[s] \in Nat
  <2>1. at[s] \in Nat
    BY DEF TypeOK
  <2> QED BY <2>1, NextChange
<1>2. table[i] # NoRow
  BY DEF Entomb, Deletable, OwnRow
<1>3. Install([table EXCEPT ![i].row = Tombstone(table[i].row, at[s])])
  BY DEF Entomb
<1> HIDE DEF i
<1> QED BY <1>1, <1>2, <1>3, Zenon DEF DeletesRow

LEMMA DeletionSteps ==
  ASSUME TypeOK, NEW s \in Sessions, Deletion(s)
  PROVE  /\ pc[s] \in {"delete", "exists"}
         /\ \/ \E code \in {204, 404, 500} : Close(s, code)
            \/ /\ pc[s] = "delete" /\ pc' = [pc EXCEPT ![s] = "exists"]
               /\ UNCHANGED <<table, versions, todo, plan, status>>
         /\ UNCHANGED <<now, request, writes, changes>>
         /\ errors' \in Nat
         /\ UNCHANGED <<table, versions>> \/ \E i \in Ids : DeletesRow(i)
<1>1. errors \in Nat
  BY DEF TypeOK
<1>2. CASE DeleteRow(s)
  BY <1>1, <1>2, EntombDeletes DEF DeleteRow
<1>3. CASE SelectExists(s)
  BY <1>1, <1>3 DEF SelectExists
<1>4. CASE DeleteError(s)
  <2>1. \E code \in {204, 404, 500} : Close(s, code)
    BY <1>4 DEF DeleteError
  <2>2. /\ pc[s] \in {"delete", "exists"} /\ errors' = errors + 1
        /\ UNCHANGED <<now, request, writes, changes>>
        /\ UNCHANGED <<table, versions>> \/ (pc[s] = "delete" /\ Entomb(s))
    BY <1>4 DEF DeleteError
  <2> QED BY <1>1, <2>1, <2>2, EntombDeletes
<1> QED BY <1>2, <1>3, <1>4 DEF Deletion

(* A step of one session leaves the others ready.                          *)
LEMMA OthersReady ==
  ASSUME TypeOK, NEW s \in Sessions, NEW p, NEW rest, NEW u,
         pc' = [pc EXCEPT ![s] = p], todo' = [todo EXCEPT ![s] = rest],
         user' = [user EXCEPT ![s] = u], Ready(s)'
  PROVE  \A x \in Sessions : Ready(x)'
<1> SUFFICES ASSUME NEW x \in Sessions, x # s PROVE Ready(x)'
  OBVIOUS
<1>1. /\ pc \in [Sessions -> Places]
      /\ todo \in [Sessions -> Seq(Change) \cup Seq([id: Ids])]
      /\ user \in [Sessions -> Users \cup {NoUser}]
  BY DEF TypeOK
<1>2. pc'[x] = pc[x] /\ todo'[x] = todo[x] /\ user'[x] = user[x]
  BY <1>1
<1>3. Ready(x)
  BY DEF TypeOK
<1> QED
  BY <1>2, <1>3 DEF Ready

LEMMA SameUser ==
  ASSUME TypeOK, NEW s \in Sessions, UNCHANGED request
  PROVE  user' = [user EXCEPT ![s] = user[s]]
BY DEF TypeOK, request

(* What every refused, finished or deadlocked request leaves behind.       *)
LEMMA CloseType ==
  ASSUME TypeOK, NEW s \in Sessions, NEW code \in {200, 204, 404, 409, 500},
         Close(s, code), pc[s] # "free", UNCHANGED <<now, request>>,
         table' \in Table, versions' \subseteq Ids \X Stored,
         writes' \in [Sessions -> Table],
         changes' \in [Sessions -> [Ids -> Maybe(Row)]], errors' \in Nat
  PROVE  TypeOK'
<1>1. todo' \in [Sessions -> Seq(Change) \cup Seq([id: Ids])]
  <2>1. <<>> \in Seq(Change)
    OBVIOUS
  <2> QED BY <2>1 DEF TypeOK, Close
<1>2. /\ pc' \in [Sessions -> Places]
      /\ status' \in [Sessions -> {0, 200, 204, 404, 409, 500}]
      /\ plan' \in [Sessions -> {"insert", "update", "conflict", "noop"}]
  BY DEF TypeOK, Close
<1>3. /\ now' \in Nat
      /\ user' \in [Sessions -> Users \cup {NoUser}]
      /\ since' \in [Sessions -> Nat] /\ at' \in [Sessions -> Nat]
  BY DEF TypeOK, request
<1>4. Ready(s)'
  <2>1. user[s] \in Users
    BY DEF TypeOK, Ready
  <2>2. pc'[s] = "done" /\ user'[s] = user[s]
    BY DEF TypeOK, Close, request
  <2> QED BY <2>1, <2>2 DEF Ready
<1>5. \A x \in Sessions : Ready(x)'
  <2>1. SUFFICES ASSUME NEW x \in Sessions, x # s PROVE Ready(x)'
    BY <1>4
  <2>2. pc'[x] = pc[x] /\ todo'[x] = todo[x] /\ user'[x] = user[x]
    BY <2>1 DEF TypeOK, Close, request
  <2>3. Ready(x)
    BY DEF TypeOK
  <2> QED BY <2>2, <2>3 DEF Ready
<1> QED
  BY <1>1, <1>2, <1>3, <1>5 DEF TypeOK

(* The statements that end with the next change, or none left.             *)
LEMMA AdvanceType ==
  ASSUME TypeOK, NEW s \in Sessions, Advance(s), pc[s] \in {"select", "write"},
         UNCHANGED <<now, table, versions, request, changes, status, errors>>,
         writes' \in [Sessions -> Table],
         plan' \in [Sessions -> {"insert", "update", "conflict", "noop"}]
  PROVE  TypeOK'
<1> DEFINE rest == Tail(todo[s])
<1>1. /\ rest \in Seq(Change)
      /\ NextStatement(rest) \in {"pull", "select"}
      /\ NextStatement(rest) = "select" => rest # <<>>
      /\ user[s] \in Users
  BY Rest DEF TypeOK, Ready
<1>2. /\ todo' = [todo EXCEPT ![s] = rest]
      /\ pc' = [pc EXCEPT ![s] = NextStatement(rest)]
  BY DEF Advance
<1> HIDE DEF rest
<1>3. /\ todo' \in [Sessions -> Seq(Change) \cup Seq([id: Ids])]
      /\ pc' \in [Sessions -> Places]
  BY <1>1, <1>2 DEF TypeOK
<1>4. Ready(s)'
  <2>1. pc'[s] = NextStatement(rest) /\ todo'[s] = rest /\ user'[s] = user[s]
    BY <1>2 DEF TypeOK, request
  <2> QED BY <1>1, <2>1 DEF Ready
<1>5. \A x \in Sessions : Ready(x)'
  BY <1>2, <1>4, OthersReady, SameUser
<1> QED
  BY <1>3, <1>5 DEF TypeOK, request

LEMMA TypeNext ==
  ASSUME TypeOK, [Next]_vars
  PROVE  TypeOK'
<1>t. /\ now \in Nat /\ errors \in Nat
      /\ table \in Table /\ versions \subseteq Ids \X Stored
      /\ writes \in [Sessions -> Table]
      /\ changes \in [Sessions -> [Ids -> Maybe(Row)]]
      /\ user \in [Sessions -> Users \cup {NoUser}] /\ at \in [Sessions -> Nat]
      /\ plan \in [Sessions -> {"insert", "update", "conflict", "noop"}]
  BY DEF TypeOK
<1>0. ASSUME NEW s \in Sessions
      PROVE  /\ Visible(s) \in Table
             /\ [writes EXCEPT ![s] = Nothing] \in [Sessions -> Table]
             /\ [changes EXCEPT ![s] = Nothing] \in [Sessions -> [Ids -> Maybe(Row)]]
  <2>1. Nothing \in Table /\ Nothing \in [Ids -> Maybe(Row)]
    BY NothingType DEF Nothing, Maybe
  <2> QED BY <1>t, <2>1, OverlayType DEF Visible
<1>r. \A s \in Sessions :
        /\ pc[s] \in {"select", "write"} =>
             Head(todo[s]).id \in Ids /\ Head(todo[s]).row \in Row
        /\ pc[s] \in {"delete", "exists"} => Head(todo[s]).id \in Ids
        /\ pc[s] # "free" => user[s] \in Users
  BY NextChange
<1>1. ASSUME NEW s \in Sessions, NEW u \in Users, NEW t \in Cursors,
             NEW push \in Pushes(u), Begin(s, u, t, push)
      PROVE  TypeOK'
  <2>1. /\ push \in Seq(Change) /\ t \in Nat
        /\ NextStatement(push) \in {"pull", "select"}
        /\ NextStatement(push) = "select" => push # <<>>
    BY PushesType, CursorsAssumption
  <2>2. /\ pc' = [pc EXCEPT ![s] = NextStatement(push)]
        /\ user' = [user EXCEPT ![s] = u]
        /\ since' = [since EXCEPT ![s] = t]
        /\ at' = [at EXCEPT ![s] = now]
        /\ todo' = [todo EXCEPT ![s] = push]
        /\ UNCHANGED <<now, table, versions, plan, writes, changes, status, errors>>
    BY <1>1 DEF Begin
  <2>3. /\ pc' \in [Sessions -> Places]
        /\ user' \in [Sessions -> Users \cup {NoUser}]
        /\ since' \in [Sessions -> Nat] /\ at' \in [Sessions -> Nat]
        /\ todo' \in [Sessions -> Seq(Change) \cup Seq([id: Ids])]
    BY <2>1, <2>2 DEF TypeOK
  <2>4. Ready(s)'
    <3>1. pc'[s] = NextStatement(push) /\ todo'[s] = push /\ user'[s] = u
      BY <2>2 DEF TypeOK
    <3> QED BY <2>1, <3>1 DEF Ready
  <2>5. \A x \in Sessions : Ready(x)'
    BY <2>2, <2>4, OthersReady
  <2> QED BY <2>2, <2>3, <2>5 DEF TypeOK
<1>2. ASSUME NEW s \in Sessions, NEW u \in Users, NEW i \in Ids, DeleteBegin(s, u, i)
      PROVE  TypeOK'
  <2> DEFINE one == <<[id |-> i]>>
  <2>1. one \in Seq([id: Ids]) /\ one # <<>>
    OBVIOUS
  <2> HIDE DEF one
  <2>2. /\ pc' = [pc EXCEPT ![s] = "delete"]
        /\ user' = [user EXCEPT ![s] = u]
        /\ at' = [at EXCEPT ![s] = now]
        /\ todo' = [todo EXCEPT ![s] = one]
        /\ UNCHANGED <<now, table, versions, since, plan, writes, changes, status, errors>>
    BY <1>2 DEF DeleteBegin, one
  <2>3. /\ pc' \in [Sessions -> Places]
        /\ user' \in [Sessions -> Users \cup {NoUser}]
        /\ at' \in [Sessions -> Nat]
        /\ todo' \in [Sessions -> Seq(Change) \cup Seq([id: Ids])]
    BY <2>1, <2>2 DEF TypeOK
  <2>4. Ready(s)'
    <3>1. pc'[s] = "delete" /\ todo'[s] = one /\ user'[s] = u
      BY <2>2 DEF TypeOK
    <3> QED BY <2>1, <3>1 DEF Ready
  <2>5. \A x \in Sessions : Ready(x)'
    BY <2>2, <2>4, OthersReady
  <2> QED BY <2>2, <2>3, <2>5 DEF TypeOK
<1>3. ASSUME NEW s \in Sessions, Select(s)
      PROVE  TypeOK'
  <2> DEFINE c == Head(todo[s])
             outcome == MergeOne(c.row, OwnRow(Visible(s), user[s], c.id), at[s])
  <2>1. outcome \in {"insert", "update", "conflict", "noop"}
    <3>1. pc[s] = "select"
      BY <1>3 DEF Select
    <3>2. c.id \in Ids /\ c.row \in Row /\ at[s] \in Nat
      BY <1>t, <1>r, <3>1
    <3>3. OwnRow(Visible(s), user[s], c.id) \in Maybe(Row)
      BY <1>0, <3>2, OwnRowType
    <3> QED BY <3>2, <3>3, MergeOneOutcomes
  <2>2. /\ plan' = [plan EXCEPT ![s] = outcome]
        /\ pc[s] = "select"
        /\ \/ pc' = [pc EXCEPT ![s] = "write"] /\ UNCHANGED todo
           \/ Advance(s)
        /\ UNCHANGED <<now, table, versions, request, writes, changes, status, errors>>
    BY <1>3 DEF Select
  <2> HIDE DEF outcome
  <2>3. plan' \in [Sessions -> {"insert", "update", "conflict", "noop"}]
    BY <1>t, <2>1, <2>2
  <2>4. CASE pc' = [pc EXCEPT ![s] = "write"] /\ UNCHANGED todo
    <3>1. todo' = [todo EXCEPT ![s] = todo[s]]
      BY <2>4 DEF TypeOK
    <3>2. Ready(s)'
      <4>1. pc'[s] = "write" /\ todo'[s] = todo[s] /\ user'[s] = user[s]
        BY <2>2, <2>4 DEF TypeOK, request
      <4>2. Ready(s)
        BY DEF TypeOK
      <4> QED BY <2>2, <4>1, <4>2 DEF Ready
    <3>3. \A x \in Sessions : Ready(x)'
      BY <2>2, <2>4, <3>1, <3>2, OthersReady, SameUser
    <3> QED BY <2>2, <2>3, <2>4, <3>3 DEF TypeOK, request
  <2>5. CASE Advance(s)
    <3>1. writes' \in [Sessions -> Table]
      BY <1>t, <2>2
    <3> QED BY <2>2, <2>3, <2>5, <3>1, AdvanceType
  <2> QED BY <2>2, <2>4, <2>5
<1>4. ASSUME NEW s \in Sessions, Insert(s) \/ Update(s)
      PROVE  TypeOK'
  <2> DEFINE i == Head(todo[s]).id
  <2>0. pc[s] = "write" /\ UNCHANGED <<now, table, versions, request, changes, errors>>
    BY <1>4 DEF Insert, Update, Turn
  <2>1. i \in Ids /\ Head(todo[s]).row \in Row /\ user[s] \in Users
    BY <1>r, <2>0
  <2>2. CASE Write(s, i)
    <3>1. writes' \in [Sessions -> Table]
      <4>1. [owner |-> user[s], row |-> Head(todo[s]).row] \in Stored
        BY <2>1 DEF Stored
      <4> QED BY <1>t, <2>1, <2>2, <4>1 DEF Write, Table, Maybe
    <3>2. Advance(s) /\ UNCHANGED <<plan, status>>
      BY <2>2 DEF Write
    <3>3. plan' \in [Sessions -> {"insert", "update", "conflict", "noop"}]
      BY <1>t, <3>2
    <3> QED BY <2>0, <3>1, <3>2, <3>3, AdvanceType
  <2>3. CASE Refuse(s, 409)
    <3>1. writes' \in [Sessions -> Table]
      BY <1>0, <2>3 DEF Refuse
    <3> QED BY <1>t, <2>0, <2>3, <3>1, CloseType DEF Refuse
  <2> QED BY <1>4, <2>2, <2>3 DEF Insert, Update
<1>5. ASSUME NEW s \in Sessions, Pull(s)
      PROVE  TypeOK'
  <2> DEFINE own(i) == OwnRow(Visible(s), user[s], i)
  <2>1. \A i \in Ids : own(i) \in Maybe(Row)
    BY <1>0, OwnRowType
  <2>2. /\ changes' = [changes EXCEPT ![s] =
             [i \in Ids |-> IF own(i) # NoRow /\ own(i).updated_at > since[s]
                            THEN own(i) ELSE NoRow]]
        /\ pc[s] = "pull"
        /\ pc' = [pc EXCEPT ![s] = "commit"]
        /\ UNCHANGED <<now, table, versions, request, todo, plan, writes, status, errors>>
    BY <1>5 DEF Pull
  <2> HIDE DEF own
  <2>3. changes' \in [Sessions -> [Ids -> Maybe(Row)]]
    BY <1>t, <2>1, <2>2 DEF Maybe
  <2>4. Ready(s)'
    <3>1. pc'[s] = "commit" /\ user'[s] = user[s]
      BY <2>2 DEF TypeOK, request
    <3> QED BY <1>r, <2>2, <3>1 DEF Ready
  <2>5. todo' = [todo EXCEPT ![s] = todo[s]]
    BY <2>2 DEF TypeOK
  <2>6. \A x \in Sessions : Ready(x)'
    BY <2>2, <2>4, <2>5, OthersReady, SameUser
  <2> QED BY <2>2, <2>3, <2>6 DEF TypeOK, request
<1>6. ASSUME NEW s \in Sessions, Commit(s)
      PROVE  TypeOK'
  <2>1. /\ Close(s, 200) /\ pc[s] = "commit" /\ Install(Visible(s))
        /\ writes' = [writes EXCEPT ![s] = Nothing]
        /\ UNCHANGED <<now, request, changes, errors>>
    BY <1>6 DEF Commit
  <2>2. table' \in Table /\ versions' \subseteq Ids \X Stored
    BY <1>t, <1>0, <2>1, InstallType
  <2>3. writes' \in [Sessions -> Table]
    BY <1>0, <2>1
  <2> QED BY <1>t, <2>1, <2>2, <2>3, CloseType
<1>7. ASSUME NEW s \in Sessions, Error(s)
      PROVE  TypeOK'
  <2>1. /\ Close(s, 500) /\ pc[s] # "free" /\ errors' = errors + 1
        /\ writes' = [writes EXCEPT ![s] = Nothing]
        /\ changes' = [changes EXCEPT ![s] = Nothing]
        /\ UNCHANGED <<table, versions>> \/ Install(Visible(s))
        /\ UNCHANGED <<now, request>>
    BY <1>7 DEF Error, Refuse, Untold
  <2>2. table' \in Table /\ versions' \subseteq Ids \X Stored
    BY <1>t, <1>0, <2>1, InstallType
  <2>3. /\ writes' \in [Sessions -> Table]
        /\ changes' \in [Sessions -> [Ids -> Maybe(Row)]]
        /\ errors' \in Nat
    BY <1>t, <1>0, <2>1
  <2> QED BY <2>1, <2>2, <2>3, CloseType
<1>8. ASSUME NEW s \in Sessions, DeadlockVictim(s)
      PROVE  TypeOK'
  <2>1. pc[s] # "free"
    BY <1>8 DEF DeadlockVictim, Deadlocked, Waits
  <2>2. /\ Close(s, 500)
        /\ writes' = [writes EXCEPT ![s] = Nothing]
        /\ UNCHANGED <<now, table, versions, request, changes, errors>>
    BY <1>8 DEF DeadlockVictim, Refuse
  <2>3. writes' \in [Sessions -> Table]
    BY <1>0, <2>2
  <2> QED BY <1>t, <2>1, <2>2, <2>3, CloseType
<1>9. ASSUME NEW s \in Sessions, Deletion(s)
      PROVE  TypeOK'
  <2>1. /\ pc[s] \in {"delete", "exists"}
        /\ UNCHANGED <<now, request, writes, changes>>
        /\ errors' \in Nat
        /\ \/ \E code \in {204, 404, 500} : Close(s, code)
           \/ /\ pc[s] = "delete" /\ pc' = [pc EXCEPT ![s] = "exists"]
              /\ UNCHANGED <<table, versions, todo, plan, status>>
        /\ UNCHANGED <<table, versions>> \/ \E i \in Ids : DeletesRow(i)
    BY <1>9, DeletionSteps
  <2>2. table' \in Table /\ versions' \subseteq Ids \X Stored
    <3>1. ASSUME NEW i \in Ids, DeletesRow(i)
          PROVE  table' \in Table /\ versions' \subseteq Ids \X Stored
      <4>1. PICK t \in Nat : /\ table[i] # NoRow
                             /\ Install([table EXCEPT ![i].row = Tombstone(table[i].row, t)])
        BY <3>1 DEF DeletesRow
      <4>2. table[i] \in Stored
        BY <1>t, <4>1 DEF Maybe, Table
      <4>3. Tombstone(table[i].row, t) \in Row
        BY <4>2, TombstoneType DEF Stored
      <4>4. [table EXCEPT ![i].row = Tombstone(table[i].row, t)] \in Table
        BY <1>t, <4>2, <4>3 DEF Table, Maybe, Stored
      <4> QED BY <1>t, <4>1, <4>4, InstallType
    <3>2. CASE UNCHANGED <<table, versions>>
      BY <1>t, <3>2
    <3> QED BY <2>1, <3>1, <3>2
  <2>3. /\ writes' \in [Sessions -> Table]
        /\ changes' \in [Sessions -> [Ids -> Maybe(Row)]]
    BY <1>t, <2>1
  <2>4. CASE \E code \in {204, 404, 500} : Close(s, code)
    <3>1. PICK code \in {200, 204, 404, 409, 500} : Close(s, code)
      BY <2>4
    <3> QED BY <2>1, <2>2, <2>3, <3>1, CloseType
  <2>5. CASE /\ pc[s] = "delete" /\ pc' = [pc EXCEPT ![s] = "exists"]
             /\ UNCHANGED <<table, versions, todo, plan, status>>
    <3>1. Ready(s)'
      <4>1. pc'[s] = "exists" /\ todo'[s] = todo[s] /\ user'[s] = user[s]
        BY <2>1, <2>5 DEF TypeOK, request
      <4>2. Ready(s)
        BY DEF TypeOK
      <4> QED BY <2>5, <4>1, <4>2 DEF Ready
    <3>2. todo' = [todo EXCEPT ![s] = todo[s]]
      BY <2>5 DEF TypeOK
    <3>3. \A x \in Sessions : Ready(x)'
      <4>1. user' = [user EXCEPT ![s] = user[s]]
        BY <2>1, SameUser
      <4> QED BY <2>5, <3>1, <3>2, <4>1, OthersReady
    <3>4. pc' \in [Sessions -> Places]
      <4>1. pc \in [Sessions -> Places]
        BY DEF TypeOK
      <4> QED BY <2>5, <4>1
    <3> QED BY <2>1, <2>2, <2>3, <2>5, <3>3, <3>4 DEF TypeOK, request
  <2> QED BY <2>1, <2>4, <2>5
<1>10. ASSUME NEW s \in Sessions, Reply(s)
       PROVE  TypeOK'
  <2>1. /\ pc' = [pc EXCEPT ![s] = "free"]
        /\ status' = [status EXCEPT ![s] = 0]
        /\ user' = [user EXCEPT ![s] = NoUser]
        /\ since' = [since EXCEPT ![s] = 0]
        /\ at' = [at EXCEPT ![s] = 0]
        /\ changes' = [changes EXCEPT ![s] = Nothing]
        /\ UNCHANGED <<now, table, versions, todo, plan, writes, errors>>
    BY <1>10 DEF Reply, Untold
  <2>2. /\ pc' \in [Sessions -> Places]
        /\ status' \in [Sessions -> {0, 200, 204, 404, 409, 500}]
        /\ user' \in [Sessions -> Users \cup {NoUser}]
        /\ since' \in [Sessions -> Nat] /\ at' \in [Sessions -> Nat]
        /\ changes' \in [Sessions -> [Ids -> Maybe(Row)]]
    BY <1>0, <2>1 DEF TypeOK
  <2>3. todo' = [todo EXCEPT ![s] = todo[s]] /\ Ready(s)'
    BY <2>1 DEF TypeOK, Ready
  <2>4. \A x \in Sessions : Ready(x)'
    BY <2>1, <2>3, OthersReady
  <2> QED BY <2>1, <2>2, <2>4 DEF TypeOK
<1>11. CASE Tick
  <2>1. /\ now' \in Nat
        /\ UNCHANGED <<table, versions, pc, user, since, at, todo, plan, writes, changes, status, errors>>
    BY <1>t, <1>11 DEF Tick, request
  <2> QED BY <2>1 DEF TypeOK, Ready
<1>12. CASE UNCHANGED vars
  BY <1>12 DEF vars, TypeOK, Ready
<1> QED
  BY <1>1, <1>2, <1>3, <1>4, <1>5, <1>6, <1>7, <1>8, <1>9, <1>10, <1>11, <1>12
     DEF Next, Arrive, Statement, Locking, Deletion

(* Every variable of ApiSync keeps to its type, and a session that is      *)
(* about to run a statement of its loop has a change to run it on.         *)
THEOREM ApiTypeCorrect == Spec => []TypeOK
<1>1. Init => TypeOK
  BY TypeInit
<1>2. TypeOK /\ [Next]_vars => TypeOK'
  BY TypeNext
<1> QED
  BY <1>1, <1>2, PTL DEF Spec

-----------------------------------------------------------------------------
(* What a step does to the table.                                          *)

Step(s) ==
  \/ Arrive(s) \/ Statement(s) \/ Locking(s)
  \/ Error(s) \/ DeleteError(s) \/ DeadlockVictim(s)

Installs(s) ==
  Install(Visible(s)) /\ writes' = [writes EXCEPT ![s] = Nothing]

LEMMA TableSteps ==
  ASSUME TypeOK, [Next]_vars
  PROVE  \/ UNCHANGED <<table, versions>>
         \/ \E s \in Sessions : Installs(s)
         \/ \E i \in Ids : DeletesRow(i)
<1>1. CASE \E s \in Sessions : Deletion(s)
  BY <1>1, DeletionSteps
<1>2. CASE \E s \in Sessions : Commit(s) \/ Error(s)
  BY <1>2 DEF Commit, Error, Refuse, Installs
<1>3. CASE \E s \in Sessions :
             Arrive(s) \/ Select(s) \/ Pull(s) \/ Reply(s) \/ DeadlockVictim(s)
  BY <1>3 DEF Arrive, Begin, DeleteBegin, Select, Pull, Reply, DeadlockVictim
<1>4. CASE \E s \in Sessions : Insert(s) \/ Update(s)
  BY <1>4 DEF Insert, Update, Turn
<1>5. CASE Tick \/ UNCHANGED vars
  BY <1>5 DEF Tick, vars
<1> QED
  BY <1>1, <1>2, <1>3, <1>4, <1>5 DEF Next, Statement, Locking, Deletion

(* A row stays, and with its account; a row somebody holds is not put into *)
(* the table by anybody else.                                              *)
LEMMA TableGrows ==
  ASSUME ApiInv, [Next]_vars, NEW i \in Ids
  PROVE  /\ versions \subseteq versions'
         /\ table'[i] # NoRow => <<i, table'[i]>> \in versions'
         /\ table[i] # NoRow =>
              table'[i] # NoRow /\ table'[i].owner = table[i].owner
         /\ \A x \in Sessions :
              writes[x][i] # NoRow /\ writes'[x] = writes[x] /\ table[i] = NoRow
                => table'[i] = NoRow
<1>t. table \in Table /\ writes \in [Sessions -> Table]
  BY DEF ApiInv, TypeOK
<1>1. CASE UNCHANGED <<table, versions>>
  BY <1>1 DEF ApiInv, TableIsHistory
<1>2. ASSUME NEW s \in Sessions, Installs(s)
      PROVE  /\ versions \subseteq versions'
             /\ table'[i] # NoRow => <<i, table'[i]>> \in versions'
             /\ table[i] # NoRow =>
                  table'[i] # NoRow /\ table'[i].owner = table[i].owner
             /\ \A x \in Sessions :
                  writes[x][i] # NoRow /\ writes'[x] = writes[x] /\ table[i] = NoRow
                    => table'[i] = NoRow
  <2>1. table'[i] = IF writes[s][i] # NoRow THEN writes[s][i] ELSE table[i]
    BY <1>2 DEF Installs, Install, Visible, Overlay
  <2>2. writes[s][i] # NoRow /\ table[i] # NoRow => writes[s][i].owner = table[i].owner
    BY DEF ApiInv, HeldRowsAreOurs, Ours
  <2>3. /\ versions \subseteq versions'
        /\ table'[i] # NoRow => <<i, table'[i]>> \in versions'
    BY <1>2 DEF Installs, Install
  <2>4. ASSUME NEW x \in Sessions, writes[x][i] # NoRow, writes'[x] = writes[x],
               table[i] = NoRow
        PROVE  table'[i] = NoRow
    <3>1. x # s
      BY <1>t, <1>2, <2>4 DEF Installs, Nothing
    <3> QED BY <2>1, <2>4, <3>1 DEF ApiInv, OneHolder
  <2> QED BY <2>1, <2>2, <2>3, <2>4
<1>3. ASSUME NEW j \in Ids, DeletesRow(j)
      PROVE  /\ versions \subseteq versions'
             /\ table'[i] # NoRow => <<i, table'[i]>> \in versions'
             /\ (table[i] = NoRow) = (table'[i] = NoRow)
             /\ table[i] # NoRow => table'[i].owner = table[i].owner
  <2>1. PICK t \in Nat : /\ table[j] # NoRow
                         /\ Install([table EXCEPT ![j].row = Tombstone(table[j].row, t)])
    BY <1>3 DEF DeletesRow
  <2> DEFINE r == Tombstone(table[j].row, t)
  <2>2. table[j] \in Stored
    BY <1>t, <2>1 DEF Table, Maybe
  <2>3. r \in Row
    BY <2>2, TombstoneType DEF Stored
  <2> HIDE DEF r
  <2>4. /\ [table[j] EXCEPT !.row = r] \in Stored
        /\ [table[j] EXCEPT !.row = r].owner = table[j].owner
    BY <2>2, <2>3 DEF Stored
  <2>5. table' = [table EXCEPT ![j] = [table[j] EXCEPT !.row = r]]
    BY <2>1 DEF Install, r
  <2>6. /\ versions \subseteq versions'
        /\ table'[i] # NoRow => <<i, table'[i]>> \in versions'
    BY <2>1 DEF Install
  <2>7. CASE i = j
    <3>1. table'[i] = [table[j] EXCEPT !.row = r]
      BY <1>t, <2>5, <2>7 DEF Table
    <3> QED BY <2>1, <2>4, <2>6, <2>7, <3>1, NoStoredAssumption
  <2>8. CASE i # j
    <3>1. table'[i] = table[i]
      BY <1>t, <2>5, <2>8 DEF Table
    <3> QED BY <2>6, <3>1
  <2> QED BY <2>7, <2>8
<1>4. TypeOK
  BY DEF ApiInv
<1> QED
  BY <1>1, <1>2, <1>3, <1>4, TableSteps

-----------------------------------------------------------------------------
(* What a step of session s does to itself and to the others.              *)

Untouched(x) ==
  /\ pc'[x] = pc[x] /\ user'[x] = user[x] /\ todo'[x] = todo[x]
  /\ plan'[x] = plan[x] /\ writes'[x] = writes[x]
  /\ changes'[x] = changes[x] /\ status'[x] = status[x]

SessionInv(s) == HeldRowsAreOurs(s) /\ UpdatesAreOurs(s) /\ PullIsBacked(s)

LEMMA StepIsLocal ==
  ASSUME TypeOK, NEW s \in Sessions, Step(s), NEW x \in Sessions, x # s
  PROVE  Untouched(x)
<1>0. ASSUME Deletion(s)
      PROVE  /\ \/ \E code \in {204, 404, 500} : Close(s, code)
                \/ pc' = [pc EXCEPT ![s] = "exists"] /\ UNCHANGED <<todo, plan, status>>
             /\ UNCHANGED <<request, writes, changes>>
  BY <1>0, DeletionSteps
<1> USE DEF TypeOK, Untouched, request
<1>1. CASE Arrive(s)
  BY <1>1 DEF Arrive, Begin, DeleteBegin
<1>2. CASE Select(s)
  <2>1. /\ \/ pc' = [pc EXCEPT ![s] = "write"] /\ UNCHANGED todo
           \/ Advance(s)
        /\ \E p : plan' = [plan EXCEPT ![s] = p]
        /\ UNCHANGED <<request, writes, changes, status>>
    BY <1>2 DEF Select
  <2> QED BY <2>1 DEF Advance
<1>3. CASE Pull(s)
  BY <1>3 DEF Pull
<1>4. CASE Commit(s) \/ Error(s) \/ DeadlockVictim(s)
  BY <1>4 DEF Commit, Error, DeadlockVictim, Refuse, Close, Untold
<1>5. CASE Reply(s)
  BY <1>5 DEF Reply, Untold
<1>6. CASE Insert(s) \/ Update(s)
  BY <1>6 DEF Insert, Update, Turn, Write, Advance, Refuse, Close
<1>7. CASE Deletion(s)
  BY <1>0, <1>7 DEF Close
<1> QED
  BY <1>1, <1>2, <1>3, <1>4, <1>5, <1>6, <1>7 DEF Step, Statement, Locking, Deletion

LEMMA UntouchedKeepsInv ==
  ASSUME ApiInv, [Next]_vars, NEW x \in Sessions, Untouched(x)
  PROVE  SessionInv(x)'
<1>1. ASSUME NEW i \in Ids, Ours(x, i), table[i] # NoRow \/ writes[x][i] # NoRow
      PROVE  Ours(x, i)'
  BY <1>1, TableGrows DEF Ours, Untouched
<1>2. HeldRowsAreOurs(x)'
  BY <1>1 DEF ApiInv, HeldRowsAreOurs, Untouched
<1>3. UpdatesAreOurs(x)'
  <2>1. SUFFICES ASSUME pc[x] = "write", plan[x] = "update"
                 PROVE  UpdatesAreOurs(x)'
    BY DEF UpdatesAreOurs, Untouched
  <2>2. PICK i \in Ids : i = Head(todo[x]).id /\ i = Head(todo'[x]).id
    BY <2>1, NextChange DEF ApiInv, Untouched
  <2>3. Ours(x, i) /\ Visible(x)[i] # NoRow
    BY <2>1, <2>2 DEF ApiInv, UpdatesAreOurs
  <2>4. table[i] # NoRow \/ writes[x][i] # NoRow
    BY <2>3 DEF Visible, Overlay
  <2>5. Visible(x)'[i] # NoRow
    BY <2>4, TableGrows DEF Visible, Overlay, Untouched
  <2> QED BY <1>1, <2>2, <2>3, <2>4, <2>5 DEF UpdatesAreOurs
<1>4. PullIsBacked(x)'
  <2>1. \A i \in Ids : versions \subseteq versions'
    BY TableGrows
  <2> QED BY <2>1 DEF ApiInv, PullIsBacked, Untouched
<1> QED
  BY <1>2, <1>3, <1>4 DEF SessionInv

(* A session that ends up with no rows and no answer has nothing to prove. *)
LEMMA EmptyHandedInv ==
  ASSUME NEW s \in Sessions, writes'[s] = Nothing, changes'[s] = Nothing,
         pc'[s] # "write", status'[s] # 0 => pc'[s] = "done"
  PROVE  SessionInv(s)'
<1>1. \A i \in Ids : writes'[s][i] = NoRow /\ changes'[s][i] = NoRow
  BY DEF Nothing
<1> QED
  BY <1>1 DEF SessionInv, HeldRowsAreOurs, UpdatesAreOurs, PullIsBacked

LEMMA StepKeepsInv ==
  ASSUME ApiInv, [Next]_vars, NEW s \in Sessions, Step(s)
  PROVE  SessionInv(s)'
<1>t. /\ TypeOK /\ OneHolder /\ TableIsHistory
      /\ HeldRowsAreOurs(s) /\ UpdatesAreOurs(s) /\ PullIsBacked(s)
  BY DEF ApiInv
<1>v. /\ pc \in [Sessions -> Places]
      /\ user \in [Sessions -> Users \cup {NoUser}]
      /\ todo \in [Sessions -> Seq(Change) \cup Seq([id: Ids])]
      /\ plan \in [Sessions -> {"insert", "update", "conflict", "noop"}]
      /\ writes \in [Sessions -> Table] /\ table \in Table
      /\ changes \in [Sessions -> [Ids -> Maybe(Row)]]
      /\ status \in [Sessions -> {0, 200, 204, 404, 409, 500}]
  BY <1>t DEF TypeOK
<1>1. CASE Arrive(s)
  <2>1. /\ pc[s] = "free"
        /\ UNCHANGED <<writes, changes, status>>
        /\ \/ \E push :
                pc' = [pc EXCEPT ![s] = NextStatement(push)]
           \/ pc' = [pc EXCEPT ![s] = "delete"]
    BY <1>1 DEF Arrive, Begin, DeleteBegin
  <2>2. pc'[s] # "write"
    BY <1>v, <2>1 DEF NextStatement
  <2> QED
    BY <1>t, <2>1, <2>2, EmptyHandedInv DEF HeldRowsAreOurs, PullIsBacked
<1>2. CASE Select(s)
  <2> DEFINE c == Head(todo[s])
             r == OwnRow(Visible(s), user[s], c.id)
             outcome == MergeOne(c.row, r, at[s])
  <2>1. /\ pc[s] = "select"
        /\ plan' = [plan EXCEPT ![s] = outcome]
        /\ \/ pc' = [pc EXCEPT ![s] = "write"] /\ UNCHANGED todo
           \/ pc' = [pc EXCEPT ![s] = NextStatement(Tail(todo[s]))]
        /\ UNCHANGED <<now, table, versions, user, since, at, writes, changes, status, errors>>
    BY <1>2 DEF Select, Advance, request
  <2>2. /\ c.id \in Ids /\ c.row \in Row /\ at[s] \in Nat
        /\ Visible(s) \in Table
    <3>1. at[s] \in Nat
      BY <1>t DEF TypeOK
    <3>2. Visible(s) \in Table
      BY <1>v, OverlayType DEF Visible
    <3> QED BY <1>t, <2>1, <3>1, <3>2, NextChange
  <2>3. outcome = "update" => Ours(s, c.id) /\ Visible(s)[c.id] # NoRow
    <3>1. r \in Maybe(Row)
      BY <2>2, OwnRowType
    <3>2. outcome = "update" => r # NoRow
      BY <2>2, <3>1, MergeOneOutcomes
    <3>3. r # NoRow => Visible(s)[c.id] # NoRow /\ Visible(s)[c.id].owner = user[s]
      BY DEF OwnRow
    <3>4. Visible(s)[c.id] = IF writes[s][c.id] # NoRow THEN writes[s][c.id] ELSE table[c.id]
      BY <2>2 DEF Visible, Overlay
    <3>5. writes[s][c.id] # NoRow => Ours(s, c.id)
      BY <1>t, <2>2 DEF HeldRowsAreOurs
    <3> HIDE DEF r, c, outcome
    <3> QED BY <3>2, <3>3, <3>4, <3>5 DEF Ours
  <2>4. UpdatesAreOurs(s)'
    <3>1. CASE pc' = [pc EXCEPT ![s] = "write"] /\ UNCHANGED todo
      <4>1. plan'[s] = outcome /\ todo'[s] = todo[s]
        BY <1>v, <2>1, <3>1
      <4>2. Visible(s)' = Visible(s) /\ \A i : Ours(s, i)' = Ours(s, i)
        BY <2>1 DEF Visible, Ours
      <4> HIDE DEF outcome
      <4> QED BY <2>3, <4>1, <4>2 DEF UpdatesAreOurs
    <3>2. CASE pc' = [pc EXCEPT ![s] = NextStatement(Tail(todo[s]))]
      <4>1. pc'[s] # "write"
        BY <1>v, <3>2 DEF NextStatement
      <4> QED BY <4>1 DEF UpdatesAreOurs
    <3> QED BY <2>1, <3>1, <3>2
  <2>5. pc'[s] \notin {"free", "delete", "exists", "commit", "done"}
    BY <1>v, <2>1 DEF NextStatement
  <2>6. HeldRowsAreOurs(s)'
    BY <1>t, <2>1, <2>5 DEF HeldRowsAreOurs, Ours
  <2>7. PullIsBacked(s)'
    BY <1>t, <2>1, <2>5 DEF PullIsBacked
  <2> QED BY <2>4, <2>6, <2>7 DEF SessionInv
<1>3. CASE Insert(s) \/ Update(s)
  <2> DEFINE i == Head(todo[s]).id
  <2>1. /\ pc[s] = "write" /\ Waits(s) = {}
        /\ UNCHANGED <<table, versions, user, changes>>
        /\ \/ Refuse(s, 409)
           \/ Write(s, i) /\ (plan[s] = "update" \/ table[i] = NoRow)
    BY <1>3 DEF Insert, Update, Turn, request
  <2>2. i \in Ids
    BY <1>t, <2>1, NextChange
  <2>3. CASE Refuse(s, 409)
    <3>1. pc'[s] = "done" /\ writes'[s] = Nothing
      BY <1>v, <2>3 DEF Refuse, Close
    <3>2. changes'[s] = Nothing
      BY <1>t, <2>1 DEF PullIsBacked
    <3> QED BY <3>1, <3>2, EmptyHandedInv
  <2>4. CASE Write(s, i) /\ (plan[s] = "update" \/ table[i] = NoRow)
    <3> DEFINE w == [owner |-> user[s], row |-> Head(todo[s]).row]
    <3>1. /\ writes' = [writes EXCEPT ![s] = [writes[s] EXCEPT ![i] = w]]
          /\ pc' = [pc EXCEPT ![s] = NextStatement(Tail(todo[s]))]
          /\ UNCHANGED status
      BY <2>4 DEF Write, Advance
    <3>2. pc'[s] \in {"select", "pull"}
      BY <1>v, <3>1 DEF NextStatement
    <3>3. w.owner = user[s]
      OBVIOUS
    <3> HIDE DEF w
    <3>4. \A j \in Ids : writes'[s][j] = IF j = i THEN w ELSE writes[s][j]
      BY <1>v, <2>2, <3>1 DEF Table
    <3>5. Ours(s, i)
      BY <1>t, <2>1, <2>4 DEF UpdatesAreOurs, Ours
    <3>6. HeldRowsAreOurs(s)'
      BY <1>t, <2>1, <3>2, <3>3, <3>4, <3>5 DEF HeldRowsAreOurs, Ours
    <3>7. changes'[s] = Nothing /\ status'[s] = 0
      BY <1>t, <2>1, <3>1 DEF PullIsBacked
    <3>8. PullIsBacked(s)' /\ UpdatesAreOurs(s)'
      BY <3>2, <3>7 DEF PullIsBacked, UpdatesAreOurs, Nothing
    <3> QED BY <3>6, <3>8 DEF SessionInv
  <2> QED BY <2>1, <2>3, <2>4
<1>4. CASE Pull(s)
  <2> DEFINE own(i) == OwnRow(Visible(s), user[s], i)
  <2>1. /\ changes' = [changes EXCEPT ![s] =
             [i \in Ids |-> IF own(i) # NoRow /\ own(i).updated_at > since[s]
                            THEN own(i) ELSE NoRow]]
        /\ pc[s] = "pull"
        /\ pc' = [pc EXCEPT ![s] = "commit"]
        /\ UNCHANGED <<table, versions, user, writes, status>>
    BY <1>4 DEF Pull, request
  <2>2. pc'[s] = "commit"
    BY <1>v, <2>1
  <2>3. ASSUME NEW i \in Ids, changes'[s][i] # NoRow
        PROVE  LET r == [owner |-> user'[s], row |-> changes'[s][i]]
               IN  <<i, r>> \in versions' \/ writes'[s][i] = r
    <3>1. changes'[s][i] = own(i) /\ own(i) # NoRow
      <4> HIDE DEF own
      <4> QED BY <1>v, <2>1, <2>3
    <3>2. Visible(s) \in Table
      BY <1>v, OverlayType DEF Visible
    <3>3. Visible(s)[i] # NoRow /\ Visible(s)[i] = [owner |-> user[s], row |-> own(i)]
      BY <3>1, <3>2, OwnRowType
    <3>4. Visible(s)[i] = IF writes[s][i] # NoRow THEN writes[s][i] ELSE table[i]
      BY DEF Visible, Overlay
    <3>5. table[i] # NoRow => <<i, table[i]>> \in versions
      BY <1>t DEF TableIsHistory
    <3> HIDE DEF own
    <3> QED BY <2>1, <3>1, <3>3, <3>4, <3>5
  <2>4. PullIsBacked(s)'
    BY <1>t, <2>1, <2>2, <2>3 DEF PullIsBacked
  <2>5. HeldRowsAreOurs(s)' /\ UpdatesAreOurs(s)'
    BY <1>t, <2>1, <2>2 DEF HeldRowsAreOurs, UpdatesAreOurs, Ours
  <2> QED BY <2>4, <2>5 DEF SessionInv
<1>5. CASE Commit(s)
  <2>1. /\ pc'[s] = "done" /\ writes'[s] = Nothing
        /\ UNCHANGED <<user, changes>>
        /\ Install(Visible(s))
    BY <1>v, <1>5 DEF Commit, Close, request
  <2>2. \A i \in Ids : writes'[s][i] = NoRow
    BY <2>1 DEF Nothing
  <2>3. ASSUME NEW i \in Ids, changes[s][i] # NoRow
        PROVE  <<i, [owner |-> user[s], row |-> changes[s][i]]>> \in versions'
    <3> DEFINE r == [owner |-> user[s], row |-> changes[s][i]]
    <3>1. <<i, r>> \in versions \/ writes[s][i] = r
      BY <1>t, <2>3 DEF PullIsBacked
    <3>2. r # NoRow
      <4>1. user[s] \in Users
        BY <1>t, <1>5, NextChange DEF Commit
      <4>2. changes[s][i] \in Row
        BY <1>v, <2>3 DEF Maybe
      <4> QED BY <4>1, <4>2, NoStoredAssumption DEF Stored
    <3> QED BY <2>1, <3>1, <3>2, TableGrows DEF Install, Visible, Overlay
  <2>4. PullIsBacked(s)'
    BY <2>1, <2>3 DEF PullIsBacked
  <2> QED BY <2>1, <2>2, <2>4 DEF SessionInv, HeldRowsAreOurs, UpdatesAreOurs
<1>6. CASE Error(s) \/ DeadlockVictim(s)
  <2>1. pc'[s] = "done" /\ writes'[s] = Nothing
    BY <1>v, <1>6 DEF Error, DeadlockVictim, Refuse, Close
  <2>2. changes'[s] = Nothing
    <3>1. CASE Error(s)
      BY <1>v, <3>1 DEF Error, Untold
    <3>2. CASE DeadlockVictim(s)
      <4>1. pc[s] \in {"write", "delete"} /\ UNCHANGED changes
        BY <3>2 DEF DeadlockVictim, Deadlocked, Waits
      <4> QED BY <1>t, <4>1 DEF PullIsBacked
    <3> QED BY <1>6, <3>1, <3>2
  <2> QED BY <2>1, <2>2, EmptyHandedInv
<1>7. CASE Deletion(s)
  <2>1. pc[s] \in {"delete", "exists"} /\ UNCHANGED <<writes, changes>>
    BY <1>t, <1>7, DeletionSteps
  <2>2. \/ pc'[s] = "done"
        \/ pc'[s] = "exists" /\ status'[s] = status[s]
    <3>1. \/ \E code : Close(s, code)
          \/ pc' = [pc EXCEPT ![s] = "exists"] /\ UNCHANGED status
      BY <1>t, <1>7, DeletionSteps
    <3> QED BY <1>v, <3>1 DEF Close
  <2>3. pc'[s] # "write" /\ (status'[s] # 0 => pc'[s] = "done")
    BY <1>t, <2>1, <2>2 DEF PullIsBacked
  <2> QED BY <1>t, <2>1, <2>3, EmptyHandedInv DEF HeldRowsAreOurs, PullIsBacked
<1>8. CASE Reply(s)
  <2>1. /\ pc[s] = "done" /\ pc'[s] = "free" /\ status'[s] = 0
        /\ changes'[s] = Nothing /\ UNCHANGED writes
    BY <1>v, <1>8 DEF Reply, Untold
  <2> QED BY <1>t, <2>1, EmptyHandedInv DEF HeldRowsAreOurs
<1> QED
  BY <1>1, <1>2, <1>3, <1>4, <1>5, <1>6, <1>7, <1>8 DEF Step, Statement, Locking, Deletion

LEMMA OneHolderNext ==
  ASSUME ApiInv, [Next]_vars
  PROVE  OneHolder'
<1>t. writes \in [Sessions -> Table] /\ OneHolder
  BY DEF ApiInv, TypeOK
<1>1. CASE UNCHANGED writes
  BY <1>t, <1>1 DEF OneHolder
<1>2. ASSUME NEW s \in Sessions, writes' = [writes EXCEPT ![s] = Nothing]
      PROVE  OneHolder'
  <2>1. \A i \in Ids : writes'[s][i] = NoRow
    BY <1>t, <1>2 DEF Nothing
  <2>2. \A x \in Sessions \ {s} : writes'[x] = writes[x]
    BY <1>t, <1>2
  <2> QED BY <1>t, <2>1, <2>2 DEF OneHolder
<1>3. ASSUME NEW s \in Sessions, pc[s] = "write", Waits(s) = {},
             Write(s, Head(todo[s]).id)
      PROVE  OneHolder'
  <2>1. PICK i \in Ids : i = Head(todo[s]).id
    BY <1>3, NextChange DEF ApiInv
  <2>2. \A x \in Sessions \ {s} : writes[x][i] = NoRow
    BY <1>3, <2>1 DEF Waits, Holders
  <2>3. \A x \in Sessions \ {s} : writes'[x] = writes[x]
    BY <1>t, <1>3 DEF Write
  <2>4. \A j \in Ids \ {i} : writes'[s][j] = writes[s][j]
    BY <1>t, <1>3, <2>1 DEF Write, Table
  <2> QED BY <1>t, <2>2, <2>3, <2>4 DEF OneHolder
<1>4. ASSUME NEW s \in Sessions, Step(s)
      PROVE  \/ UNCHANGED writes
             \/ writes' = [writes EXCEPT ![s] = Nothing]
             \/ /\ pc[s] = "write" /\ Waits(s) = {}
                /\ Write(s, Head(todo[s]).id)
  <2>1. CASE Arrive(s) \/ Select(s) \/ Pull(s) \/ Deletion(s) \/ Reply(s)
    BY <2>1 DEF Arrive, Begin, DeleteBegin, Select, Pull, Reply, Deletion, DeleteRow,
                SelectExists, DeleteError
  <2>2. CASE Commit(s) \/ Error(s) \/ DeadlockVictim(s)
    BY <2>2 DEF Commit, Error, DeadlockVictim, Refuse
  <2>3. CASE Insert(s) \/ Update(s)
    BY <2>3 DEF Insert, Update, Turn, Refuse
  <2> QED BY <1>4, <2>1, <2>2, <2>3 DEF Step, Statement, Locking, Deletion
<1>5. CASE Tick \/ UNCHANGED vars
  BY <1>1, <1>5 DEF Tick, vars
<1> QED
  BY <1>1, <1>2, <1>3, <1>4, <1>5 DEF Next, Step

LEMMA InvInit == Init => ApiInv
<1> SUFFICES ASSUME Init PROVE ApiInv
  OBVIOUS
<1>1. \A i \in Ids : table[i] = NoRow /\ Nothing[i] = NoRow
  BY DEF Init, Nothing
<1>2. \A s \in Sessions :
        writes[s] = Nothing /\ changes[s] = Nothing /\ pc[s] = "free" /\ status[s] = 0
  BY DEF Init
<1>3. OneHolder /\ TableIsHistory
  BY <1>1, <1>2 DEF OneHolder, TableIsHistory
<1>4. ASSUME NEW s \in Sessions
      PROVE  HeldRowsAreOurs(s) /\ UpdatesAreOurs(s) /\ PullIsBacked(s)
  <2>1. HeldRowsAreOurs(s)
    BY <1>1, <1>2 DEF HeldRowsAreOurs
  <2>2. UpdatesAreOurs(s)
    BY <1>2 DEF UpdatesAreOurs
  <2>3. PullIsBacked(s)
    BY <1>1, <1>2 DEF PullIsBacked
  <2> QED BY <2>1, <2>2, <2>3
<1> QED
  BY <1>3, <1>4, TypeInit DEF ApiInv

LEMMA InvNext ==
  ASSUME ApiInv, [Next]_vars
  PROVE  ApiInv'
<1>1. TypeOK'
  BY TypeNext DEF ApiInv
<1>2. OneHolder'
  BY OneHolderNext
<1>3. TableIsHistory'
  BY TableGrows DEF TableIsHistory
<1>4. ASSUME NEW x \in Sessions
      PROVE  SessionInv(x)'
  <2>1. CASE \E s \in Sessions : Step(s)
    <3>1. PICK s \in Sessions : Step(s)
      BY <2>1
    <3>2. CASE x = s
      BY <3>1, <3>2, StepKeepsInv
    <3>3. CASE x # s
      BY <3>1, <3>3, StepIsLocal, UntouchedKeepsInv DEF ApiInv
    <3> QED BY <3>2, <3>3
  <2>2. CASE Tick \/ UNCHANGED vars
    BY <2>2, UntouchedKeepsInv DEF Tick, vars, request, Untouched
  <2> QED BY <2>1, <2>2 DEF Next, Step
<1> QED
  BY <1>1, <1>2, <1>3, <1>4 DEF ApiInv, SessionInv

(* What keeps the sessions apart (ApiInv) holds in every reachable state.  *)
THEOREM SessionsKeptApart == Spec => []ApiInv
<1>1. ApiInv /\ [Next]_vars => ApiInv'
  BY InvNext
<1> QED
  BY <1>1, InvInit, PTL DEF Spec

(* No interleaving of syncs and deletions passes a row to another account, *)
(* although the UPDATE and the INSERT of one request come some time after  *)
(* the SELECT that found the row, or found it missing.                     *)
THEOREM OwnersStay == Spec => OwnersKept
<1>1. ASSUME ApiInv, [Next]_vars
      PROVE  \A i \in Ids : table[i] # NoRow =>
               table'[i] # NoRow /\ table'[i].owner = table[i].owner
  BY <1>1, TableGrows
<1> QED
  BY <1>1, SessionsKeptApart, PTL DEF Spec, OwnersKept

(* A device that got a 200 was told of committed rows only.                *)
THEOREM OnlyCommittedIsTold == Spec => []AnswersAreCommitted
<1>1. ASSUME ApiInv, NEW s \in Sessions, NEW i \in Ids,
             status[s] = 200, changes[s][i] # NoRow
      PROVE  <<i, [owner |-> user[s], row |-> changes[s][i]]>> \in versions
  <2> DEFINE r == [owner |-> user[s], row |-> changes[s][i]]
  <2>1. /\ TypeOK /\ HeldRowsAreOurs(s) /\ PullIsBacked(s)
    BY <1>1 DEF ApiInv
  <2>2. pc[s] = "done"
    BY <1>1, <2>1 DEF PullIsBacked
  <2>3. writes[s][i] = NoRow
    BY <2>1, <2>2 DEF HeldRowsAreOurs, Nothing
  <2>4. r # NoRow
    <3>1. user[s] \in Users
      BY <2>1, <2>2, NextChange
    <3>2. changes[s][i] \in Row
      BY <1>1, <2>1 DEF TypeOK, Maybe
    <3> QED BY <3>1, <3>2, NoStoredAssumption DEF Stored
  <2>5. <<i, r>> \in versions \/ writes[s][i] = r
    BY <1>1, <2>1 DEF PullIsBacked
  <2> QED BY <2>3, <2>4, <2>5
<1>2. ApiInv => AnswersAreCommitted
  BY <1>1 DEF AnswersAreCommitted
<1> QED
  BY <1>2, SessionsKeptApart, PTL
=============================================================================
